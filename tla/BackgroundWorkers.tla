-------------------------- MODULE BackgroundWorkers --------------------------
(***************************************************************************)
(* The in-process worker pool for batch ingestion and the batch            *)
(* deduplication its default processor runs through.                       *)
(*                                                                         *)
(* Everything runs on one event loop, so an action is the code between two *)
(* awaits: a worker takes a task, marks it running and passes the          *)
(* duplicate check without yielding; the insert, the closing of the        *)
(* session and the failure callback are separate steps.                    *)
(*                                                                         *)
(* Tasks are numbered in the order of submission (their uuid4 is fresh).   *)
(* A deduplication key is the day and the number of observations; the day  *)
(* is folded into KeyExpires, so a key is a size.  The status object of a  *)
(* task lives in "state" and "result" even after the pool has dropped it   *)
(* from _statuses, because the worker holds a reference; _statuses has     *)
(* exactly the keys of _order.                                             *)
(***************************************************************************)
EXTENDS Integers, Sequences, FiniteSets

CONSTANTS
  Workers,       \* worker indices
  Batches,       \* contents of submitted batches
  Sizes,         \* numbers of observations
  SizeOf,        \* the size of each batch
  QueueSize,     \* queue_size
  TrackedLimits, \* values of max_tracked_tasks
  MaxTasks,      \* bound: submissions
  MaxExpiries    \* bound: keys that leave the deduplication window

ASSUME WorkersAssumption == IsFiniteSet(Workers)
ASSUME SizesAssumption == SizeOf \in [Batches -> Sizes]
ASSUME LimitsAssumption ==
  /\ QueueSize \in Nat \ {0}
  /\ TrackedLimits \subseteq Nat \ {0}
  /\ MaxTasks \in Nat
  /\ MaxExpiries \in Nat

VARIABLES
  maxTracked, \* the max_tracked_tasks of this deployment
  phase,      \* the pool is new, running or stopped
  submitted,  \* number of tasks accepted so far
  batch,      \* the observations of each accepted task
  queue,      \* _queue
  order,      \* _order, and the keys of _statuses
  state,      \* status.status
  result,     \* status.result
  pc,         \* where each worker waits
  task,       \* the task it holds, 0 if none
  seen,       \* unexpired keys of _dedup_tracker
  expiries,   \* how often each key left the window
  stored      \* committed batches: how often each one was inserted

poolVars == <<submitted, batch, queue, order>>
workVars == <<state, result, pc, task>>
dataVars == <<seen, expiries, stored>>
vars == <<maxTracked, phase, poolVars, workVars, dataVars>>

Tasks == 1..MaxTasks
TaskState == {"none", "queued", "running", "succeeded", "failed", "cancelled"}
Finished == {"succeeded", "failed", "cancelled"}

TypeOK ==
  /\ maxTracked \in TrackedLimits
  /\ phase \in {"new", "running", "stopped"}
  /\ submitted \in 0..MaxTasks
  /\ batch \in [Tasks -> Batches \cup {"none"}]
  /\ queue \in Seq(Tasks) /\ Len(queue) <= QueueSize
  /\ order \in Seq(Tasks) /\ Len(order) <= maxTracked
  /\ state \in [Tasks -> TaskState]
  /\ result \in [Tasks -> {"none", "inserted", "errors", "duplicate"}]
  /\ pc \in [Workers -> {"none", "get", "insert", "close", "notify", "dead"}]
  /\ task \in [Workers -> 0..MaxTasks]
  /\ seen \in SUBSET Sizes
  /\ expiries \in [Sizes -> 0..MaxExpiries]
  /\ stored \in [Batches -> Nat]

Init ==
  /\ maxTracked \in TrackedLimits
  /\ phase = "new"
  /\ submitted = 0
  /\ batch = [t \in Tasks |-> "none"]
  /\ queue = << >>
  /\ order = << >>
  /\ state = [t \in Tasks |-> "none"]
  /\ result = [t \in Tasks |-> "none"]
  /\ pc = [w \in Workers |-> "none"]
  /\ task = [w \in Workers |-> 0]
  /\ seen = {}
  /\ expiries = [k \in Sizes |-> 0]
  /\ stored = [b \in Batches |-> 0]

-----------------------------------------------------------------------------
(* The pool *)

(* The lifespan of the application starts the pool once. *)
Start ==
  /\ phase = "new"
  /\ phase' = "running"
  /\ pc' = [w \in Workers |-> "get"]
  /\ UNCHANGED <<maxTracked, poolVars, state, result, task, dataVars>>

(* At shutdown every worker is cancelled; see Cancelled. *)
Stop ==
  /\ phase = "running"
  /\ phase' = "stopped"
  /\ UNCHANGED <<maxTracked, poolVars, workVars, dataVars>>

(* Mutant: drops the newest status instead of the oldest. *)
TrimStatusHistory_Newest(ids) ==
  IF Len(ids) > maxTracked THEN SubSeq(ids, 1, maxTracked) ELSE ids

(* The statuses still kept: the newest maxTracked. *)
TrimStatusHistory(ids) ==
  IF Len(ids) > maxTracked
  THEN SubSeq(ids, Len(ids) - maxTracked + 1, Len(ids))
  ELSE ids

(* Mutant: the queue takes one task too many. *)
Accepts_OffByOne == phase = "running" /\ Len(queue) <= QueueSize

(* Admission: a pool that is not running or whose queue is full refuses. *)
Accepts == phase = "running" /\ Len(queue) < QueueSize

SubmitBatchIngest(b) ==
  /\ Accepts
  /\ submitted < MaxTasks
  /\ submitted' = submitted + 1
  /\ batch' = [batch EXCEPT ![submitted + 1] = b]
  /\ state' = [state EXCEPT ![submitted + 1] = "queued"]
  /\ order' = TrimStatusHistory(Append(order, submitted + 1))
  /\ queue' = Append(queue, submitted + 1)
  /\ UNCHANGED <<maxTracked, phase, result, pc, task, dataVars>>

-----------------------------------------------------------------------------
(* A worker *)

Key(t) == SizeOf[batch[t]]

(* ingest_api_batch skips a batch whose key is in the window. *)
IsDuplicate(t) == Key(t) \in seen

Tracked(t) == \E i \in 1..Len(order) : order[i] = t

(* Mutant: the key is marked by nobody before the insert is awaited. *)
Take_MarksLate(w) ==
  /\ phase = "running"
  /\ pc[w] = "get"
  /\ queue # << >>
  /\ queue' = Tail(queue)
  /\ task' = [task EXCEPT ![w] = Head(queue)]
  /\ state' = [state EXCEPT ![Head(queue)] = "running"]
  /\ pc' = [pc EXCEPT ![w] = IF Key(Head(queue)) \in seen
                             THEN "close" ELSE "insert"]
  /\ UNCHANGED <<maxTracked, phase, submitted, batch, order, result, dataVars>>

(* A task whose status was dropped raises KeyError outside the try block   *)
(* and ends the worker; the others are marked running and pass the         *)
(* duplicate check of ingest_api_batch.                                    *)
Take(w) ==
  /\ phase = "running"
  /\ pc[w] = "get"
  /\ queue # << >>
  /\ queue' = Tail(queue)
  /\ LET t == Head(queue) IN
       \/ /\ ~ Tracked(t)
          /\ pc' = [pc EXCEPT ![w] = "dead"]
          /\ UNCHANGED <<task, state, result, seen>>
       \/ /\ Tracked(t)
          /\ task' = [task EXCEPT ![w] = t]
          /\ state' = [state EXCEPT ![t] = "running"]
          /\ \/ /\ IsDuplicate(t)
                /\ result' = [result EXCEPT ![t] = "duplicate"]
                /\ pc' = [pc EXCEPT ![w] = "close"]
                /\ seen' = seen
             \/ /\ ~ IsDuplicate(t)
                /\ seen' = seen \cup {Key(t)}
                /\ pc' = [pc EXCEPT ![w] = "insert"]
                /\ result' = result
  /\ UNCHANGED <<maxTracked, phase, submitted, batch, order, expiries, stored>>

(* create_observations_batch commits, or raises and the error becomes the  *)
(* result of the batch.                                                    *)
Insert(w) ==
  /\ phase = "running"
  /\ pc[w] = "insert"
  /\ LET t == task[w] IN
       \/ /\ stored' = [stored EXCEPT ![batch[t]] = @ + 1]
          /\ result' = [result EXCEPT ![t] = "inserted"]
       \/ /\ stored' = stored
          /\ result' = [result EXCEPT ![t] = "errors"]
  /\ pc' = [pc EXCEPT ![w] = "close"]
  /\ UNCHANGED <<maxTracked, phase, poolVars, state, task, seen, expiries>>

(* The session is closed and the task has succeeded, whatever its result,  *)
(* or closing raises and the failure callback is awaited.                  *)
Close(w) ==
  /\ phase = "running"
  /\ pc[w] = "close"
  /\ \/ /\ state' = [state EXCEPT ![task[w]] = "succeeded"]
        /\ pc' = [pc EXCEPT ![w] = "get"]
        /\ task' = [task EXCEPT ![w] = 0]
        /\ result' = result
     \/ /\ state' = [state EXCEPT ![task[w]] = "failed"]
        /\ result' = [result EXCEPT ![task[w]] = "none"]
        /\ pc' = [pc EXCEPT ![w] = "notify"]
        /\ task' = task
  /\ UNCHANGED <<maxTracked, phase, poolVars, dataVars>>

(* Mutant: an error of the callback is not caught. *)
Notified_Raises(w) ==
  /\ phase = "running"
  /\ pc[w] = "notify"
  /\ pc' = [pc EXCEPT ![w] = "dead"]
  /\ UNCHANGED <<maxTracked, phase, poolVars, state, result, task, dataVars>>

(* on_task_failed returns or raises: both lead back to the queue. *)
Notified(w) ==
  /\ phase = "running"
  /\ pc[w] = "notify"
  /\ pc' = [pc EXCEPT ![w] = "get"]
  /\ task' = [task EXCEPT ![w] = 0]
  /\ UNCHANGED <<maxTracked, phase, poolVars, state, result, dataVars>>

(* Mutant: the cancellation is not recorded in the status. *)
Cancelled_Unrecorded(w) ==
  /\ phase = "stopped"
  /\ pc[w] # "none"
  /\ pc' = [pc EXCEPT ![w] = "none"]
  /\ UNCHANGED <<maxTracked, phase, poolVars, state, result, task, dataVars>>

(* CancelledError at the await where the worker waits.  An insert that is  *)
(* cancelled may have committed.                                           *)
Cancelled(w) ==
  /\ phase = "stopped"
  /\ pc[w] # "none"
  /\ pc' = [pc EXCEPT ![w] = "none"]
  /\ task' = [task EXCEPT ![w] = 0]
  /\ state' = IF pc[w] \in {"insert", "close"}
              THEN [state EXCEPT ![task[w]] = "cancelled"] ELSE state
  /\ result' = IF pc[w] = "close"
               THEN [result EXCEPT ![task[w]] = "none"] ELSE result
  /\ \/ stored' = stored
     \/ /\ pc[w] = "insert"
        /\ stored' = [stored EXCEPT ![batch[task[w]]] = @ + 1]
  /\ UNCHANGED <<maxTracked, phase, poolVars, seen, expiries>>

(* The key is older than an hour, or the day has changed. *)
KeyExpires(k) ==
  /\ k \in seen
  /\ expiries[k] < MaxExpiries
  /\ seen' = seen \ {k}
  /\ expiries' = [expiries EXCEPT ![k] = @ + 1]
  /\ UNCHANGED <<maxTracked, phase, poolVars, workVars, stored>>

Work(w) == Take(w) \/ Insert(w) \/ Close(w) \/ Notified(w) \/ Cancelled(w)

Next ==
  \/ Start
  \/ Stop
  \/ \E b \in Batches : SubmitBatchIngest(b)
  \/ \E w \in Workers : Work(w)
  \/ \E k \in Sizes : KeyExpires(k)

Spec == Init /\ [][Next]_vars

(* The event loop runs every ready task. *)
FairSpec == Spec /\ \A w \in Workers : WF_vars(Work(w))

-----------------------------------------------------------------------------
(* Properties *)

(* No worker dies: a queued task is never dropped from the bounded status  *)
(* history before a worker looks it up.  It needs maxTracked >= QueueSize, *)
(* which the settings do not enforce.                                      *)
WorkersSurvive == maxTracked >= QueueSize => \A w \in Workers : pc[w] # "dead"

(* A status says "running" only while a worker holds the task, also after  *)
(* a failure, a callback error or a shutdown: nobody polls it for ever.    *)
RunningHasWorker ==
  \A t \in Tasks : state[t] = "running" =>
    \E w \in Workers : task[w] = t /\ pc[w] \in {"insert", "close"}

(* Concurrent workers never insert two batches under one unexpired key:    *)
(* the check and the mark are not separated by an await.                   *)
OneInsertPerKey ==
  \A b, c \in Batches :
    b # c /\ SizeOf[b] = SizeOf[c]
      => stored[b] + stored[c] <= 1 + expiries[SizeOf[b]]

(* An accepted task is finished, unless the pool is stopped first or its   *)
(* status history is shorter than the queue.                               *)
TasksFinish ==
  \A t \in Tasks :
    (state[t] = "queued" /\ maxTracked >= QueueSize)
      ~> (state[t] \in Finished \/ phase = "stopped")

(* Once no task is pending, a batch that was skipped as already processed  *)
(* is stored, as the result "Batch already processed (duplicate key)"      *)
(* says.                                                                   *)
SkippedWasStored ==
  (\A t \in Tasks : state[t] \notin {"queued", "running"}) =>
    \A t \in Tasks : result[t] = "duplicate" => stored[batch[t]] > 0
=============================================================================
