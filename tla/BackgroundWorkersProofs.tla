----------------------- MODULE BackgroundWorkersProofs -----------------------
(***************************************************************************)
(* Proofs about BackgroundWorkers.  The reason no worker dies is that the  *)
(* queue is first in, first out: it always holds the newest submissions,   *)
(* and the status history holds the newest maxTracked of them.  The reason *)
(* no key is inserted twice in its window is that each insert, made or     *)
(* still awaited, has used up one appearance of its key in seen.           *)
(***************************************************************************)
EXTENDS BackgroundWorkers, FiniteSetTheorems, TLAPS

(* The queue and the history are the newest submissions, oldest first; the *)
(* history is only shortened to its limit.                                 *)
NewestFirst ==
  /\ Len(queue) <= submitted
  /\ \A i \in 1..Len(queue) : queue[i] = submitted - Len(queue) + i
  /\ Len(order) <= submitted
  /\ \A i \in 1..Len(order) : order[i] = submitted - Len(order) + i
  /\ Len(order) \in {submitted, maxTracked}

(* Every accepted task has its observations. *)
BatchesKnown == \A t \in 1..submitted : batch[t] \in Batches

(* No worker exists before the pool is started. *)
NotStarted == phase = "new" => \A w \in Workers : pc[w] = "none"

PoolInv ==
  /\ TypeOK
  /\ NotStarted
  /\ NewestFirst
  /\ BatchesKnown
  /\ WorkersSurvive
  /\ RunningHasWorker

USE SizesAssumption, LimitsAssumption

(* A task at the head of the queue is in the history whenever the history  *)
(* may be as long as the queue.                                            *)
LEMMA HeadIsTracked ==
  ASSUME PoolInv, queue # << >>, maxTracked >= QueueSize
  PROVE  Tracked(Head(queue))
<1>1. Len(queue) \in Nat /\ Len(queue) >= 1 /\ Len(order) \in Nat
  BY DEF PoolInv, TypeOK
<1>2. Head(queue) = submitted - Len(queue) + 1
  BY <1>1 DEF PoolInv, TypeOK, NewestFirst
<1>3. Len(order) >= Len(queue)
  BY <1>1 DEF PoolInv, TypeOK, NewestFirst
<1> DEFINE i == Len(order) - Len(queue) + 1
<1>4. i \in 1..Len(order)
  BY <1>1, <1>3
<1>5. order[i] = submitted - Len(order) + i
  <2> HIDE DEF i
  <2> QED  BY <1>4 DEF PoolInv, NewestFirst
<1>6. order[i] = Head(queue)
  BY <1>1, <1>2, <1>5 DEF PoolInv, TypeOK
<1> QED  BY <1>4, <1>6 DEF Tracked

(* Taking the head of the queue keeps it the newest submissions. *)
LEMMA TailIsNewest ==
  ASSUME PoolInv, queue # << >>,
         queue' = Tail(queue), UNCHANGED <<maxTracked, submitted, order>>
  PROVE  /\ NewestFirst'
         /\ queue' \in Seq(Tasks)
         /\ Len(queue') = Len(queue) - 1
<1>1. queue \in Seq(Tasks) /\ Len(queue) >= 1
  BY DEF PoolInv, TypeOK
<1>2. /\ queue' \in Seq(Tasks)
      /\ Len(queue') = Len(queue) - 1
      /\ \A i \in 1..Len(queue') : queue'[i] = queue[i + 1]
  BY <1>1
<1> QED  BY <1>1, <1>2 DEF PoolInv, TypeOK, NewestFirst

(* Appending the next submission to a sequence of the newest ones. *)
LEMMA AppendIsNewest ==
  ASSUME NEW s \in Seq(Tasks), NEW m \in Nat, m + 1 \in Tasks,
         \A i \in 1..Len(s) : s[i] = m - Len(s) + i
  PROVE  /\ Append(s, m + 1) \in Seq(Tasks)
         /\ Len(Append(s, m + 1)) = Len(s) + 1
         /\ \A i \in 1..Len(Append(s, m + 1)) :
              Append(s, m + 1)[i] = (m + 1) - (Len(s) + 1) + i
<1> DEFINE o == Append(s, m + 1)
<1>1. o \in Seq(Tasks) /\ Len(o) = Len(s) + 1 /\ Len(s) \in Nat
  OBVIOUS
<1>2. \A i \in 1..Len(o) : o[i] = IF i <= Len(s) THEN s[i] ELSE m + 1
  OBVIOUS
<1> HIDE DEF o
<1>3. ASSUME NEW i \in 1..Len(o)
      PROVE  o[i] = (m + 1) - (Len(s) + 1) + i
  <2>1. i \in Nat /\ 1 <= i /\ i <= Len(s) + 1
    BY <1>1
  <2>2. CASE i <= Len(s)
    <3>1. o[i] = s[i] /\ s[i] = m - Len(s) + i
      BY <1>1, <1>2, <2>1, <2>2
    <3> QED  BY <1>1, <2>1, <3>1
  <2>3. CASE i = Len(s) + 1
    <3>1. o[i] = m + 1
      BY <1>1, <1>2, <2>1, <2>3
    <3> QED  BY <1>1, <2>1, <2>3, <3>1
  <2> QED  BY <1>1, <2>1, <2>2, <2>3
<1> QED  BY <1>1, <1>3 DEF o

(* Appending the next submission and dropping the oldest statuses keeps    *)
(* both sequences the newest submissions.                                  *)
LEMMA SubmitIsNewest ==
  ASSUME PoolInv, NEW b \in Batches, SubmitBatchIngest(b)
  PROVE  /\ NewestFirst'
         /\ queue' \in Seq(Tasks) /\ Len(queue') <= QueueSize
         /\ order' \in Seq(Tasks) /\ Len(order') <= maxTracked
<1> DEFINE n == submitted + 1
           o == Append(order, n)
<1>1. /\ queue \in Seq(Tasks) /\ order \in Seq(Tasks) /\ n \in Tasks
      /\ maxTracked \in Nat \ {0} /\ maxTracked' = maxTracked
      /\ submitted' = n /\ submitted \in Nat
      /\ Len(queue) < QueueSize /\ Len(order) <= maxTracked
  BY DEF PoolInv, TypeOK, SubmitBatchIngest, Accepts, Tasks
<1>2. /\ queue' \in Seq(Tasks) /\ Len(queue') = Len(queue) + 1
      /\ \A i \in 1..Len(queue') : queue'[i] = n - Len(queue') + i
  <2>1. queue' = Append(queue, submitted + 1)
    BY DEF SubmitBatchIngest
  <2>2. \A i \in 1..Len(queue) : queue[i] = submitted - Len(queue) + i
    BY DEF PoolInv, NewestFirst
  <2>3. /\ Append(queue, submitted + 1) \in Seq(Tasks)
        /\ Len(Append(queue, submitted + 1)) = Len(queue) + 1
        /\ \A i \in 1..Len(Append(queue, submitted + 1)) :
             Append(queue, submitted + 1)[i] = (submitted + 1) - (Len(queue) + 1) + i
    BY <1>1, <2>2, AppendIsNewest
  <2> QED  BY <2>1, <2>3
<1>3. /\ o \in Seq(Tasks) /\ Len(o) = Len(order) + 1
      /\ \A i \in 1..Len(o) : o[i] = n - Len(o) + i
  <2>1. \A i \in 1..Len(order) : order[i] = submitted - Len(order) + i
    BY DEF PoolInv, NewestFirst
  <2>2. /\ Append(order, submitted + 1) \in Seq(Tasks)
        /\ Len(Append(order, submitted + 1)) = Len(order) + 1
        /\ \A i \in 1..Len(Append(order, submitted + 1)) :
             Append(order, submitted + 1)[i] = (submitted + 1) - (Len(order) + 1) + i
    BY <1>1, <2>1, AppendIsNewest
  <2> QED  BY <2>2
<1> HIDE DEF o
<1>4. order' = TrimStatusHistory(o)
  BY DEF SubmitBatchIngest, o
<1>5. CASE Len(o) > maxTracked
  <2>1. Len(order) = maxTracked /\ Len(o) = maxTracked + 1
    BY <1>1, <1>3, <1>5
  <2>2. order' = SubSeq(o, 2, Len(o))
    BY <1>1, <1>4, <1>5, <2>1 DEF TrimStatusHistory
  <2>3. /\ order' \in Seq(Tasks) /\ Len(order') = maxTracked
        /\ \A i \in 1..Len(order') : order'[i] = o[i + 1]
    BY <1>1, <1>3, <2>1, <2>2
  <2>4. \A i \in 1..Len(order') : order'[i] = n - Len(order') + i
    BY <1>1, <1>3, <2>1, <2>3
  <2>5. Len(queue') <= submitted' /\ Len(order') <= submitted'
    BY <1>1, <1>2, <2>1, <2>3 DEF PoolInv, NewestFirst
  <2> QED  BY <1>1, <1>2, <2>3, <2>4, <2>5 DEF NewestFirst
<1>6. CASE Len(o) <= maxTracked
  <2>1. order' = o
    BY <1>1, <1>3, <1>4, <1>6 DEF TrimStatusHistory
  <2>2. Len(order) = submitted
    BY <1>1, <1>3, <1>6 DEF PoolInv, NewestFirst
  <2>3. Len(queue') <= submitted' /\ Len(order') = submitted'
    BY <1>1, <1>2, <1>3, <2>1, <2>2 DEF PoolInv, NewestFirst
  <2> QED  BY <1>1, <1>2, <1>3, <1>6, <2>1, <2>3 DEF NewestFirst
<1> QED  BY <1>1, <1>3, <1>5, <1>6

(* A step of the pool keeps the inductive invariant. *)
LEMMA PoolStep ==
  ASSUME PoolInv, [Next]_vars
  PROVE  PoolInv'
<1> USE DEF PoolInv
<1>0. 0 \in 0..MaxTasks /\ \A t \in Tasks : t \in 0..MaxTasks
  BY DEF Tasks
<1>1. CASE Start
  <2>1. TypeOK'
    BY <1>1 DEF TypeOK, Start, poolVars, dataVars
  <2>2. RunningHasWorker'
    <3>1. \A t \in Tasks : state[t] # "running"
      BY <1>1 DEF Start, NotStarted, RunningHasWorker
    <3> QED  BY <1>1, <3>1 DEF Start, RunningHasWorker
  <2> QED  BY <1>1, <2>1, <2>2 DEF TypeOK, Start, poolVars, NewestFirst,
             BatchesKnown, NotStarted, WorkersSurvive
<1>2. CASE Stop
  BY <1>2 DEF TypeOK, Stop, poolVars, workVars, dataVars, NewestFirst,
     BatchesKnown, NotStarted, WorkersSurvive, RunningHasWorker
<1>3. ASSUME NEW b \in Batches, SubmitBatchIngest(b)
      PROVE  PoolInv'
  <2>1. /\ NewestFirst'
        /\ queue' \in Seq(Tasks) /\ Len(queue') <= QueueSize
        /\ order' \in Seq(Tasks) /\ Len(order') <= maxTracked'
    BY <1>3, SubmitIsNewest DEF SubmitBatchIngest
  <2>2. TypeOK'
    BY <1>3, <2>1 DEF TypeOK, SubmitBatchIngest, Tasks, TaskState, dataVars
  <2>3. BatchesKnown'
    BY <1>3 DEF TypeOK, SubmitBatchIngest, Tasks, BatchesKnown
  <2>4. RunningHasWorker'
    BY <1>3 DEF TypeOK, SubmitBatchIngest, RunningHasWorker
  <2> QED  BY <1>3, <2>1, <2>2, <2>3, <2>4 
           DEF SubmitBatchIngest, Accepts, NotStarted, WorkersSurvive
<1>4. ASSUME NEW w \in Workers, Take(w)
      PROVE  PoolInv'
  <2> DEFINE t == Head(queue)
  <2>1. /\ NewestFirst' /\ queue' \in Seq(Tasks) /\ Len(queue') <= QueueSize
    BY <1>4, TailIsNewest DEF Take, TypeOK
  <2>2. t \in Tasks /\ t \in 1..submitted
    <3>1. queue \in Seq(Tasks) /\ queue # << >> /\ Len(queue) \in Nat \ {0}
      BY <1>4 DEF Take, TypeOK
    <3>2. t = queue[1] /\ t \in Tasks
      BY <3>1
    <3>3. queue[1] = submitted - Len(queue) + 1 /\ Len(queue) <= submitted
      BY <3>1 DEF NewestFirst
    <3> QED  BY <3>1, <3>2, <3>3 DEF TypeOK
  <2>3. Key(t) \in Sizes
    BY <2>2 DEF Key, BatchesKnown
  <2> HIDE DEF t
  <2>4. TypeOK'
    <3>1. /\ pc' \in [Workers -> {"none", "get", "insert", "close", "notify", "dead"}]
          /\ task' \in [Workers -> 0..MaxTasks]
          /\ state' \in [Tasks -> TaskState]
          /\ result' \in [Tasks -> {"none", "inserted", "errors", "duplicate"}]
          /\ seen' \in SUBSET Sizes
      <4>1. CASE ~ Tracked(t)
        BY <1>4, <4>1 DEF t, TypeOK, Take
      <4>2. CASE Tracked(t)
        <5>1. /\ task' = [task EXCEPT ![w] = t]
              /\ state' = [state EXCEPT ![t] = "running"]
          BY <1>4, <4>2 DEF t, Take
        <5>2. task' \in [Workers -> 0..MaxTasks] /\ state' \in [Tasks -> TaskState]
          BY <1>0, <2>2, <5>1 DEF TypeOK, TaskState
        <5>3. CASE IsDuplicate(t)
          <6>1. /\ result' = [result EXCEPT ![t] = "duplicate"]
                /\ pc' = [pc EXCEPT ![w] = "close"]
                /\ seen' = seen
            BY <1>4, <4>2, <5>3 DEF t, Take
          <6> QED  BY <2>2, <5>2, <6>1 DEF TypeOK
        <5>4. CASE ~ IsDuplicate(t)
          <6>1. /\ seen' = seen \cup {Key(t)}
                /\ pc' = [pc EXCEPT ![w] = "insert"]
                /\ result' = result
            BY <1>4, <4>2, <5>4 DEF t, Take
          <6> QED  BY <2>3, <5>2, <6>1 DEF TypeOK
        <5> QED  BY <5>3, <5>4
      <4> QED  BY <4>1, <4>2
    <3> QED  BY <1>4, <2>1, <3>1 DEF TypeOK, Take
  <2>5. WorkersSurvive'
    <3>1. CASE maxTracked >= QueueSize
      <4>1. Tracked(t)
        BY <1>4, <3>1, HeadIsTracked DEF t, Take
      <4> QED  BY <1>4, <4>1 DEF t, Take, WorkersSurvive, TypeOK
    <3>2. CASE ~ (maxTracked >= QueueSize)
      BY <1>4, <3>2 DEF Take, WorkersSurvive
    <3> QED  BY <3>1, <3>2
  <2>6. RunningHasWorker'
    <3>1. CASE Tracked(t)
      <4>1. /\ task' = [task EXCEPT ![w] = t]
            /\ state' = [state EXCEPT ![t] = "running"]
            /\ \/ pc' = [pc EXCEPT ![w] = "close"]
               \/ pc' = [pc EXCEPT ![w] = "insert"]
            /\ pc[w] = "get"
        BY <1>4, <3>1 DEF t, Take
      <4> QED  BY <2>2, <4>1 DEF TypeOK, RunningHasWorker
    <3>2. CASE ~ Tracked(t)
      <4>1. /\ UNCHANGED <<task, state>>
            /\ pc' = [pc EXCEPT ![w] = "dead"]
            /\ pc[w] = "get"
        BY <1>4, <3>2 DEF t, Take
      <4> QED  BY <4>1 DEF TypeOK, RunningHasWorker
    <3> QED  BY <3>1, <3>2
  <2>7. BatchesKnown'
    BY <1>4 DEF Take, BatchesKnown
  <2>8. NotStarted'
    BY <1>4 DEF Take, NotStarted
  <2> QED  BY <2>1, <2>4, <2>5, <2>6, <2>7, <2>8
<1>5. ASSUME NEW w \in Workers, Insert(w)
      PROVE  PoolInv'
  <2>1. TypeOK'
    <3>1. stored' \in [Batches -> Nat]
      BY <1>5 DEF TypeOK, Insert
    <3>2. result' \in [Tasks -> {"none", "inserted", "errors", "duplicate"}]
      BY <1>5 DEF TypeOK, Insert
    <3> QED  BY <1>5, <3>1, <3>2 DEF TypeOK, Insert, poolVars
  <2>2. RunningHasWorker'
    BY <1>5 DEF TypeOK, Insert, RunningHasWorker
  <2> QED  BY <1>5, <2>1, <2>2 DEF Insert, poolVars, NewestFirst, BatchesKnown,
             NotStarted, WorkersSurvive, TypeOK
<1>6. ASSUME NEW w \in Workers, Close(w)
      PROVE  PoolInv'
  <2>1. TypeOK'
    <3>1. /\ pc' \in [Workers -> {"none", "get", "insert", "close", "notify", "dead"}]
          /\ task' \in [Workers -> 0..MaxTasks]
      <4>1. /\ pc \in [Workers -> {"none", "get", "insert", "close", "notify", "dead"}]
            /\ task \in [Workers -> 0..MaxTasks]
        BY DEF TypeOK
      <4>2. \/ pc' = [pc EXCEPT ![w] = "get"] /\ task' = [task EXCEPT ![w] = 0]
            \/ pc' = [pc EXCEPT ![w] = "notify"] /\ task' = task
        BY <1>6 DEF Close
      <4> QED  BY <1>0, <4>1, <4>2
    <3>2. /\ state' \in [Tasks -> TaskState]
          /\ result' \in [Tasks -> {"none", "inserted", "errors", "duplicate"}]
      BY <1>6 DEF TypeOK, Close, TaskState
    <3> QED  BY <1>6, <3>1, <3>2 DEF TypeOK, Close, poolVars, dataVars
  <2>2. RunningHasWorker'
    <3> SUFFICES ASSUME NEW t \in Tasks, state'[t] = "running"
                 PROVE  \E v \in Workers : task'[v] = t /\ pc'[v] \in {"insert", "close"}
      BY DEF RunningHasWorker
    <3>1. t # task[w] /\ state[t] = "running"
      BY <1>6 DEF Close, TypeOK
    <3>2. PICK v \in Workers : task[v] = t /\ pc[v] \in {"insert", "close"}
      BY <3>1 DEF RunningHasWorker
    <3>3. v # w
      BY <3>1, <3>2
    <3>4. task'[v] = task[v] /\ pc'[v] = pc[v]
      BY <1>6, <3>3 DEF Close, TypeOK
    <3> QED  BY <3>2, <3>4
  <2> QED  BY <1>6, <2>1, <2>2 DEF Close, poolVars, NewestFirst, BatchesKnown,
             NotStarted, WorkersSurvive, TypeOK
<1>7. ASSUME NEW w \in Workers, Notified(w)
      PROVE  PoolInv'
  <2>1. TypeOK'
    BY <1>7 DEF TypeOK, Notified, poolVars, dataVars
  <2>2. RunningHasWorker'
    BY <1>7 DEF TypeOK, Notified, RunningHasWorker
  <2> QED  BY <1>7, <2>1, <2>2 DEF Notified, poolVars, NewestFirst, BatchesKnown,
             NotStarted, WorkersSurvive, TypeOK
<1>8. ASSUME NEW w \in Workers, Cancelled(w)
      PROVE  PoolInv'
  <2>1. TypeOK'
    <3>1. stored' \in [Batches -> Nat]
      <4>1. stored \in [Batches -> Nat]
        BY DEF TypeOK
      <4>2. stored' = stored \/ stored' = [stored EXCEPT ![batch[task[w]]] = @ + 1]
        BY <1>8 DEF Cancelled
      <4> QED  BY <4>1, <4>2
    <3>2. state' \in [Tasks -> TaskState]
      BY <1>8 DEF TypeOK, Cancelled, TaskState
    <3>3. task' \in [Workers -> 0..MaxTasks]
      BY <1>0, <1>8 DEF TypeOK, Cancelled
    <3>4. result' \in [Tasks -> {"none", "inserted", "errors", "duplicate"}]
      BY <1>8 DEF TypeOK, Cancelled
    <3> QED  BY <1>8, <3>1, <3>2, <3>3, <3>4 DEF TypeOK, Cancelled, poolVars
  <2>2. RunningHasWorker'
    BY <1>8 DEF TypeOK, Cancelled, RunningHasWorker
  <2> QED  BY <1>8, <2>1, <2>2 DEF Cancelled, poolVars, NewestFirst, BatchesKnown,
             NotStarted, WorkersSurvive, TypeOK
<1>9. ASSUME NEW k \in Sizes, KeyExpires(k)
      PROVE  PoolInv'
  <2>1. TypeOK'
    BY <1>9 DEF TypeOK, KeyExpires, poolVars, workVars
  <2> QED  BY <1>9, <2>1 DEF KeyExpires, poolVars, workVars, NewestFirst,
             BatchesKnown, NotStarted, WorkersSurvive, RunningHasWorker
<1>10. CASE UNCHANGED vars
  BY <1>10 DEF vars, poolVars, workVars, dataVars, TypeOK, NewestFirst,
     BatchesKnown, NotStarted, WorkersSurvive, RunningHasWorker
<1> QED  BY <1>1, <1>2, <1>3, <1>4, <1>5, <1>6, <1>7, <1>8, <1>9, <1>10
         DEF Next, Work

(* PoolInv holds in every reachable state. *)
THEOREM Invariance == Spec => []PoolInv
<1>1. Init => PoolInv
  BY DEF Init, PoolInv, TypeOK, NewestFirst, BatchesKnown, NotStarted, WorkersSurvive,
     RunningHasWorker, Tasks, TaskState
<1> QED  BY <1>1, PoolStep, PTL DEF Spec

(* The pool stays within its types, its queue within queue_size and its    *)
(* history within max_tracked_tasks (submit_batch_ingest and               *)
(* _trim_status_history), for any number of workers and tasks.             *)
THEOREM TypeCorrect == Spec => []TypeOK
<1>1. PoolInv => TypeOK
  BY DEF PoolInv
<1> QED  BY <1>1, Invariance, PTL

(* With max_tracked_tasks >= queue_size no worker loop ever ends on the    *)
(* KeyError of _statuses[task_id].                                         *)
THEOREM NoWorkerDies == Spec => []WorkersSurvive
<1>1. PoolInv => WorkersSurvive
  BY DEF PoolInv
<1> QED  BY <1>1, Invariance, PTL

(* No status stays "running" without a worker that will change it.         *)
THEOREM NoOrphanedStatus == Spec => []RunningHasWorker
<1>1. PoolInv => RunningHasWorker
  BY DEF PoolInv
<1> QED  BY <1>1, Invariance, PTL

-----------------------------------------------------------------------------
(* Deduplication *)

(* The workers that have passed the duplicate check and await the insert. *)
Inserting(k) == {w \in Workers : pc[w] = "insert" /\ Key(task[w]) = k}

(* How often the key was put in the window. *)
Admitted(k) == expiries[k] + (IF k \in seen THEN 1 ELSE 0)

(* A worker awaits the insert of a task that was submitted. *)
HeldIsKnown == \A w \in Workers : pc[w] = "insert" => task[w] \in 1..submitted

InsertsAreAdmitted ==
  \A b, c \in Batches :
    b # c /\ SizeOf[b] = SizeOf[c] =>
      stored[b] + stored[c] + Cardinality(Inserting(SizeOf[b])) <= Admitted(SizeOf[b])

DedupInv == PoolInv /\ HeldIsKnown /\ InsertsAreAdmitted

(* Sets of workers are finite. *)
LEMMA WorkerSets ==
  ASSUME NEW S \in SUBSET Workers, NEW T \in SUBSET Workers
  PROVE  /\ Cardinality(S) \in Nat
         /\ S \subseteq T => Cardinality(S) <= Cardinality(T)
         /\ \A w : w \in S /\ T = S \ {w} => Cardinality(T) = Cardinality(S) - 1
         /\ \A w : T \subseteq S \cup {w} => Cardinality(T) <= Cardinality(S) + 1
<1>1. IsFiniteSet(S) /\ IsFiniteSet(T)
  BY WorkersAssumption, FS_Subset
<1>2. Cardinality(S) \in Nat /\ Cardinality(T) \in Nat
  BY <1>1, FS_CardinalityType
<1>3. S \subseteq T => Cardinality(S) <= Cardinality(T)
  BY <1>1, FS_Subset
<1>4. \A w : Cardinality(S \ {w}) = IF w \in S THEN Cardinality(S) - 1 ELSE Cardinality(S)
  BY <1>1, FS_RemoveElement
<1>5. \A w : /\ IsFiniteSet(S \cup {w})
             /\ Cardinality(S \cup {w}) = IF w \in S THEN Cardinality(S) ELSE Cardinality(S) + 1
  BY <1>1, FS_AddElement
<1>6. ASSUME NEW w, T \subseteq S \cup {w} PROVE Cardinality(T) <= Cardinality(S \cup {w})
  BY <1>5, <1>6, FS_Subset
<1>7. ASSUME NEW w, T \subseteq S \cup {w} PROVE Cardinality(T) <= Cardinality(S) + 1
  <2>1. /\ Cardinality(T) <= Cardinality(S \cup {w})
        /\ Cardinality(S \cup {w}) = IF w \in S THEN Cardinality(S) ELSE Cardinality(S) + 1
    BY <1>5, <1>6, <1>7
  <2> QED  BY <1>2, <2>1
<1>8. \A w : w \in S /\ T = S \ {w} => Cardinality(T) = Cardinality(S) - 1
  BY <1>4
<1> QED  BY <1>2, <1>3, <1>7, <1>8

(* The counters of a key are numbers in every state of the pool. *)
LEMMA CountersType ==
  ASSUME PoolInv, NEW b \in Batches
  PROVE  /\ SizeOf[b] \in Sizes
         /\ stored[b] \in Nat /\ expiries[SizeOf[b]] \in Nat
         /\ Cardinality(Inserting(SizeOf[b])) \in Nat
<1>1. Inserting(SizeOf[b]) \in SUBSET Workers
  BY DEF Inserting
<1>2. /\ stored \in [Batches -> Nat] /\ expiries \in [Sizes -> 0..MaxExpiries]
  BY DEF PoolInv, TypeOK
<1> QED  BY <1>1, <1>2, WorkerSets

(* A step that starts no insert, stores nothing and leaves the window alone *)
(* keeps the count.                                                         *)
LEMMA QuietDedup ==
  ASSUME DedupInv, PoolInv', HeldIsKnown', UNCHANGED <<seen, expiries, stored>>,
         \A w \in Workers : pc'[w] = "insert" =>
           pc[w] = "insert" /\ task'[w] = task[w] /\ batch'[task[w]] = batch[task[w]]
  PROVE  DedupInv'
<1> SUFFICES ASSUME NEW b \in Batches, NEW c \in Batches, b # c, SizeOf[b] = SizeOf[c]
             PROVE  (stored[b] + stored[c] + Cardinality(Inserting(SizeOf[b]))
                      <= Admitted(SizeOf[b]))'
  BY DEF DedupInv, InsertsAreAdmitted
<1> DEFINE k == SizeOf[b]
<1>1. Inserting(k)' \subseteq Inserting(k)
  BY DEF Inserting, Key
<1>2. Inserting(k) \in SUBSET Workers /\ Inserting(k)' \in SUBSET Workers
  BY DEF Inserting
<1>3. Cardinality(Inserting(k)') <= Cardinality(Inserting(k)) /\ Cardinality(Inserting(k)') \in Nat
  BY <1>1, <1>2, WorkerSets
<1>4. stored[b] + stored[c] + Cardinality(Inserting(k)) <= Admitted(k)
  BY DEF DedupInv, InsertsAreAdmitted
<1>5. Admitted(k)' = Admitted(k) /\ Admitted(k) \in Nat
  BY CountersType DEF Admitted, DedupInv
<1>6. stored[b] \in Nat /\ stored[c] \in Nat /\ Cardinality(Inserting(k)) \in Nat
  BY CountersType DEF DedupInv
<1> QED  BY <1>3, <1>4, <1>5, <1>6

(* A worker that leaves its insert, whether it committed or not, gives up  *)
(* its place.                                                              *)
LEMMA InsertDedup ==
  ASSUME DedupInv, PoolInv', HeldIsKnown', NEW w \in Workers, pc[w] = "insert",
         pc'[w] # "insert", UNCHANGED <<seen, expiries, batch>>,
         \A v \in Workers : v # w => pc'[v] = pc[v] /\ task'[v] = task[v],
         stored' = stored \/ stored' = [stored EXCEPT ![batch[task[w]]] = @ + 1]
  PROVE  DedupInv'
<1> SUFFICES ASSUME NEW b \in Batches, NEW c \in Batches, b # c, SizeOf[b] = SizeOf[c]
             PROVE  (stored[b] + stored[c] + Cardinality(Inserting(SizeOf[b]))
                      <= Admitted(SizeOf[b]))'
  BY DEF DedupInv, InsertsAreAdmitted
<1> DEFINE k == SizeOf[b]
           x == batch[task[w]]
<1>1. Inserting(k)' = Inserting(k) \ {w}
  BY DEF Inserting, Key
<1>2. Inserting(k) \in SUBSET Workers /\ Inserting(k)' \in SUBSET Workers
  BY DEF Inserting
<1>3. /\ Cardinality(Inserting(k)) \in Nat /\ Cardinality(Inserting(k)') \in Nat
      /\ Cardinality(Inserting(k)') <= Cardinality(Inserting(k))
      /\ w \in Inserting(k) => Cardinality(Inserting(k)') = Cardinality(Inserting(k)) - 1
  BY <1>1, <1>2, WorkerSets
<1>4. stored[b] + stored[c] + Cardinality(Inserting(k)) <= Admitted(k)
  BY DEF DedupInv, InsertsAreAdmitted
<1>5. Admitted(k)' = Admitted(k) /\ Admitted(k) \in Nat
  BY CountersType DEF Admitted, DedupInv
<1>6. stored[b] \in Nat /\ stored[c] \in Nat
  BY CountersType DEF DedupInv
<1>7. stored \in [Batches -> Nat]
  BY DEF DedupInv, PoolInv, TypeOK
<1>8. CASE x \in {b, c}
  <2>1. w \in Inserting(k)
    BY <1>8 DEF Inserting, Key
  <2>2. stored'[b] + stored'[c] <= stored[b] + stored[c] + 1 /\ stored'[b] \in Nat /\ stored'[c] \in Nat
    BY <1>7, <1>8
  <2> QED  BY <1>3, <1>4, <1>5, <1>6, <2>1, <2>2
<1>9. CASE x \notin {b, c}
  <2>1. stored'[b] = stored[b] /\ stored'[c] = stored[c]
    BY <1>7, <1>9
  <2> QED  BY <1>3, <1>4, <1>5, <1>6, <2>1
<1> QED  BY <1>8, <1>9

(* Taking a task whose key is not in the window puts it there before the   *)
(* insert is awaited.                                                      *)
LEMMA TakeDedup ==
  ASSUME DedupInv, PoolInv', HeldIsKnown', NEW w \in Workers, NEW t \in 1..submitted,
         pc[w] = "get", pc' = [pc EXCEPT ![w] = "insert"], task' = [task EXCEPT ![w] = t],
         ~IsDuplicate(t), seen' = seen \cup {Key(t)}, UNCHANGED <<batch, expiries, stored>>
  PROVE  DedupInv'
<1> SUFFICES ASSUME NEW b \in Batches, NEW c \in Batches, b # c, SizeOf[b] = SizeOf[c]
             PROVE  (stored[b] + stored[c] + Cardinality(Inserting(SizeOf[b]))
                      <= Admitted(SizeOf[b]))'
  BY DEF DedupInv, InsertsAreAdmitted
<1> DEFINE k == SizeOf[b]
<1>1. /\ \A v \in Workers : v # w => pc'[v] = pc[v] /\ task'[v] = task[v]
      /\ task'[w] = t
  BY DEF DedupInv, PoolInv, TypeOK
<1>2. Inserting(k) \in SUBSET Workers /\ Inserting(k)' \in SUBSET Workers
  BY DEF Inserting
<1>3. stored[b] + stored[c] + Cardinality(Inserting(k)) <= Admitted(k)
  BY DEF DedupInv, InsertsAreAdmitted
<1>4. /\ stored[b] \in Nat /\ stored[c] \in Nat /\ expiries[k] \in Nat
      /\ Cardinality(Inserting(k)) \in Nat
  BY CountersType DEF DedupInv
<1>5. Cardinality(Inserting(k)') \in Nat
  BY <1>2, WorkerSets
<1>6. CASE Key(t) = k
  <2>1. Inserting(k)' \subseteq Inserting(k) \cup {w}
    BY <1>1 DEF Inserting, Key
  <2>2. Cardinality(Inserting(k)') <= Cardinality(Inserting(k)) + 1
    BY <1>2, <2>1, WorkerSets
  <2>3. Admitted(k)' = Admitted(k) + 1
    BY <1>4, <1>6 DEF IsDuplicate, Admitted
  <2>4. Admitted(k) \in Nat
    BY <1>4 DEF Admitted
  <2> QED  BY <1>3, <1>4, <1>5, <2>2, <2>3, <2>4
<1>7. CASE Key(t) # k
  <2>1. Inserting(k)' \subseteq Inserting(k)
    BY <1>1, <1>7 DEF Inserting, Key
  <2>2. Cardinality(Inserting(k)') <= Cardinality(Inserting(k))
    BY <1>2, <2>1, WorkerSets
  <2>3. Admitted(k)' = Admitted(k) /\ Admitted(k) \in Nat
    BY <1>4, <1>7 DEF Admitted
  <2> QED  BY <1>3, <1>4, <1>5, <2>2, <2>3
<1> QED  BY <1>6, <1>7

(* A key that leaves the window is counted as expired. *)
LEMMA ExpiryDedup ==
  ASSUME DedupInv, PoolInv', HeldIsKnown', NEW k \in Sizes, KeyExpires(k)
  PROVE  DedupInv'
<1> SUFFICES ASSUME NEW b \in Batches, NEW c \in Batches, b # c, SizeOf[b] = SizeOf[c]
             PROVE  (stored[b] + stored[c] + Cardinality(Inserting(SizeOf[b]))
                      <= Admitted(SizeOf[b]))'
  BY DEF DedupInv, InsertsAreAdmitted
<1>1. /\ k \in seen /\ seen' = seen \ {k}
      /\ expiries' = [expiries EXCEPT ![k] = @ + 1]
      /\ UNCHANGED <<pc, task, batch, stored>>
  BY DEF KeyExpires, poolVars, workVars
<1>2. Inserting(SizeOf[b])' = Inserting(SizeOf[b])
  BY <1>1 DEF Inserting, Key
<1>3. expiries \in [Sizes -> 0..MaxExpiries] /\ SizeOf[b] \in Sizes
  BY DEF DedupInv, PoolInv, TypeOK
<1>4. Admitted(SizeOf[b])' = Admitted(SizeOf[b])
  BY <1>1, <1>3 DEF Admitted
<1> QED  BY <1>1, <1>2, <1>4 DEF DedupInv, InsertsAreAdmitted

(* Every step keeps the count. *)
LEMMA DedupStep ==
  ASSUME DedupInv, PoolInv', [Next]_vars
  PROVE  DedupInv'
<1>0. /\ PoolInv /\ HeldIsKnown
      /\ pc \in [Workers -> {"none", "get", "insert", "close", "notify", "dead"}]
      /\ task \in [Workers -> 0..MaxTasks] /\ submitted \in Nat
  <2>1. PoolInv /\ HeldIsKnown
    BY DEF DedupInv
  <2>2. TypeOK
    BY <2>1 DEF PoolInv
  <2>3. /\ pc \in [Workers -> {"none", "get", "insert", "close", "notify", "dead"}]
        /\ task \in [Workers -> 0..MaxTasks]
    BY <2>2 DEF TypeOK
  <2>4. submitted \in Nat
    BY <2>2 DEF TypeOK
  <2> QED
    BY <2>1, <2>3, <2>4
<1>1. CASE Start \/ Stop
  <2>1. /\ UNCHANGED <<seen, expiries, stored, task, batch, submitted>>
        /\ pc' = pc \/ pc' = [w \in Workers |-> "get"]
    BY <1>1 DEF Start, Stop, poolVars, workVars, dataVars
  <2>2. HeldIsKnown'
    BY <1>0, <2>1 DEF HeldIsKnown
  <2> QED  BY <2>1, <2>2, QuietDedup
<1>2. ASSUME NEW b \in Batches, SubmitBatchIngest(b) PROVE DedupInv'
  <2>1. /\ submitted' = submitted + 1
        /\ batch' = [batch EXCEPT ![submitted + 1] = b]
        /\ UNCHANGED <<pc, task, seen, expiries, stored>>
    BY <1>2 DEF SubmitBatchIngest, dataVars
  <2>2. HeldIsKnown'
    BY <1>0, <2>1 DEF HeldIsKnown
  <2>3. \A w \in Workers : pc[w] = "insert" => batch'[task[w]] = batch[task[w]]
    <3>1. \A t \in 1..submitted : batch'[t] = batch[t]
      <4>1. batch \in [Tasks -> Batches \cup {"none"}] /\ submitted \in 0..MaxTasks
        BY <1>0 DEF PoolInv, TypeOK
      <4> QED  BY <2>1, <4>1 DEF Tasks
    <3> QED  BY <1>0, <3>1 DEF HeldIsKnown
  <2> QED  BY <2>1, <2>2, <2>3, QuietDedup
<1>3. ASSUME NEW w \in Workers, Take(w) PROVE DedupInv'
  <2> DEFINE t == Head(queue)
  <2>1. t \in 1..submitted
    <3>1. queue \in Seq(Tasks) /\ queue # << >> /\ Len(queue) \in Nat \ {0}
      BY <1>0, <1>3 DEF Take, PoolInv, TypeOK
    <3>2. t = queue[1]
      BY <3>1
    <3>3. queue[1] = submitted - Len(queue) + 1 /\ Len(queue) <= submitted
      BY <1>0, <3>1 DEF PoolInv, NewestFirst
    <3> QED  BY <1>0, <3>1, <3>2, <3>3
  <2>2. pc[w] = "get" /\ UNCHANGED <<submitted, batch, expiries, stored>>
    BY <1>3 DEF Take
  <2>3. \/ /\ task' = task /\ seen' = seen
           /\ pc' = [pc EXCEPT ![w] = "dead"]
        \/ /\ task' = [task EXCEPT ![w] = t] /\ seen' = seen
           /\ pc' = [pc EXCEPT ![w] = "close"]
        \/ /\ task' = [task EXCEPT ![w] = t] /\ ~IsDuplicate(t)
           /\ seen' = seen \cup {Key(t)}
           /\ pc' = [pc EXCEPT ![w] = "insert"]
    BY <1>3 DEF Take
  <2> HIDE DEF t
  <2>4. HeldIsKnown'
    BY <1>0, <2>1, <2>2, <2>3 DEF HeldIsKnown
  <2>5. CASE seen' = seen /\ pc'[w] # "insert"
    <3>1. \A v \in Workers : pc'[v] = "insert" =>
            pc[v] = "insert" /\ task'[v] = task[v] /\ batch'[task[v]] = batch[task[v]]
      BY <1>0, <2>2, <2>3, <2>5
    <3> QED  BY <2>2, <2>4, <2>5, <3>1, QuietDedup
  <2>6. CASE /\ task' = [task EXCEPT ![w] = t] /\ ~IsDuplicate(t)
             /\ seen' = seen \cup {Key(t)}
             /\ pc' = [pc EXCEPT ![w] = "insert"]
    BY <2>1, <2>2, <2>4, <2>6, TakeDedup
  <2> QED  BY <1>0, <2>3, <2>5, <2>6
<1>4. ASSUME NEW w \in Workers, Insert(w) PROVE DedupInv'
  <2>1. /\ pc[w] = "insert" /\ pc' = [pc EXCEPT ![w] = "close"]
        /\ UNCHANGED <<seen, expiries, batch, task, submitted>>
        /\ stored' = stored \/ stored' = [stored EXCEPT ![batch[task[w]]] = @ + 1]
    BY <1>4 DEF Insert, poolVars
  <2>2. HeldIsKnown'
    BY <1>0, <2>1 DEF HeldIsKnown
  <2>3. pc'[w] # "insert" /\ \A v \in Workers : v # w => pc'[v] = pc[v]
    BY <1>0, <2>1
  <2> QED  BY <2>1, <2>2, <2>3, InsertDedup
<1>5. ASSUME NEW w \in Workers, Close(w) \/ Notified(w) PROVE DedupInv'
  <2>1. /\ \E c \in {"get", "notify"} : pc' = [pc EXCEPT ![w] = c]
        /\ task' = task \/ task' = [task EXCEPT ![w] = 0]
        /\ UNCHANGED <<seen, expiries, stored, batch, submitted>>
    BY <1>5 DEF Close, Notified, poolVars, dataVars
  <2>2. \A v \in Workers : pc'[v] = "insert" => v # w /\ pc[v] = "insert" /\ task'[v] = task[v]
    BY <1>0, <2>1
  <2>3. HeldIsKnown'
    BY <1>0, <2>1, <2>2 DEF HeldIsKnown
  <2> QED  BY <2>1, <2>2, <2>3, QuietDedup
<1>6. ASSUME NEW w \in Workers, Cancelled(w) PROVE DedupInv'
  <2>1. /\ pc' = [pc EXCEPT ![w] = "none"]
        /\ task' = [task EXCEPT ![w] = 0]
        /\ UNCHANGED <<seen, expiries, batch, submitted>>
        /\ \/ stored' = stored
           \/ pc[w] = "insert" /\ stored' = [stored EXCEPT ![batch[task[w]]] = @ + 1]
    BY <1>6 DEF Cancelled, poolVars
  <2>2. pc'[w] = "none" /\ \A v \in Workers : v # w => pc'[v] = pc[v] /\ task'[v] = task[v]
    BY <1>0, <2>1
  <2>3. HeldIsKnown'
    BY <1>0, <2>1, <2>2 DEF HeldIsKnown
  <2>4. CASE pc[w] = "insert"
    BY <2>1, <2>2, <2>3, <2>4, InsertDedup
  <2>5. CASE pc[w] # "insert"
    <3>1. \A v \in Workers : pc'[v] = "insert" =>
            pc[v] = "insert" /\ task'[v] = task[v] /\ batch'[task[v]] = batch[task[v]]
      BY <2>1, <2>2
    <3> QED  BY <2>1, <2>3, <2>5, <3>1, QuietDedup
  <2> QED  BY <2>4, <2>5
<1>7. ASSUME NEW k \in Sizes, KeyExpires(k) PROVE DedupInv'
  <2>1. HeldIsKnown'
    BY <1>0, <1>7 DEF HeldIsKnown, KeyExpires, poolVars, workVars
  <2> QED  BY <1>7, <2>1, ExpiryDedup
<1>8. CASE UNCHANGED vars
  <2>1. UNCHANGED <<seen, expiries, stored, pc, task, batch, submitted>>
    BY <1>8 DEF vars, poolVars, workVars, dataVars
  <2>2. HeldIsKnown'
    BY <1>0, <2>1 DEF HeldIsKnown
  <2> QED  BY <2>1, <2>2, QuietDedup
<1> QED  BY <1>1, <1>2, <1>3, <1>4, <1>5, <1>6, <1>7, <1>8 DEF Next, Work

(* Nothing is stored or awaited at the start. *)
LEMMA DedupInit == Init /\ PoolInv => DedupInv
<1> SUFFICES ASSUME Init, PoolInv PROVE DedupInv
  OBVIOUS
<1>1. HeldIsKnown
  BY DEF Init, HeldIsKnown
<1>2. ASSUME NEW b \in Batches, NEW c \in Batches
      PROVE  stored[b] + stored[c] + Cardinality(Inserting(SizeOf[b])) <= Admitted(SizeOf[b])
  <2>1. Inserting(SizeOf[b]) = {}
    BY DEF Init, Inserting
  <2>2. Cardinality(Inserting(SizeOf[b])) = 0
    BY <2>1, FS_EmptySet
  <2> QED  BY <2>2, SizesAssumption DEF Init, Admitted
<1> QED  BY <1>1, <1>2 DEF DedupInv, InsertsAreAdmitted

(* However the workers interleave, and through cancellations whose insert  *)
(* may have committed, two batches of one deduplication key are inserted   *)
(* only if the key left the window in between: ingest_api_batch marks the  *)
(* key before it awaits the insert.                                        *)
THEOREM InsertsAreDeduplicated == Spec => []OneInsertPerKey
<1>1. DedupInv => OneInsertPerKey
  <2> SUFFICES ASSUME DedupInv, NEW b \in Batches, NEW c \in Batches, b # c, SizeOf[b] = SizeOf[c]
               PROVE  stored[b] + stored[c] <= 1 + expiries[SizeOf[b]]
    BY DEF OneInsertPerKey
  <2>1. /\ stored[b] \in Nat /\ stored[c] \in Nat /\ expiries[SizeOf[b]] \in Nat
        /\ Cardinality(Inserting(SizeOf[b])) \in Nat
    BY CountersType DEF DedupInv
  <2>2. stored[b] + stored[c] + Cardinality(Inserting(SizeOf[b])) <= Admitted(SizeOf[b])
    BY DEF DedupInv, InsertsAreAdmitted
  <2> QED  BY <2>1, <2>2 DEF Admitted
<1>2. PoolInv /\ PoolInv' /\ DedupInv /\ [Next]_vars => DedupInv'
  BY DedupStep
<1> QED  BY <1>1, <1>2, DedupInit, Invariance, PTL DEF Spec
=============================================================================
