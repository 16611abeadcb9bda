------------------------------ MODULE JobQueue ------------------------------
(***************************************************************************)
(* PriorityJobQueue of jobs/queue.py with its commands and the coroutines  *)
(* that run them.  All share the queue that get_job_queue returns, and     *)
(* nothing locks it: several run_next and drain calls overlap wherever one *)
(* of them awaits the command it took.                                     *)
(*                                                                         *)
(* A command is named by its number, the value of _counter when it was     *)
(* enqueued.  The heap is the set of its entries, of which heappop takes   *)
(* the least by (priority, counter).  A deadline is the time at which the  *)
(* boost sets in, that is, deadline - deadline_boost_secs.                 *)
(***************************************************************************)
EXTENDS Naturals, FiniteSets, Sequences

CONSTANTS
  MaxCommands,  \* bound: commands that callers enqueue
  Runners,      \* coroutines that call run_next or drain
  MaxFailures,  \* bound: commands that raise or are cancelled
  MaxClock      \* bound: ticks that pass

Critical == 1
Priorities == {3, 5}
Never == MaxClock + 1

VARIABLES
  heap,       \* entries: the number of a command and the priority computed for it
  urgency,    \* by command: the priority and the time of the boost it was enqueued
              \* with, and, history, how many starts there had been
  clock,
  doing,      \* the command that each runner awaits, or none, as a set
  draining,   \* runners whose run_next was called by drain
  done,       \* commands that were executed
  raised,     \* commands whose execution raised
  cancelled,  \* commands whose execution was cancelled
  order       \* history: the commands in the order of their starts, with the times

vars == <<heap, urgency, clock, doing, draining, done, raised, cancelled, order>>

\* _effective_priority at time t.
UrgencyAt(c, t) == IF t >= urgency[c].boost THEN Critical ELSE urgency[c].priority
EffectivePriority(c) == UrgencyAt(c, clock)

Before(a, b) == \/ a.priority < b.priority
                \/ a.priority = b.priority /\ a.command < b.command

\* _counter, of the next command.
counter == Len(urgency) + 1

Enqueue(p, b) ==
  /\ counter <= MaxCommands
  /\ urgency' = Append(urgency, [priority |-> p, boost |-> b, after |-> Len(order)])
  /\ heap' = heap \cup {[priority |-> IF clock >= b THEN Critical ELSE p, command |-> counter]}
  /\ UNCHANGED <<clock, doing, draining, done, raised, cancelled, order>>

\* Mutant: boosts that fell due are not looked at.
Rebalance_Not(h) == h

\* _rebalance: every entry gets the priority that it has now.
Rebalance(h) == {[e EXCEPT !.priority = EffectivePriority(e.command)] : e \in h}

Least(h) == CHOOSE e \in h : \A f \in h \ {e} : Before(e, f)

\* Mutant: the command is left in the heap until it has been executed.
Dequeue_Peeks(r) ==
  LET fresh == Rebalance(heap)
      first == Least(fresh)
  IN /\ heap # {}
     /\ heap' = fresh
     /\ doing' = [doing EXCEPT ![r] = {first.command}]
     /\ order' = Append(order, [command |-> first.command, at |-> clock])

\* run_next up to the await of the command.
Dequeue(r) ==
  LET fresh == Rebalance(heap)
      first == Least(fresh)
  IN /\ heap # {}
     /\ heap' = fresh \ {first}
     /\ doing' = [doing EXCEPT ![r] = {first.command}]
     /\ order' = Append(order, [command |-> first.command, at |-> clock])

\* A call of run_next, or of drain.  (On an empty heap they return at once.)
RunNext(r) ==
  /\ doing[r] = {}
  /\ Dequeue(r)
  /\ UNCHANGED <<urgency, clock, draining, done, raised, cancelled>>

Drain(r) ==
  /\ doing[r] = {}
  /\ Dequeue(r)
  /\ draining' = draining \cup {r}
  /\ UNCHANGED <<urgency, clock, done, raised, cancelled>>

\* The runner returns to its caller.
Leave(r) ==
  /\ doing' = [doing EXCEPT ![r] = {}]
  /\ draining' = draining \ {r}
  /\ UNCHANGED <<heap, order>>

\* The command returned; drain goes on at once while the heap is not empty.
Completed(r) ==
  /\ doing[r] # {}
  /\ done' = done \cup doing[r]
  /\ \/ r \in draining /\ Dequeue(r) /\ UNCHANGED draining
     \/ (r \notin draining \/ heap = {}) /\ Leave(r)
  /\ UNCHANGED <<urgency, clock, raised, cancelled>>

\* It raised: it is not put back, and drain ends.
Raised(r) ==
  /\ doing[r] # {}
  /\ Cardinality(raised \cup cancelled) < MaxFailures
  /\ raised' = raised \cup doing[r]
  /\ Leave(r)
  /\ UNCHANGED <<urgency, clock, done, cancelled>>

\* The runner is cancelled at the await, which "except Exception" does not see: the
\* command is not put back either, and nothing is logged of it.
Cancelled(r) ==
  /\ doing[r] # {}
  /\ Cardinality(raised \cup cancelled) < MaxFailures
  /\ cancelled' = cancelled \cup doing[r]
  /\ Leave(r)
  /\ UNCHANGED <<urgency, clock, done, raised>>

Tick == /\ clock < MaxClock
        /\ clock' = clock + 1
        /\ UNCHANGED <<heap, urgency, doing, draining, done, raised, cancelled, order>>

Init ==
  /\ heap = {} /\ urgency = <<>> /\ clock = 0
  /\ doing = [r \in Runners |-> {}] /\ draining = {}
  /\ done = {} /\ raised = {} /\ cancelled = {} /\ order = <<>>

Next ==
  \/ \E p \in Priorities, b \in 1..Never : Enqueue(p, b)
  \/ \E r \in Runners : \/ RunNext(r) \/ Drain(r)
                        \/ Completed(r) \/ Raised(r) \/ Cancelled(r)
  \/ Tick

Spec == Init /\ [][Next]_vars

TypeOK ==
  /\ doing \in [Runners -> SUBSET DOMAIN urgency] /\ draining \subseteq Runners
  /\ heap \subseteq [priority : Priorities \cup {Critical}, command : DOMAIN urgency]

WaitingCommands == {e.command : e \in heap}
Started == {order[i].command : i \in 1..Len(order)}

\* Command c was enqueued, and had not started, when the i-th start chose another.
PassedOver(c, i) ==
  urgency[c].after < i /\ \A j \in 1..i : order[j].command # c

\* However many runners overlap and whatever priorities rise while commands wait,
\* every start is of the command that is the most urgent at its time, in the order of
\* arrival among equals (dequeue, _rebalance).
StartsInOrder ==
  \A i \in 1..Len(order), c \in DOMAIN urgency :
    PassedOver(c, i) =>
      LET first == order[i].command
          t == order[i].at
      IN \/ UrgencyAt(first, t) < UrgencyAt(c, t)
         \/ /\ UrgencyAt(first, t) = UrgencyAt(c, t)
            /\ first < c

\* No overlap of run_next and drain loses a command or runs it twice: it waits in one
\* entry, or started once and runs at one runner, is done, has raised or was
\* cancelled.
NoneLostOrRepeated ==
  LET running == UNION {doing[r] : r \in Runners}
      ended == done \cup raised \cup cancelled
  IN /\ Cardinality(WaitingCommands) = Cardinality(heap)
     /\ WaitingCommands \cup Started = DOMAIN urgency
     /\ WaitingCommands \cap Started = {}
     /\ \A i, j \in 1..Len(order) : order[i].command = order[j].command => i = j
     /\ running \cup ended = Started /\ running \cap ended = {}
     /\ \A r, q \in Runners : doing[r] \cap doing[q] # {} => r = q
     /\ done \cap raised = {} /\ (done \cup raised) \cap cancelled = {}

\* The most urgent command runs first, each runs once (jobs/queue.py run_next, drain).
MostUrgentFirst == StartsInOrder /\ NoneLostOrRepeated
=============================================================================
