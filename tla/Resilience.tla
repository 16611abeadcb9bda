----------------------------- MODULE Resilience -----------------------------
(***************************************************************************)
(* DependencyResilience.call (libs/platform/resilience.py): a bulkhead     *)
(* (bulkhead.py) around one retry with a shared budget (retry.py) around   *)
(* the circuit breaker of module CircuitBreaker, built the "dependency"    *)
(* way, for one downstream dependency and its concurrent callers.          *)
(*                                                                         *)
(* asyncio.Condition is external.  Its lock is never held across an await  *)
(* (wait releases it), so each section under it is one step; notify(1)     *)
(* makes the longest waiting future ready, and the waiter runs again in a  *)
(* later step, with other callers in between.  A waiter that is cancelled  *)
(* passes its notification on (Python 3.14, the version required).         *)
(***************************************************************************)
EXTENDS Naturals, Sequences, FiniteSets, SequencesExt

CONSTANTS Calls,             \* the calls made in a behaviour
          MaxConcurrency,    \* max_concurrency
          MaxQueue,          \* max_queue
          MaxRetryTokens,    \* RetryBudget.max_retry_tokens
          WindowSeconds,     \* RetryBudget.window_seconds
          MaxClock,          \* bound on time.monotonic()
          FailureThreshold   \* 3 in DependencyResilience

VARIABLES
  pc,         \* where each call is
  attempt,    \* exponential_backoff's loop variable
  inflight,   \* _inflight
  waiting,    \* _waiting
  waiters,    \* Condition._waiters: calls whose future is not ready, oldest first
  notified,   \* calls whose future is ready and that have not run since
  timestamps, \* RetryBudget._timestamps
  retries,    \* history: the instant of every retry
  now,
  breakerState, breakerFailures, breakerSuccesses, elapsed

breaker == <<breakerState, breakerFailures, breakerSuccesses, elapsed>>
bulkheadVars == <<inflight, waiting, waiters, notified>>
budgetVars == <<timestamps, retries>>
resilienceVars == <<pc, attempt, bulkheadVars, budgetVars, now, breaker>>

\* CircuitBreaker(failure_threshold=3, recovery_timeout=30, is_failure=...).
B == INSTANCE CircuitBreaker WITH
       Callers <- Calls, HalfOpenSuccesses <- 1, style <- "dependency",
       state <- breakerState, failures <- breakerFailures,
       successes <- breakerSuccesses, healthy <- FALSE, streak <- 0,
       passes <- 0, late <- {}

Outcomes == {"ok", "error", "circuit_open", "budget", "rejected", "cancelled"}

Init ==
  /\ pc = [c \in Calls |-> "new"]
  /\ attempt = [c \in Calls |-> 0]
  /\ inflight = 0 /\ waiting = 0 /\ waiters = <<>> /\ notified = {}
  /\ timestamps = <<>> /\ retries = <<>>
  /\ now = 0
  /\ breakerState = "closed" /\ breakerFailures = 0 /\ breakerSuccesses = 0
  /\ elapsed = FALSE

Goto(c, place) == pc' = [pc EXCEPT ![c] = place]

Wait(c) == waiters' = Append(waiters, c)

----------------------------------------------------------------------------
(* AsyncBulkhead.run                                                       *)

Run(c) ==
  /\ pc[c] = "new"
  /\ \/ /\ inflight < MaxConcurrency
        /\ inflight' = inflight + 1
        /\ Goto(c, "admitted")
        /\ UNCHANGED <<waiting, waiters, notified>>
     \/ /\ inflight >= MaxConcurrency
        /\ waiting < MaxQueue
        /\ waiting' = waiting + 1
        /\ Wait(c)
        /\ Goto(c, "waiting")
        /\ UNCHANGED <<inflight, notified>>
     \/ /\ inflight >= MaxConcurrency
        /\ waiting >= MaxQueue
        /\ Goto(c, "rejected")
        /\ UNCHANGED bulkheadVars
  /\ UNCHANGED <<attempt, budgetVars, now, breaker>>

\* Mutant: if instead of while.
Rechecks_Never == FALSE

\* The while loop looks again: a newcomer may have taken the slot.
Rechecks == inflight >= MaxConcurrency

Wake(c) ==
  /\ pc[c] = "waiting" /\ c \in notified
  /\ notified' = notified \ {c}
  /\ IF Rechecks
     THEN Wait(c) /\ UNCHANGED <<pc, inflight, waiting>>
     ELSE /\ waiting' = waiting - 1
          /\ inflight' = inflight + 1
          /\ Goto(c, "admitted")
          /\ UNCHANGED waiters
  /\ UNCHANGED <<attempt, budgetVars, now, breaker>>

\* notify(1): the oldest future that is not ready.
Notify(left, told) ==
  /\ waiters' = IF left = <<>> THEN left ELSE Tail(left)
  /\ notified' = IF left = <<>> THEN told ELSE told \cup {Head(left)}

\* deque.remove, for a call that is in the queue once at most.
Without(queue, c) ==
  IF c \in ToSet(queue)
  THEN RemoveAt(queue, CHOOSE i \in DOMAIN queue : queue[i] = c)
  ELSE queue

\* A caller is cancelled while it waits: finally takes it out of _waiting,
\* and wait() notifies another on its way out.
CancelWaiting(c) ==
  /\ pc[c] = "waiting"
  /\ waiting' = waiting - 1
  /\ Goto(c, "cancelled")
  /\ Notify(Without(waiters, c), notified \ {c})
  /\ UNCHANGED <<attempt, inflight, budgetVars, now, breaker>>

\* Mutant: only a call that ends while the queue is full tells a waiter.
Release_WhenFull ==
  /\ inflight' = inflight - 1
  /\ IF waiting >= MaxQueue THEN Notify(waiters, notified) ELSE UNCHANGED <<waiters, notified>>
  /\ UNCHANGED waiting

\* The finally of run: the slot is free and one waiter is told, whatever
\* the operation did; the slot is not reserved for the one told.
Release ==
  /\ inflight' = inflight - 1
  /\ Notify(waiters, notified)
  /\ UNCHANGED waiting

End(c, outcome) == Goto(c, outcome) /\ Release

----------------------------------------------------------------------------
(* _call_with_breaker: exponential_backoff(max_retries=1) around the       *)
(* breaker.                                                                *)

MaxRetries == 1

\* CircuitBreaker.__aenter__; CircuitOpenError carries no status code, so
\* retry_if refuses it and it leaves the call.
Attempt(c) ==
  /\ pc[c] = "admitted"
  /\ IF breakerState = "open" /\ ~elapsed
     THEN /\ End(c, "circuit_open")
          /\ UNCHANGED breaker
     ELSE /\ Goto(c, "calling")
          /\ IF breakerState = "open"
             THEN /\ breakerState' = "half_open" /\ breakerSuccesses' = 0
                  /\ UNCHANGED <<breakerFailures, elapsed>>
             ELSE UNCHANGED breaker
          /\ UNCHANGED bulkheadVars
  /\ UNCHANGED <<attempt, budgetVars, now>>

Succeeds(c) ==
  /\ pc[c] = "calling"
  /\ B!ObservationSuccess
  /\ End(c, "ok")
  /\ UNCHANGED <<attempt, budgetVars, now>>

\* is_transient_downstream_error is false: neither counted nor retried.
FailsForGood(c) ==
  /\ pc[c] = "calling"
  /\ End(c, "error")
  /\ UNCHANGED <<attempt, budgetVars, now, breaker>>

\* A transport error, 429 or 5xx: counted by the breaker, then retried
\* while attempts are left.
FailsTransiently(c) ==
  /\ pc[c] = "calling"
  /\ B!ObservationFailure
  /\ IF attempt[c] < MaxRetries
     THEN Goto(c, "retrying") /\ UNCHANGED bulkheadVars
     ELSE End(c, "error")
  /\ UNCHANGED <<attempt, budgetVars, now>>

\* Mutant: the window is forgotten as soon as its oldest token expires.
Live_AllOrNothing(stamps) ==
  IF stamps # <<>> /\ now - Head(stamps) > WindowSeconds - 1 THEN <<>> ELSE stamps

\* _prune_expired: popleft until the oldest stamp is inside the window.
Live(stamps) ==
  LET expired(t) == now - t > WindowSeconds
      gone == CHOOSE n \in 0..Len(stamps) :
                /\ \A i \in 1..n : expired(stamps[i])
                /\ n < Len(stamps) => ~expired(stamps[n + 1])
  IN SubSeq(stamps, gone + 1, Len(stamps))

\* consume_retry, under the budget's own lock.
ConsumeRetry(c) ==
  LET live == Live(timestamps) IN
  /\ pc[c] = "retrying"
  /\ IF Len(live) >= MaxRetryTokens
     THEN /\ timestamps' = live
          /\ End(c, "budget")
          /\ UNCHANGED <<attempt, retries>>
     ELSE /\ timestamps' = Append(live, now)
          /\ retries' = Append(retries, now)
          /\ attempt' = [attempt EXCEPT ![c] = @ + 1]
          /\ Goto(c, "sleeping")
          /\ UNCHANGED bulkheadVars
  /\ UNCHANGED <<now, breaker>>

\* asyncio.sleep(delay), with the slot held.
Slept(c) ==
  /\ pc[c] = "sleeping"
  /\ Goto(c, "admitted")
  /\ UNCHANGED <<attempt, bulkheadVars, budgetVars, now, breaker>>

\* CancelledError passes every handler; only the finally blocks run.
CancelRunning(c) ==
  /\ pc[c] \in {"calling", "sleeping"}
  /\ End(c, "cancelled")
  /\ UNCHANGED <<attempt, budgetVars, now, breaker>>

Tick ==
  /\ now < MaxClock
  /\ now' = now + 1
  /\ elapsed' \in {elapsed, breakerState = "open"}
  /\ UNCHANGED <<pc, attempt, bulkheadVars, budgetVars, breakerState, breakerFailures,
                 breakerSuccesses>>

----------------------------------------------------------------------------

CallStep(c) ==
  \/ Run(c) \/ Wake(c)
  \/ Attempt(c) \/ Succeeds(c) \/ FailsForGood(c) \/ FailsTransiently(c)
  \/ ConsumeRetry(c) \/ Slept(c)

Cancelled(c) == CancelWaiting(c) \/ CancelRunning(c)

Next == Tick \/ \E c \in Calls : CallStep(c) \/ Cancelled(c)

Spec == Init /\ [][Next]_resilienceVars

\* The event loop runs every ready call, and operations have timeouts; nobody
\* has to cancel a call.
Fairness == \A c \in Calls : WF_resilienceVars(CallStep(c))

----------------------------------------------------------------------------

Admitted == {c \in Calls : pc[c] \in {"admitted", "calling", "retrying", "sleeping"}}
Waiting == {c \in Calls : pc[c] = "waiting"}

TypeOK ==
  /\ pc \in [Calls -> {"new", "waiting", "admitted", "calling", "retrying",
                       "sleeping"} \cup Outcomes]
  /\ attempt \in [Calls -> 0..MaxRetries]
  /\ inflight \in 0..MaxConcurrency
  /\ waiting \in 0..MaxQueue
  /\ waiters \in Seq(Calls) /\ notified \subseteq Calls
  /\ timestamps \in Seq(0..MaxClock) /\ retries \in Seq(0..MaxClock)
  /\ now \in 0..MaxClock
  /\ breakerState \in {"closed", "open", "half_open"}
  /\ breakerFailures \in 0..FailureThreshold /\ breakerSuccesses = 0
  /\ elapsed \in BOOLEAN

\* The counters of the bulkhead say how many calls really hold a slot and
\* wait, through rejections, cancellations while waiting or running, and
\* newcomers that take the slot a waiter was told of; and no slot stays
\* free while every waiter sleeps: one of them has been told
\* (bulkhead.py:61-88).
SlotsAreUsed ==
  /\ inflight = Cardinality(Admitted) /\ inflight <= MaxConcurrency
  /\ waiting = Cardinality(Waiting) /\ waiting <= MaxQueue
  /\ Waiting = ToSet(waiters) \cup notified
  /\ inflight < MaxConcurrency /\ Waiting # {} => notified # {}

\* No window of window_seconds ever holds more retries than the budget,
\* whichever calls made them (retry.py:60-73).
BudgetHolds ==
  \A t \in 0..MaxClock :
    Cardinality({i \in DOMAIN retries : t <= retries[i] /\ retries[i] <= t + WindowSeconds})
      <= MaxRetryTokens

\* Every call ends: no notification is lost between the waiters, the
\* cancelled and the newcomers, for as many newcomers as there are calls
\* (an endless supply of them could take every freed slot first).
CallsEnd == <>(\A c \in Calls : pc[c] \in Outcomes)

=============================================================================
