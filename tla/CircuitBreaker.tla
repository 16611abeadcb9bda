--------------------------- MODULE CircuitBreaker ---------------------------
(***************************************************************************)
(* One circuit breaker and the coroutines that call through it.  The       *)
(* breaker's own sections run under its asyncio lock and are atomic; the   *)
(* guarded call itself is not, so calls that were admitted in one state    *)
(* report their result in another.                                         *)
(*                                                                         *)
(* The program uses breakers in three styles:                              *)
(*   probe       class CircuitBreaker, one per source; run_source_probe    *)
(*               and run_source_contract_snapshot look at is_open first    *)
(*   dependency  class CircuitBreaker inside DependencyResilience, which   *)
(*               counts transient errors only                              *)
(*   decorated   class _CircuitBreaker of the decorator on _send_to_kafka  *)
(***************************************************************************)
EXTENDS Naturals

CONSTANTS
  Callers,             \* coroutines that use the breaker
  FailureThreshold,    \* failure_threshold
  HalfOpenSuccesses    \* half_open_successes (the decorated style needs one)

ASSUME FailureThresholdAssumption == FailureThreshold \in Nat \ {0}
ASSUME HalfOpenAssumption == HalfOpenSuccesses \in Nat \ {0}

VARIABLES
  style,        \* how the breaker was built; never changes
  state,        \* _state
  failures,     \* _failure_count
  successes,    \* _half_open_success_count
  elapsed,      \* recovery_timeout has passed since _opened_at or the last failure
  pc,           \* a caller's place
  healthy,      \* external: the dependency answers every call, from now on
  streak,       \* history: failures reported since the last reported success
  passes,       \* history: successes reported since the circuit became half-open
  late          \* history: callers whose call was under way when the circuit opened

breakerVars == <<state, failures, successes, elapsed>>
reportVars == <<streak, passes, late>>
vars == <<style, breakerVars, pc, healthy, reportVars>>

Styles == {"probe", "dependency", "decorated"}

TypeOK ==
  /\ style \in Styles
  /\ state \in {"closed", "open", "half_open"}
  /\ failures \in 0..FailureThreshold
  /\ successes \in 0..(HalfOpenSuccesses - 1)
  /\ elapsed \in BOOLEAN
  /\ pc \in [Callers -> {"idle", "checked", "calling"}]
  /\ healthy \in BOOLEAN
  /\ streak \in 0..FailureThreshold
  /\ passes \in Nat
  /\ late \subseteq Callers

Init ==
  /\ style \in Styles
  /\ state = "closed"
  /\ failures = 0
  /\ successes = 0
  /\ elapsed = FALSE
  /\ pc = [c \in Callers |-> "idle"]
  /\ healthy = FALSE
  /\ streak = 0 /\ passes = 0 /\ late = {}

-----------------------------------------------------------------------------
\* The probes return at once while is_open; otherwise they go on to validate the
\* target URL, which awaits.
Look(c) ==
  /\ style = "probe"
  /\ pc[c] = "idle"
  /\ state # "open"
  /\ pc' = [pc EXCEPT ![c] = "checked"]
  /\ UNCHANGED <<style, breakerVars, healthy, reportVars>>

\* The caller reaches the breaker.
AtBreaker(c) == pc[c] = IF style = "probe" THEN "checked" ELSE "idle"

\* Mutant: the recovery timeout is never looked at.
Enter_NeverHalfOpen(c) ==
  /\ AtBreaker(c)
  /\ state # "open"
  /\ pc' = [pc EXCEPT ![c] = "calling"]
  /\ UNCHANGED <<breakerVars, style, healthy, reportVars>>

\* __aenter__ and the first half of _CircuitBreaker.call.
Enter(c) ==
  /\ AtBreaker(c)
  /\ state = "open" => elapsed
  /\ pc' = [pc EXCEPT ![c] = "calling"]
  /\ IF state = "open"
     THEN /\ state' = "half_open"
          /\ successes' = 0
          /\ passes' = 0
          /\ UNCHANGED <<failures, elapsed>>
     ELSE UNCHANGED <<breakerVars, passes>>
  /\ UNCHANGED <<style, healthy, streak, late>>

\* CircuitOpenError.  (A caller that did not look first stays where it is.)
Rejected(c) ==
  /\ pc[c] = "checked"
  /\ state = "open" /\ ~elapsed
  /\ pc' = [pc EXCEPT ![c] = "idle"]
  /\ UNCHANGED <<style, breakerVars, healthy, reportVars>>

\* Mutant: a success closes the circuit from any state.
ObservationSuccess_FromAnyState ==
  /\ state' = "closed"
  /\ failures' = 0
  /\ successes' = 0
  /\ elapsed' = FALSE

\* Mutant: a success in the closed state leaves the failure count.
ObservationSuccess_NoReset ==
  IF state = "half_open"
  THEN IF successes + 1 >= HalfOpenSuccesses
       THEN state' = "closed" /\ failures' = 0 /\ successes' = 0 /\ elapsed' = FALSE
       ELSE successes' = successes + 1 /\ UNCHANGED <<state, failures, elapsed>>
  ELSE UNCHANGED breakerVars

\* Mutant: the half-open counter is not reset when the circuit closes.
ObservationSuccess_CountsOn ==
  IF state = "half_open"
  THEN /\ successes' = successes + 1
       /\ failures' = 0
       /\ state' = IF successes + 1 >= HalfOpenSuccesses THEN "closed" ELSE state
       /\ UNCHANGED elapsed
  ELSE failures' = 0 /\ UNCHANGED <<state, successes, elapsed>>

\* _observation_success.
ObservationSuccess ==
  IF state = "half_open"
  THEN IF successes + 1 >= HalfOpenSuccesses
       THEN state' = "closed" /\ failures' = 0 /\ successes' = 0 /\ elapsed' = FALSE
       ELSE successes' = successes + 1 /\ UNCHANGED <<state, failures, elapsed>>
  ELSE failures' = 0 /\ UNCHANGED <<state, successes, elapsed>>

\* _observation_failure: a failure reported while the circuit is open is counted,
\* and enough of them start the recovery timeout again.
ObservationFailure ==
  IF state = "half_open" \/ failures + 1 >= FailureThreshold
  THEN /\ state' = "open"
       /\ failures' = 0
       /\ successes' = IF state = "half_open" THEN 0 ELSE successes
       /\ elapsed' = FALSE
  ELSE failures' = failures + 1 /\ UNCHANGED <<state, successes, elapsed>>

\* _on_success of the decorated style: it closes the circuit from any state.
OnSuccess ==
  /\ state' = "closed"
  /\ failures' = 0
  /\ elapsed' = FALSE
  /\ UNCHANGED successes

\* _on_failure: the count goes on, and every failure restarts the timeout.  (The
\* model stops counting where more failures make no difference.)
OnFailure ==
  /\ failures' = IF failures < FailureThreshold THEN failures + 1 ELSE failures
  /\ elapsed' = FALSE
  /\ state' = IF failures + 1 >= FailureThreshold \/ state = "half_open"
              THEN "open" ELSE state
  /\ UNCHANGED successes

\* A call reports its result whatever the circuit has become since it was admitted.
Succeeds(c) ==
  /\ pc[c] = "calling"
  /\ IF style = "decorated" THEN OnSuccess ELSE ObservationSuccess
  /\ streak' = 0
  /\ passes' = IF state = "half_open" THEN passes + 1 ELSE passes
  /\ late' = late \ {c}
  /\ pc' = [pc EXCEPT ![c] = "idle"]
  /\ UNCHANGED <<style, healthy>>

Fails(c) ==
  /\ pc[c] = "calling"
  /\ ~healthy
  /\ IF style = "decorated" THEN OnFailure ELSE ObservationFailure
  /\ streak' = IF streak < FailureThreshold THEN streak + 1 ELSE streak
  /\ late' = IF state # "open" /\ state' = "open"
             THEN {d \in Callers \ {c} : pc[d] = "calling"} ELSE late \ {c}
  /\ UNCHANGED passes
  /\ pc' = [pc EXCEPT ![c] = "idle"]
  /\ UNCHANGED <<style, healthy>>

\* An exception that is not a failure: is_transient_downstream_error is false, or
\* the call was cancelled (except Exception does not see CancelledError).
Uncounted(c) ==
  /\ style # "probe"
  /\ pc[c] = "calling"
  /\ ~healthy
  /\ pc' = [pc EXCEPT ![c] = "idle"]
  /\ late' = late \ {c}
  /\ UNCHANGED <<style, breakerVars, healthy, streak, passes>>

TimeoutElapses ==
  /\ state = "open"
  /\ ~elapsed
  /\ elapsed' = TRUE
  /\ UNCHANGED <<style, state, failures, successes, pc, healthy, reportVars>>

\* External: the dependency recovers for good.
Heals ==
  /\ ~healthy
  /\ healthy' = TRUE
  /\ UNCHANGED <<style, breakerVars, pc, reportVars>>

-----------------------------------------------------------------------------
Step(c) ==
  Look(c) \/ Enter(c) \/ Rejected(c) \/ Succeeds(c) \/ Fails(c) \/ Uncounted(c)

Next == (\E c \in Callers : Step(c)) \/ TimeoutElapses \/ Heals

Spec == Init /\ [][Next]_vars

\* Callers keep calling (the scheduler, the publisher loop), calls end (they have
\* timeouts) and time passes; that the dependency recovers is not assumed.
Fairness == (\A c \in Callers : WF_vars(Step(c))) /\ WF_vars(TimeoutElapses)

FairSpec == Spec /\ Fairness

-----------------------------------------------------------------------------
\* A closed circuit opens exactly when FailureThreshold failures in a row have been
\* reported since the last success.  Whose they are makes no difference: the late
\* failure of a call admitted before the circuit last opened counts like any other
\* (_failure_count of _observation_failure and _on_failure).
TripsOnConsecutiveFailures ==
  [][state = "closed" => (state' = "open" <=> streak' >= FailureThreshold)]_vars

\* A CircuitBreaker closes exactly when HalfOpenSuccesses successes have been reported
\* since it became half-open, those of late calls among them, and never while it is
\* open (_observation_success).
ClosesOnHalfOpenSuccesses ==
  [][style # "decorated" /\ state # "closed" =>
       (state' = "closed" <=> state = "half_open" /\ passes' >= HalfOpenSuccesses)]_vars

\* The decorated breaker closes on every success, a late one that finds it open
\* included (_on_success).
ClosesOnSuccess ==
  [][style = "decorated" /\ state # "closed" => (state' = "closed" <=> streak' = 0)]_vars

\* While the circuit is open only calls admitted before it opened are under way, so
\* that a late result is what changes an open circuit, if a result does.
OpenAdmitsNobody == state = "open" => \A c \in Callers : pc[c] = "calling" => c \in late

\* The circuit opens and closes on just the results it should, whenever and in
\* whatever state the calls that overlap report them (circuit_breaker.py).
TransitionsAreEarned ==
  /\ TripsOnConsecutiveFailures
  /\ ClosesOnHalfOpenSuccesses /\ ClosesOnSuccess
  /\ []OpenAdmitsNobody

\* Once the dependency answers again, the breakers that are not asked is_open
\* first close: waiting callers, late failures and a half-open state nobody
\* leaves cannot keep them open.
Recovers == (healthy /\ style # "probe") ~> (state = "closed")

\* The module's diagram: OPEN leads to HALF_OPEN when recovery_timeout elapsed, and
\* from there to CLOSED when the next call succeeds - for the breaker of a source.
SourceBreakerRecovers == (healthy /\ style = "probe") ~> (state = "closed")
=============================================================================
