---------------------------- MODULE CallsProofs ----------------------------
(***************************************************************************)
(* Proofs about the parts of MCCalls: the circuit breaker, the bulkhead    *)
(* with its retries, the queue of commands, fetching and scraping, and the *)
(* token of the MCP tools, each for every value of its constants, and      *)
(* about all of them side by side.                                         *)
(***************************************************************************)
EXTENDS MCCalls, FiniteSetTheorems, SequenceTheorems, NaturalsInduction, TLAPS

\* The notions of finiteness of the instances are the standard ones.
LEMMA FiniteIsFinite ==
  /\ \A S : RE!Cardinality(S) = Cardinality(S)
  /\ \A S : FE!Cardinality(S) = Cardinality(S)
  /\ \A S : JQ!Cardinality(S) = Cardinality(S)
  /\ \A S : MC!Cardinality(S) = Cardinality(S)
  BY DEF RE!Cardinality, FE!Cardinality, JQ!Cardinality, MC!Cardinality, Cardinality

\* A set of numbers has a least one.
LEMMA LeastNumber ==
  ASSUME NEW T \in SUBSET Nat, T # {} PROVE \E t \in T : \A v \in T : t <= v
  <1>1. PICK t \in T : \A v \in T : <<v, t>> \notin OpToRel(<, Nat)
    BY NatLessThanWellFounded, WFMin
  <1>2. \A v \in T : ~(v < t)
    BY <1>1 DEF OpToRel
  <1> QED
    BY <1>2

-----------------------------------------------------------------------------
(* The circuit breaker, in all three styles.  The count that it keeps is   *)
(* not the streak of failures: a success that does not yet close a         *)
(* half-open circuit ends the streak and leaves _failure_count, and        *)
(* failures reported while the circuit is open are counted.  What makes    *)
(* the transitions earned is that the counts agree with the reported       *)
(* results in the states where they are compared with the thresholds.      *)

USE FailureThresholdAssumption, HalfOpenAssumption

\* In the closed state, and in every state of the decorated style, _failure_count is
\* the current streak, and a closed circuit has not reached the threshold.
CountIsStreak ==
  /\ style = "decorated" \/ state = "closed" => failures = streak
  /\ state = "closed" => streak < FailureThreshold

\* In the half-open state of a CircuitBreaker _half_open_success_count is the number
\* of successes reported since.
CountIsPasses == style # "decorated" /\ state = "half_open" => successes = passes

\* The decorated breaker leaves the closed state by a failure, and the next success
\* closes it again.
OpenSinceFailure == style = "decorated" /\ state # "closed" => streak > 0

Inv == TypeOK /\ CountIsStreak /\ CountIsPasses /\ OpenSinceFailure /\ OpenAdmitsNobody

\* What a step may do to a circuit.
Trip == state = "closed" => (state' = "open" <=> streak' >= FailureThreshold)
Close ==
  style # "decorated" /\ state # "closed" =>
    (state' = "closed" <=> state = "half_open" /\ passes' >= HalfOpenSuccesses)
Shut == style = "decorated" /\ state # "closed" => (state' = "closed" <=> streak' = 0)

Earned == Trip /\ Close /\ Shut

\* A report takes the caller back and, unless the circuit opens, keeps the late calls.
LEMMA ReportKeepsAdmission ==
  ASSUME OpenAdmitsNobody, pc \in [Callers -> {"idle", "checked", "calling"}],
         NEW c \in Callers, pc' = [pc EXCEPT ![c] = "idle"],
         late' = IF state # "open" /\ state' = "open"
                 THEN {d \in Callers \ {c} : pc[d] = "calling"} ELSE late \ {c}
  PROVE  OpenAdmitsNobody'
  BY DEF OpenAdmitsNobody

\* Reporting a success keeps the invariant, and closes the circuit only as earned.
LEMMA SucceedsInv ==
  ASSUME Inv, NEW c \in Callers, Succeeds(c)
  PROVE  Inv' /\ Earned
  <1>1. /\ streak' = 0 /\ UNCHANGED <<style, healthy>>
        /\ passes' = (IF state = "half_open" THEN passes + 1 ELSE passes)
        /\ late' = late \ {c}
        /\ pc' = [pc EXCEPT ![c] = "idle"]
        /\ IF style = "decorated" THEN OnSuccess ELSE ObservationSuccess
    BY DEF Succeeds
  <1>2. /\ pc' \in [Callers -> {"idle", "checked", "calling"}]
        /\ passes' \in Nat /\ late' \subseteq Callers
    BY <1>1 DEF Inv, TypeOK
  <1>3. elapsed' \in BOOLEAN
    BY <1>1 DEF OnSuccess, ObservationSuccess, Inv, TypeOK
  <1>4. state' = "open" => state = "open"
    BY <1>1 DEF OnSuccess, ObservationSuccess
  <1>5. OpenAdmitsNobody'
    BY <1>1, <1>4, ReportKeepsAdmission DEF Inv, TypeOK
  <1>6. CASE style = "decorated"
    <2>1. state' = "closed" /\ failures' = 0 /\ successes' = successes
      BY <1>1, <1>6 DEF OnSuccess
    <2>2. TypeOK'
      BY <1>1, <1>2, <1>3, <2>1 DEF Inv, TypeOK
    <2> QED
      BY <1>1, <1>5, <1>6, <2>1, <2>2
      DEF Inv, CountIsStreak, CountIsPasses, OpenSinceFailure, Earned, Trip, Close, Shut
  <1>7. CASE style # "decorated" /\ state = "half_open"
    <2>1. successes \in Nat /\ successes = passes /\ passes' = successes + 1
      BY <1>1, <1>7 DEF Inv, TypeOK, CountIsPasses
    <2>2. CASE successes + 1 >= HalfOpenSuccesses
      <3>1. state' = "closed" /\ failures' = 0 /\ successes' = 0
        BY <1>1, <1>7, <2>2 DEF ObservationSuccess
      <3>2. TypeOK'
        BY <1>1, <1>2, <1>3, <3>1 DEF Inv, TypeOK
      <3> QED
        BY <1>1, <1>5, <1>7, <2>1, <2>2, <3>1, <3>2
        DEF Inv, CountIsStreak, CountIsPasses, OpenSinceFailure, Earned, Trip, Close, Shut
    <2>3. CASE ~(successes + 1 >= HalfOpenSuccesses)
      <3>1. successes' = successes + 1 /\ UNCHANGED <<state, failures, elapsed>>
        BY <1>1, <1>7, <2>3 DEF ObservationSuccess
      <3>2. TypeOK'
        BY <1>1, <1>2, <1>3, <2>3, <3>1 DEF Inv, TypeOK
      <3> QED
        BY <1>1, <1>5, <1>7, <2>1, <2>3, <3>1, <3>2
        DEF Inv, CountIsStreak, CountIsPasses, OpenSinceFailure, Earned, Trip, Close, Shut
    <2> QED
      BY <2>2, <2>3
  <1>8. CASE style # "decorated" /\ state # "half_open"
    <2>1. failures' = 0 /\ UNCHANGED <<state, successes, elapsed>>
      BY <1>1, <1>8 DEF ObservationSuccess
    <2>2. TypeOK'
      BY <1>1, <1>2, <1>3, <2>1 DEF Inv, TypeOK
    <2> QED
      BY <1>1, <1>5, <1>8, <2>1, <2>2
      DEF Inv, CountIsStreak, CountIsPasses, OpenSinceFailure, Earned, Trip, Close, Shut
  <1> QED
    BY <1>6, <1>7, <1>8

\* Reporting a failure keeps the invariant, and trips a closed circuit exactly at the
\* end of a long enough streak.
LEMMA FailsInv ==
  ASSUME Inv, NEW c \in Callers, Fails(c)
  PROVE  Inv' /\ Earned
  <1>1. /\ streak' = (IF streak < FailureThreshold THEN streak + 1 ELSE streak)
        /\ late' = (IF state # "open" /\ state' = "open"
                    THEN {d \in Callers \ {c} : pc[d] = "calling"} ELSE late \ {c})
        /\ UNCHANGED <<style, healthy, passes>>
        /\ pc' = [pc EXCEPT ![c] = "idle"]
        /\ IF style = "decorated" THEN OnFailure ELSE ObservationFailure
    BY DEF Fails
  <1>2. /\ pc' \in [Callers -> {"idle", "checked", "calling"}]
        /\ passes' \in Nat /\ late' \subseteq Callers
    BY <1>1 DEF Inv, TypeOK
  <1>3. elapsed' \in BOOLEAN
    BY <1>1 DEF OnFailure, ObservationFailure, Inv, TypeOK
  <1>4. OpenAdmitsNobody'
    BY <1>1, ReportKeepsAdmission DEF Inv, TypeOK
  <1>5. CASE style = "decorated"
    <2>1. /\ failures' = (IF failures < FailureThreshold THEN failures + 1 ELSE failures)
          /\ state' = IF failures + 1 >= FailureThreshold \/ state = "half_open"
                      THEN "open" ELSE state
          /\ successes' = successes
      BY <1>1, <1>5 DEF OnFailure
    <2>2. TypeOK'
      BY <1>1, <1>2, <1>3, <2>1 DEF Inv, TypeOK
    <2>3. failures = streak /\ streak \in 0..FailureThreshold
      BY <1>5 DEF Inv, TypeOK, CountIsStreak
    <2> QED
      BY <1>1, <1>4, <1>5, <2>1, <2>2, <2>3
      DEF Inv, CountIsStreak, CountIsPasses, OpenSinceFailure, Earned, Trip, Close, Shut
  <1>6. CASE style # "decorated" /\ (state = "half_open" \/ failures + 1 >= FailureThreshold)
    <2>1. state' = "open" /\ failures' = 0 /\ successes' \in {0, successes}
      BY <1>1, <1>6 DEF ObservationFailure
    <2>2. TypeOK'
      BY <1>1, <1>2, <1>3, <2>1 DEF Inv, TypeOK
    <2>3. state = "closed" => streak' >= FailureThreshold
      BY <1>1, <1>6 DEF Inv, TypeOK, CountIsStreak
    <2>4. state = "half_open" => successes = passes /\ successes < HalfOpenSuccesses
      BY <1>6 DEF Inv, TypeOK, CountIsPasses
    <2> QED
      BY <1>1, <1>4, <1>6, <2>1, <2>2, <2>3, <2>4
      DEF Inv, CountIsStreak, CountIsPasses, OpenSinceFailure, Earned, Trip, Close, Shut, TypeOK
  <1>7. CASE style # "decorated" /\ ~(state = "half_open" \/ failures + 1 >= FailureThreshold)
    <2>1. failures' = failures + 1 /\ UNCHANGED <<state, successes, elapsed>>
      BY <1>1, <1>7 DEF ObservationFailure
    <2>2. TypeOK'
      BY <1>1, <1>2, <1>3, <1>7, <2>1 DEF Inv, TypeOK
    <2>3. state = "closed" => failures' = streak' /\ streak' < FailureThreshold
      BY <1>1, <1>7, <2>1 DEF Inv, TypeOK, CountIsStreak
    <2> QED
      BY <1>1, <1>4, <1>7, <2>1, <2>2, <2>3
      DEF Inv, CountIsStreak, CountIsPasses, OpenSinceFailure, Earned, Trip, Close, Shut
  <1> QED
    BY <1>5, <1>6, <1>7

\* A step that leaves the circuit and the reports alone does what Earned allows.
LEMMA QuietEarned ==
  ASSUME Inv, UNCHANGED <<style, state, streak, passes>>
  PROVE  Earned
  <1>1. style # "decorated" /\ state = "half_open" => passes < HalfOpenSuccesses
    BY DEF Inv, TypeOK, CountIsPasses
  <1> QED
    BY <1>1 DEF Inv, TypeOK, CountIsStreak, OpenSinceFailure, Earned, Trip, Close, Shut

\* Every step keeps the invariant and changes the state only as earned.
LEMMA InvStep == Inv /\ [Next]_vars => Inv' /\ Earned
  <1> SUFFICES ASSUME Inv, [Next]_vars PROVE Inv' /\ Earned
    OBVIOUS
  <1>1. ASSUME NEW c \in Callers, Look(c) \/ Rejected(c) \/ Uncounted(c) PROVE Inv' /\ Earned
    <2>1. /\ \E a \in {"idle", "checked"} : pc' = [pc EXCEPT ![c] = a]
          /\ late' \in {late, late \ {c}}
          /\ UNCHANGED <<style, state, failures, successes, elapsed, healthy, streak, passes>>
      BY <1>1 DEF Look, Rejected, Uncounted, breakerVars, reportVars
    <2>2. pc' \in [Callers -> {"idle", "checked", "calling"}] /\ late' \subseteq Callers
      BY <2>1 DEF Inv, TypeOK
    <2>3. OpenAdmitsNobody'
      BY <2>1 DEF Inv, TypeOK, OpenAdmitsNobody
    <2>4. TypeOK'
      BY <2>1, <2>2 DEF Inv, TypeOK
    <2> QED
      BY <2>1, <2>3, <2>4, QuietEarned DEF Inv, CountIsStreak, CountIsPasses, OpenSinceFailure
  <1>2. ASSUME NEW c \in Callers, Enter(c) PROVE Inv' /\ Earned
    <2>1. /\ pc' = [pc EXCEPT ![c] = "calling"]
          /\ UNCHANGED <<style, healthy, streak, late, failures, elapsed>>
      BY <1>2 DEF Enter, breakerVars
    <2>2. pc' \in [Callers -> {"idle", "checked", "calling"}]
      BY <2>1 DEF Inv, TypeOK
    <2>3. CASE state = "open"
      <3>1. state' = "half_open" /\ successes' = 0 /\ passes' = 0
        BY <1>2, <2>3 DEF Enter
      <3>2. TypeOK'
        BY <2>1, <2>2, <3>1 DEF Inv, TypeOK
      <3> QED
        BY <2>1, <2>3, <3>1, <3>2
        DEF Inv, TypeOK, CountIsStreak, CountIsPasses, OpenSinceFailure, OpenAdmitsNobody,
            Earned, Trip, Close, Shut
    <2>4. CASE state # "open"
      <3>1. UNCHANGED <<state, successes, passes>>
        BY <1>2, <2>4 DEF Enter, breakerVars
      <3>2. TypeOK'
        BY <2>1, <2>2, <3>1 DEF Inv, TypeOK
      <3> QED
        BY <2>1, <2>4, <3>1, <3>2, QuietEarned
        DEF Inv, CountIsStreak, CountIsPasses, OpenSinceFailure, OpenAdmitsNobody
    <2> QED
      BY <2>3, <2>4
  <1>3. ASSUME NEW c \in Callers, Succeeds(c) PROVE Inv' /\ Earned
    BY <1>3, SucceedsInv
  <1>4. ASSUME NEW c \in Callers, Fails(c) PROVE Inv' /\ Earned
    BY <1>4, FailsInv
  <1>5. CASE TimeoutElapses \/ Heals
    <2>1. UNCHANGED <<style, state, failures, successes, pc, streak, passes, late>>
      BY <1>5 DEF TimeoutElapses, Heals, breakerVars, reportVars
    <2>2. elapsed' \in BOOLEAN /\ healthy' \in BOOLEAN
      BY <1>5 DEF TimeoutElapses, Heals, breakerVars, Inv, TypeOK
    <2>3. TypeOK'
      BY <2>1, <2>2 DEF Inv, TypeOK
    <2> QED
      BY <2>1, <2>3, QuietEarned
      DEF Inv, CountIsStreak, CountIsPasses, OpenSinceFailure, OpenAdmitsNobody
  <1>6. CASE UNCHANGED vars
    <2>1. UNCHANGED <<style, state, failures, successes, elapsed, pc, healthy, streak, passes, late>>
      BY <1>6 DEF vars, breakerVars, reportVars
    <2> QED
      BY <2>1, QuietEarned
      DEF Inv, TypeOK, CountIsStreak, CountIsPasses, OpenSinceFailure, OpenAdmitsNobody
  <1> QED
    BY <1>1, <1>2, <1>3, <1>4, <1>5, <1>6 DEF Next, Step

\* It holds of a breaker that is new.
LEMMA InvInit == Init => Inv
  <1> SUFFICES ASSUME Init PROVE Inv
    OBVIOUS
  <1>1. elapsed \in BOOLEAN /\ healthy \in BOOLEAN
    BY DEF Init
  <1>2. /\ style \in Styles /\ state = "closed" /\ failures = 0 /\ successes = 0 /\ streak = 0
        /\ passes = 0 /\ late = {}
        /\ pc \in [Callers -> {"idle", "checked", "calling"}]
    BY DEF Init
  <1> QED
    BY <1>1, <1>2
    DEF Inv, TypeOK, CountIsStreak, CountIsPasses, OpenSinceFailure, OpenAdmitsNobody

\* The inductive invariant holds in every reachable state of a breaker.
THEOREM Invariance == Spec => []Inv
  <1>1. Inv /\ [Next]_vars => Inv'
    BY InvStep
  <1> QED
    BY <1>1, InvInit, PTL DEF Spec

\* The breaker's counters stay within their thresholds, in every style: no order of
\* late reports makes _half_open_success_count reach half_open_successes and stay.
THEOREM TypeCorrect == Spec => []TypeOK
  <1>1. Inv => TypeOK
    BY DEF Inv
  <1> QED
    BY <1>1, Invariance, PTL

\* For any number of overlapping calls and any thresholds: a closed circuit opens
\* exactly on failure_threshold failures reported in a row, a CircuitBreaker closes
\* exactly on half_open_successes successes reported since it became half-open (late
\* ones count) and never while open, the decorated one exactly on a success, and
\* nobody is admitted while the circuit is open.
THEOREM TransitionsEarned == Spec => TransitionsAreEarned
  <1>1. Inv /\ [Next]_vars => [Trip]_vars /\ [Close]_vars /\ [Shut]_vars
    BY InvStep DEF Earned
  <1>2. Inv => OpenAdmitsNobody
    BY DEF Inv
  <1>3. Spec => [][Trip]_vars /\ [][Close]_vars /\ [][Shut]_vars /\ []OpenAdmitsNobody
    BY <1>1, <1>2, Invariance, PTL DEF Spec
  <1> QED
    BY <1>3 DEF TransitionsAreEarned, TripsOnConsecutiveFailures, ClosesOnHalfOpenSuccesses,
                ClosesOnSuccess, Trip, Close, Shut

-----------------------------------------------------------------------------
(* Resilience: the breaker.                                                *)

BreakerOK ==
  /\ reBreakerState \in {"closed", "open", "half_open"}
  /\ reBreakerFailures \in 0..CallThreshold /\ reBreakerSuccesses = 0

ElapsedOK == reElapsed \in BOOLEAN

\* A result is reported to the breaker (CircuitBreaker._record_success and its kin).
LEMMA BreakerReports ==
  ASSUME BreakerOK, ElapsedOK, RE!B!ObservationSuccess \/ RE!B!ObservationFailure
  PROVE  BreakerOK' /\ ElapsedOK'
  <1>1. CASE RE!B!ObservationSuccess
    <2>1. BreakerOK'
      BY <1>1, CallsAssumption DEF RE!B!ObservationSuccess, BreakerOK
    <2>2. ElapsedOK'
      BY <1>1, CallsAssumption DEF RE!B!ObservationSuccess, BreakerOK, ElapsedOK
    <2> QED
      BY <2>1, <2>2
  <1>2. CASE RE!B!ObservationFailure
    <2>1. BreakerOK'
      BY <1>2, CallsAssumption DEF RE!B!ObservationFailure, BreakerOK
    <2>2. ElapsedOK'
      BY <1>2 DEF RE!B!ObservationFailure, ElapsedOK
    <2> QED
      BY <2>1, <2>2
  <1> QED
    BY <1>1, <1>2

-----------------------------------------------------------------------------
(* Resilience: the queue of waiters, in which no call is twice.            *)

Queues == {w \in Seq(Calls) : \A i, j \in 1..Len(w) : w[i] = w[j] => i = j}

\* What a queue is.
LEMMA QueueFacts ==
  ASSUME NEW w \in Queues
  PROVE  /\ w \in Seq(Calls) /\ Len(w) \in Nat /\ DOMAIN w = 1..Len(w)
         /\ \A i, j \in 1..Len(w) : w[i] = w[j] => i = j
         /\ \A i \in 1..Len(w) : w[i] \in Calls /\ w[i] \in RE!ToSet(w)
         /\ RE!ToSet(w) = {w[i] : i \in 1..Len(w)}
         /\ RE!ToSet(w) = {} <=> w = <<>>
  <1>1. w \in Seq(Calls) /\ \A i, j \in 1..Len(w) : w[i] = w[j] => i = j
    BY DEF Queues
  <1>2. Len(w) \in Nat /\ DOMAIN w = 1..Len(w) /\ \A i \in 1..Len(w) : w[i] \in Calls
    BY <1>1
  <1>3. RE!ToSet(w) = {w[i] : i \in 1..Len(w)}
    BY <1>2 DEF RE!ToSet
  <1>4. w = <<>> => RE!ToSet(w) = {}
    BY <1>3
  <1>5. w # <<>> => 1 \in 1..Len(w)
    BY <1>1, EmptySeq
  <1>6. w # <<>> => RE!ToSet(w) # {}
    BY <1>3, <1>5
  <1> QED
    BY <1>1, <1>2, <1>3, <1>4, <1>6

\* A call starts to wait.
LEMMA JoinsQueue ==
  ASSUME NEW w \in Queues, NEW c \in Calls, c \notin RE!ToSet(w)
  PROVE  Append(w, c) \in Queues /\ RE!ToSet(Append(w, c)) = RE!ToSet(w) \cup {c}
  <1>1. /\ w \in Seq(Calls) /\ Len(w) \in Nat /\ \A i, j \in 1..Len(w) : w[i] = w[j] => i = j
        /\ RE!ToSet(w) = {w[i] : i \in 1..Len(w)}
    BY QueueFacts
  <1>2. PICK v : v = Append(w, c)
    OBVIOUS
  <1>3. /\ v \in Seq(Calls) /\ Len(v) = Len(w) + 1 /\ \A i \in 1..Len(w) : v[i] = w[i]
        /\ v[Len(w) + 1] = c
    BY <1>1, <1>2, AppendProperties
  <1>4. \A i \in 1..Len(v) : i \in 1..Len(w) \/ i = Len(w) + 1
    BY <1>1, <1>3
  <1>5. \A i \in 1..Len(w) : w[i] # c
    BY <1>1
  <1>6. \A i, j \in 1..Len(v) : v[i] = v[j] => i = j
    BY <1>1, <1>3, <1>4, <1>5
  <1>7. v \in Queues
    BY <1>3, <1>6 DEF Queues
  <1>8. RE!ToSet(v) = {v[i] : i \in 1..Len(v)}
    BY <1>7, QueueFacts
  <1>9. RE!ToSet(v) = RE!ToSet(w) \cup {c}
    <2>1. Len(w) + 1 \in 1..Len(v) /\ 1..Len(w) \subseteq 1..Len(v)
      BY <1>1, <1>3
    <2> QED
      BY <1>1, <1>3, <1>4, <1>8, <2>1
  <1> QED
    BY <1>2, <1>7, <1>9

\* The one that has waited longest is told.
LEMMA HeadIsTold ==
  ASSUME NEW w \in Queues, w # <<>>
  PROVE  /\ Tail(w) \in Queues /\ Head(w) \in Calls /\ Head(w) \in RE!ToSet(w)
         /\ RE!ToSet(Tail(w)) = RE!ToSet(w) \ {Head(w)}
  <1>1. /\ w \in Seq(Calls) /\ Len(w) \in Nat /\ \A i, j \in 1..Len(w) : w[i] = w[j] => i = j
        /\ RE!ToSet(w) = {w[i] : i \in 1..Len(w)} /\ \A i \in 1..Len(w) : w[i] \in Calls
    BY QueueFacts
  <1>2. PICK v : v = Tail(w)
    OBVIOUS
  <1>3. /\ v \in Seq(Calls) /\ Len(v) = Len(w) - 1 /\ \A i \in 1..Len(v) : v[i] = w[i + 1]
        /\ Head(w) = w[1] /\ Len(w) >= 1
    BY <1>1, <1>2, HeadTailProperties, EmptySeq
  <1>4. \A i, j \in 1..Len(v) : v[i] = v[j] => i = j
    <2> SUFFICES ASSUME NEW i \in 1..Len(v), NEW j \in 1..Len(v), v[i] = v[j] PROVE i = j
      OBVIOUS
    <2>1. i + 1 \in 1..Len(w) /\ j + 1 \in 1..Len(w) /\ w[i + 1] = w[j + 1]
      BY <1>1, <1>3
    <2>2. i + 1 = j + 1
      BY <1>1, <2>1
    <2> QED
      BY <2>2
  <1>5. v \in Queues
    BY <1>3, <1>4 DEF Queues
  <1>6. RE!ToSet(v) = {v[i] : i \in 1..Len(v)}
    BY <1>5, QueueFacts
  <1>7. \A i \in 1..Len(w) : i = 1 \/ i - 1 \in 1..Len(v)
    BY <1>1, <1>3
  <1>8. \A i \in 1..Len(v) : i + 1 \in 1..Len(w) /\ i + 1 # 1
    BY <1>1, <1>3
  <1>9. 1 \in 1..Len(w)
    BY <1>1, <1>3
  <1>10. \A i \in 1..Len(v) : v[i] \in RE!ToSet(w) /\ v[i] # w[1]
    <2> TAKE i \in 1..Len(v)
    <2>1. i + 1 \in 1..Len(w) /\ i + 1 # 1 /\ v[i] = w[i + 1]
      BY <1>3, <1>8
    <2> QED
      BY <1>1, <1>9, <2>1
  <1>11. \A i \in 1..Len(w) : w[i] = w[1] \/ w[i] \in RE!ToSet(v)
    <2> TAKE i \in 1..Len(w)
    <2>1. CASE i = 1
      BY <2>1
    <2>2. CASE i # 1
      <3>1. i - 1 \in 1..Len(v) /\ (i - 1) + 1 = i
        BY <1>7, <2>2
      <3>2. v[i - 1] = w[i]
        BY <1>3, <3>1
      <3> QED
        BY <1>6, <3>1, <3>2
    <2> QED
      BY <2>1, <2>2
  <1>12. RE!ToSet(v) = RE!ToSet(w) \ {w[1]}
    BY <1>1, <1>6, <1>10, <1>11
  <1> QED
    BY <1>1, <1>2, <1>3, <1>5, <1>9, <1>12

\* A waiter that gives up leaves the queue.
LEMMA LeavesQueue ==
  ASSUME NEW w \in Queues, NEW c
  PROVE  RE!Without(w, c) \in Queues /\ RE!ToSet(RE!Without(w, c)) = RE!ToSet(w) \ {c}
  <1>1. /\ w \in Seq(Calls) /\ Len(w) \in Nat /\ DOMAIN w = 1..Len(w)
        /\ \A i, j \in 1..Len(w) : w[i] = w[j] => i = j
        /\ RE!ToSet(w) = {w[i] : i \in 1..Len(w)}
    BY QueueFacts
  <1>2. CASE c \notin RE!ToSet(w)
    BY <1>2 DEF RE!Without
  <1>3. CASE c \in RE!ToSet(w)
    <2>1. PICK k : k = CHOOSE i \in DOMAIN w : w[i] = c
      OBVIOUS
    <2>2. k \in 1..Len(w) /\ w[k] = c
      BY <1>1, <1>3, <2>1
    <2>3. PICK v : v = RE!RemoveAt(w, k)
      OBVIOUS
    <2>4. RE!Without(w, c) = v
      BY <1>3, <2>1, <2>3 DEF RE!Without
    <2>5. PICK a : a = SubSeq(w, 1, k - 1)
      OBVIOUS
    <2>6. PICK b : b = SubSeq(w, k + 1, Len(w))
      OBVIOUS
    <2>7. a \in Seq(Calls) /\ Len(a) = k - 1 /\ \A i \in 1..k - 1 : a[i] = w[i]
      <3>1. 1 \in 1..(Len(w) + 1) /\ k - 1 \in 0..Len(w)
        BY <1>1, <2>2
      <3>2. 1 - 1 <= k - 1
        BY <2>2
      <3> QED
        BY <1>1, <2>2, <2>5, <3>1, <3>2, SubSeqProperties
    <2>8. b \in Seq(Calls) /\ Len(b) = Len(w) - k /\ \A i \in 1..Len(w) - k : b[i] = w[i + k]
      <3>1. k + 1 \in Int /\ Len(w) \in Int /\ \A i \in k + 1..Len(w) : w[i] \in Calls
        BY <1>1, <2>2
      <3>2. /\ b \in Seq(Calls)
            /\ Len(b) = IF k + 1 <= Len(w) THEN Len(w) - (k + 1) + 1 ELSE 0
            /\ \A i \in 1..Len(w) - (k + 1) + 1 : b[i] = w[(k + 1) + i - 1]
        BY <1>1, <2>6, <3>1, SubSeqProperties
      <3>3. Len(b) = Len(w) - k
        <4>1. CASE k + 1 <= Len(w)
          BY <1>1, <2>2, <3>2, <4>1
        <4>2. CASE ~(k + 1 <= Len(w))
          <5>1. Len(b) = 0
            BY <3>2, <4>2
          <5>2. k = Len(w)
            <6>1. k \in Int /\ Len(w) \in Int /\ k <= Len(w)
              BY <1>1, <2>2
            <6> QED
              BY <4>2, <6>1
          <5> QED
            BY <1>1, <2>2, <5>1, <5>2
        <4> QED
          BY <4>1, <4>2
      <3>4. \A i \in 1..Len(w) - k : b[i] = w[i + k]
        <4> TAKE i \in 1..Len(w) - k
        <4>1. i \in 1..Len(w) - (k + 1) + 1 /\ (k + 1) + i - 1 = i + k
          BY <1>1, <2>2
        <4> QED
          BY <3>2, <4>1
      <3> QED
        BY <3>2, <3>3, <3>4
    <2>9. v = a \o b
      BY <2>3, <2>5, <2>6 DEF RE!RemoveAt
    <2>10. v \in Seq(Calls) /\ Len(v) = Len(w) - 1
      <3>1. v \in Seq(Calls) /\ Len(v) = Len(a) + Len(b)
        BY <2>7, <2>8, <2>9, ConcatProperties
      <3> QED
        BY <1>1, <2>2, <2>7, <2>8, <3>1
    <2>11. \A i \in 1..Len(v) : v[i] = IF i < k THEN w[i] ELSE w[i + 1]
      <3> TAKE i \in 1..Len(v)
      <3>1. CASE i < k
        <4>1. v[i] = a[i]
          BY <1>1, <2>2, <2>7, <2>8, <2>9, <2>10, <3>1, ConcatProperties
        <4> QED
          BY <2>2, <2>7, <3>1, <4>1
      <3>2. CASE ~(i < k)
        <4>1. v[i] = b[i - Len(a)]
          BY <1>1, <2>2, <2>7, <2>8, <2>9, <2>10, <3>2, ConcatProperties
        <4>2. i - (k - 1) \in 1..Len(w) - k /\ (i - (k - 1)) + k = i + 1
          BY <1>1, <2>2, <2>10, <3>2
        <4> QED
          BY <2>7, <2>8, <3>2, <4>1, <4>2
      <3> QED
        BY <3>1, <3>2
    <2>12. \A i, j \in 1..Len(v) : v[i] = v[j] => i = j
      <3> SUFFICES ASSUME NEW i \in 1..Len(v), NEW j \in 1..Len(v), v[i] = v[j] PROVE i = j
        OBVIOUS
      <3>1. PICK x \in 1..Len(w) : v[i] = w[x] /\ x = IF i < k THEN i ELSE i + 1
        BY <1>1, <2>2, <2>10, <2>11
      <3>2. PICK y \in 1..Len(w) : v[j] = w[y] /\ y = IF j < k THEN j ELSE j + 1
        BY <1>1, <2>2, <2>10, <2>11
      <3>3. x = y
        BY <1>1, <3>1, <3>2
      <3> QED
        BY <2>2, <2>10, <3>1, <3>2, <3>3
    <2>13. v \in Queues
      BY <2>10, <2>12 DEF Queues
    <2>14. RE!ToSet(v) = {v[i] : i \in 1..Len(v)}
      BY <2>13, QueueFacts
    <2>15. \A i \in 1..Len(v) : v[i] \in RE!ToSet(w) /\ v[i] # c
      <3> TAKE i \in 1..Len(v)
      <3> DEFINE x == IF i < k THEN i ELSE i + 1
      <3>1. x \in 1..Len(w) /\ x # k
        BY <1>1, <2>2, <2>10
      <3>2. v[i] = w[x]
        BY <2>11
      <3> HIDE DEF x
      <3> QED
        BY <1>1, <2>2, <3>1, <3>2
    <2>16. \A x \in 1..Len(w) : w[x] = c \/ w[x] \in RE!ToSet(v)
      <3> TAKE x \in 1..Len(w)
      <3>1. CASE x < k
        <4>1. x \in 1..Len(v) /\ v[x] = w[x]
          BY <1>1, <2>2, <2>10, <2>11, <3>1
        <4> QED
          BY <2>14, <4>1
      <3>2. CASE x > k
        <4>1. x - 1 \in 1..Len(v) /\ ~(x - 1 < k) /\ (x - 1) + 1 = x
          BY <1>1, <2>2, <2>10, <3>2
        <4>2. v[x - 1] = w[x]
          BY <2>11, <4>1
        <4> QED
          BY <2>14, <4>1, <4>2
      <3> QED
        BY <2>2, <3>1, <3>2
    <2>17. RE!ToSet(v) = RE!ToSet(w) \ {c}
      BY <1>1, <2>14, <2>15, <2>16
    <2> QED
      BY <2>4, <2>13, <2>17
  <1> QED
    BY <1>2, <1>3

-----------------------------------------------------------------------------
(* Resilience: the bulkhead.  Its counters are the sizes of the sets of    *)
(* calls that hold a slot and that wait.  Who waits is in the queue or has *)
(* been told; and while the queue is not empty, the calls that hold a slot *)
(* and those that have been told of one are enough to fill the bulkhead.   *)

Busy == {"admitted", "calling", "retrying", "sleeping"}

Places == {"new", "waiting", "admitted", "calling", "retrying", "sleeping"} \cup RE!Outcomes

SlotInv ==
  /\ rePc \in [Calls -> Places]
  /\ IsFiniteSet(RE!Admitted) /\ reInflight = Cardinality(RE!Admitted) /\ reInflight <= MaxConcurrency
  /\ IsFiniteSet(RE!Waiting) /\ reWaiting = Cardinality(RE!Waiting) /\ reWaiting <= MaxQueue
  /\ reWaiters \in Queues /\ reNotified \subseteq Calls
  /\ RE!Waiting = RE!ToSet(reWaiters) \cup reNotified /\ RE!ToSet(reWaiters) \cap reNotified = {}
  /\ reWaiters # <<>> => Cardinality(reNotified) + reInflight >= MaxConcurrency

\* The counters are numbers, and the calls that were told are finitely many.
LEMMA SlotNumbers ==
  ASSUME SlotInv
  PROVE  reInflight \in Nat /\ reWaiting \in Nat /\ IsFiniteSet(reNotified) /\ Cardinality(reNotified) \in Nat
  <1>1. reInflight \in Nat /\ reWaiting \in Nat
    BY FS_CardinalityType DEF SlotInv
  <1>2. IsFiniteSet(RE!Waiting) /\ reNotified \in SUBSET RE!Waiting
    BY DEF SlotInv
  <1>3. IsFiniteSet(reNotified)
    BY <1>2, FS_Subset
  <1>4. Cardinality(reNotified) \in Nat
    BY <1>3, FS_CardinalityType
  <1> QED
    BY <1>1, <1>3, <1>4

\* What a call that moves does to the sets.
LEMMA MovesBetween ==
  ASSUME rePc \in [Calls -> Places], NEW c \in Calls, NEW place \in Places, RE!Goto(c, place)
  PROVE  /\ rePc' \in [Calls -> Places]
         /\ place \in Busy => RE!Admitted' = RE!Admitted \cup {c}
         /\ place \notin Busy => RE!Admitted' = RE!Admitted \ {c}
         /\ place = "waiting" => RE!Waiting' = RE!Waiting \cup {c}
         /\ place # "waiting" => RE!Waiting' = RE!Waiting \ {c}
  <1>1. rePc' \in [Calls -> Places]
    BY DEF RE!Goto
  <1>2. rePc'[c] = place /\ \A d \in Calls : d # c => rePc'[d] = rePc[d]
    BY DEF RE!Goto
  <1>3. RE!Admitted' = {d \in Calls : rePc'[d] \in Busy} /\ RE!Admitted = {d \in Calls : rePc[d] \in Busy}
    BY DEF RE!Admitted, Busy
  <1>4. RE!Waiting' = {d \in Calls : rePc'[d] = "waiting"} /\ RE!Waiting = {d \in Calls : rePc[d] = "waiting"}
    BY DEF RE!Waiting
  <1>5. place \in Busy => RE!Admitted' = RE!Admitted \cup {c}
    BY <1>2, <1>3
  <1>6. place \notin Busy => RE!Admitted' = RE!Admitted \ {c}
    BY <1>2, <1>3
  <1>7. place = "waiting" => RE!Waiting' = RE!Waiting \cup {c}
    BY <1>2, <1>4
  <1>8. place # "waiting" => RE!Waiting' = RE!Waiting \ {c}
    BY <1>2, <1>4
  <1> QED
    BY <1>1, <1>5, <1>6, <1>7, <1>8

\* A call that holds a slot keeps it.
LEMMA KeepsSlot ==
  ASSUME SlotInv, NEW c \in Calls, rePc[c] \in Busy, NEW place \in Busy, RE!Goto(c, place),
         UNCHANGED RE!bulkheadVars
  PROVE  SlotInv'
  <1>1. c \in RE!Admitted /\ c \notin RE!Waiting /\ place \in Places /\ place # "waiting"
    BY DEF RE!Admitted, RE!Waiting, Busy, Places, SlotInv
  <1>2. rePc' \in [Calls -> Places] /\ RE!Admitted' = RE!Admitted /\ RE!Waiting' = RE!Waiting
    <2>1. rePc \in [Calls -> Places]
      BY DEF SlotInv
    <2>2. rePc' \in [Calls -> Places] /\ RE!Admitted' = RE!Admitted \cup {c} /\ RE!Waiting' = RE!Waiting \ {c}
      BY <1>1, <2>1, MovesBetween
    <2> QED
      BY <1>1, <2>2
  <1>3. reInflight' = reInflight /\ reWaiting' = reWaiting /\ reWaiters' = reWaiters /\ reNotified' = reNotified
    BY DEF RE!bulkheadVars
  <1> QED
    BY <1>2, <1>3 DEF SlotInv

\* Whoever is told was waiting, and one more has been told unless nobody waits.
LEMMA NotifyTells ==
  ASSUME NEW left \in Queues, NEW told, IsFiniteSet(told), RE!ToSet(left) \cap told = {},
         RE!Notify(left, told)
  PROVE  /\ reWaiters' \in Queues /\ RE!ToSet(reWaiters)' \cap reNotified' = {}
         /\ RE!ToSet(reWaiters)' \cup reNotified' = RE!ToSet(left) \cup told
         /\ reNotified' \subseteq told \cup Calls
         /\ reWaiters' # <<>> => left # <<>> /\ Cardinality(reNotified') = Cardinality(told) + 1
  <1>1. CASE left = <<>>
    <2>1. reWaiters' = left /\ reNotified' = told
      BY <1>1 DEF RE!Notify
    <2>2. RE!ToSet(reWaiters)' = RE!ToSet(left)
      BY <2>1 DEF RE!ToSet
    <2> QED
      BY <1>1, <2>1, <2>2
  <1>2. CASE left # <<>>
    <2>1. reWaiters' = Tail(left) /\ reNotified' = told \cup {Head(left)}
      BY <1>2 DEF RE!Notify
    <2>2. RE!ToSet(reWaiters)' = RE!ToSet(Tail(left))
      BY <2>1 DEF RE!ToSet
    <2>3. /\ Tail(left) \in Queues /\ Head(left) \in Calls /\ Head(left) \in RE!ToSet(left)
          /\ RE!ToSet(Tail(left)) = RE!ToSet(left) \ {Head(left)}
      BY <1>2, HeadIsTold
    <2>4. Head(left) \notin told
      BY <2>3
    <2>5. Cardinality(told \cup {Head(left)}) = Cardinality(told) + 1
      BY <2>4, FS_AddElement
    <2>6. RE!ToSet(reWaiters)' \cap reNotified' = {}
      BY <2>1, <2>2, <2>3
    <2>7. RE!ToSet(reWaiters)' \cup reNotified' = RE!ToSet(left) \cup told
      BY <2>1, <2>2, <2>3
    <2>8. reNotified' \subseteq told \cup Calls
      BY <2>1, <2>3
    <2> QED
      BY <1>2, <2>1, <2>3, <2>5, <2>6, <2>7, <2>8
  <1> QED
    BY <1>1, <1>2

\* A call that ends frees its slot.
LEMMA EndFrees ==
  ASSUME SlotInv, NEW c \in Calls, rePc[c] \in Busy, NEW outcome \in RE!Outcomes, RE!End(c, outcome)
  PROVE  SlotInv'
  <1> USE CallsAssumption
  <1>1. outcome \in Places /\ outcome \notin Busy /\ outcome # "waiting"
    BY DEF RE!Outcomes, Places, Busy
  <1>2. c \in RE!Admitted /\ c \notin RE!Waiting
    BY DEF RE!Admitted, RE!Waiting, Busy
  <1>3. rePc' \in [Calls -> Places] /\ RE!Admitted' = RE!Admitted \ {c} /\ RE!Waiting' = RE!Waiting
    BY <1>1, <1>2, MovesBetween DEF SlotInv, RE!End
  <1>4. reInflight \in Nat /\ reWaiting \in Nat /\ IsFiniteSet(reNotified) /\ Cardinality(reNotified) \in Nat
    BY SlotNumbers
  <1>5. reInflight' = reInflight - 1 /\ RE!Notify(reWaiters, reNotified) /\ reWaiting' = reWaiting
    BY DEF RE!End, RE!Release
  <1>6. IsFiniteSet(RE!Admitted') /\ Cardinality(RE!Admitted') = Cardinality(RE!Admitted) - 1
    BY <1>2, <1>3, FS_RemoveElement DEF SlotInv
  <1>7. reWaiters \in Queues /\ RE!ToSet(reWaiters) \cap reNotified = {} /\ reNotified \subseteq Calls
    BY DEF SlotInv
  <1>8. /\ reWaiters' \in Queues /\ RE!ToSet(reWaiters)' \cap reNotified' = {}
        /\ RE!ToSet(reWaiters)' \cup reNotified' = RE!ToSet(reWaiters) \cup reNotified
        /\ reNotified' \subseteq reNotified \cup Calls
        /\ reWaiters' # <<>> => reWaiters # <<>> /\ Cardinality(reNotified') = Cardinality(reNotified) + 1
    BY <1>4, <1>5, <1>7, NotifyTells
  <1>9. reInflight' = Cardinality(RE!Admitted') /\ reInflight' <= MaxConcurrency
    BY <1>4, <1>5, <1>6 DEF SlotInv
  <1>10. reWaiters' # <<>> => Cardinality(reNotified') + reInflight' >= MaxConcurrency
    BY <1>4, <1>5, <1>8 DEF SlotInv
  <1>11. IsFiniteSet(RE!Waiting') /\ reWaiting' = Cardinality(RE!Waiting') /\ reWaiting' <= MaxQueue
    BY <1>3, <1>5 DEF SlotInv
  <1>12. RE!Waiting' = RE!ToSet(reWaiters)' \cup reNotified'
    BY <1>3, <1>8 DEF SlotInv
  <1>13. reNotified' \subseteq Calls
    BY <1>7, <1>8
  <1> QED
    BY <1>3, <1>6, <1>8, <1>9, <1>10, <1>11, <1>12, <1>13 DEF SlotInv

-----------------------------------------------------------------------------
(* Resilience: the bulkhead's own steps.                                   *)

\* A call arrives.
LEMMA RunKeeps ==
  ASSUME SlotInv, NEW c \in Calls, RE!Run(c) PROVE SlotInv'
  <1> USE CallsAssumption
  <1>1. c \notin RE!Admitted /\ c \notin RE!Waiting
    BY DEF RE!Admitted, RE!Waiting, RE!Run
  <1>2. reInflight \in Nat /\ reWaiting \in Nat /\ IsFiniteSet(reNotified) /\ Cardinality(reNotified) \in Nat
    BY SlotNumbers
  <1>3. CASE reInflight < MaxConcurrency
    <2>1. reInflight' = reInflight + 1 /\ RE!Goto(c, "admitted") /\ UNCHANGED <<reWaiting, reWaiters, reNotified>>
      BY <1>2, <1>3 DEF RE!Run
    <2>2. "admitted" \in Places /\ "admitted" \in Busy
      BY DEF Places, Busy
    <2>3. rePc' \in [Calls -> Places] /\ RE!Admitted' = RE!Admitted \cup {c} /\ RE!Waiting' = RE!Waiting \ {c}
      BY <2>1, <2>2, MovesBetween DEF SlotInv
    <2>4. IsFiniteSet(RE!Admitted') /\ Cardinality(RE!Admitted') = Cardinality(RE!Admitted) + 1
      BY <1>1, <2>3, FS_AddElement DEF SlotInv
    <2>5. RE!Waiting' = RE!Waiting
      BY <1>1, <2>3
    <2>6. reInflight' = Cardinality(RE!Admitted') /\ reInflight' <= MaxConcurrency
      BY <1>2, <1>3, <2>1, <2>4 DEF SlotInv
    <2>7. reWaiters' # <<>> => Cardinality(reNotified') + reInflight' >= MaxConcurrency
      BY <1>2, <2>1 DEF SlotInv
    <2>8. RE!ToSet(reWaiters)' = RE!ToSet(reWaiters)
      BY <2>1 DEF RE!ToSet
    <2> QED
      BY <2>1, <2>3, <2>4, <2>5, <2>6, <2>7, <2>8 DEF SlotInv
  <1>4. CASE reInflight >= MaxConcurrency /\ reWaiting < MaxQueue
    <2>1. /\ reWaiting' = reWaiting + 1 /\ reWaiters' = Append(reWaiters, c) /\ RE!Goto(c, "waiting")
          /\ UNCHANGED <<reInflight, reNotified>>
      BY <1>2, <1>4 DEF RE!Run, RE!Wait
    <2>2. "waiting" \in Places /\ "waiting" \notin Busy
      BY DEF Places, Busy
    <2>3. rePc' \in [Calls -> Places] /\ RE!Admitted' = RE!Admitted \ {c} /\ RE!Waiting' = RE!Waiting \cup {c}
      BY <2>1, <2>2, MovesBetween DEF SlotInv
    <2>4. IsFiniteSet(RE!Waiting') /\ Cardinality(RE!Waiting') = Cardinality(RE!Waiting) + 1
      BY <1>1, <2>3, FS_AddElement DEF SlotInv
    <2>5. RE!Admitted' = RE!Admitted
      BY <1>1, <2>3
    <2>6. reWaiters \in Queues /\ c \notin RE!ToSet(reWaiters) /\ c \notin reNotified
      BY <1>1 DEF SlotInv
    <2>7. reWaiters' \in Queues /\ RE!ToSet(reWaiters)' = RE!ToSet(reWaiters) \cup {c}
      <3>1. Append(reWaiters, c) \in Queues /\ RE!ToSet(Append(reWaiters, c)) = RE!ToSet(reWaiters) \cup {c}
        BY <2>6, JoinsQueue
      <3>2. RE!ToSet(reWaiters)' = RE!ToSet(Append(reWaiters, c))
        BY <2>1 DEF RE!ToSet
      <3> QED
        BY <2>1, <3>1, <3>2
    <2>8. reWaiting' = Cardinality(RE!Waiting') /\ reWaiting' <= MaxQueue
      <3>1. reWaiting = Cardinality(RE!Waiting)
        BY DEF SlotInv
      <3>2. reWaiting' = Cardinality(RE!Waiting')
        BY <2>1, <2>4, <3>1
      <3>3. reWaiting' <= MaxQueue
        BY <1>2, <1>4, <2>1
      <3> QED
        BY <3>2, <3>3
    <2>9. Cardinality(reNotified') + reInflight' >= MaxConcurrency
      BY <1>2, <1>4, <2>1
    <2>10. RE!Waiting' = RE!ToSet(reWaiters)' \cup reNotified' /\ RE!ToSet(reWaiters)' \cap reNotified' = {}
      BY <2>1, <2>3, <2>6, <2>7 DEF SlotInv
    <2> QED
      BY <2>1, <2>3, <2>4, <2>5, <2>7, <2>8, <2>9, <2>10 DEF SlotInv
  <1>5. CASE reInflight >= MaxConcurrency /\ reWaiting >= MaxQueue
    <2>1. RE!Goto(c, "rejected") /\ UNCHANGED RE!bulkheadVars
      BY <1>2, <1>5 DEF RE!Run
    <2>2. "rejected" \in Places /\ "rejected" \notin Busy
      BY DEF Places, Busy, RE!Outcomes
    <2>3. rePc' \in [Calls -> Places] /\ RE!Admitted' = RE!Admitted \ {c} /\ RE!Waiting' = RE!Waiting \ {c}
      BY <2>1, <2>2, MovesBetween DEF SlotInv
    <2>4. RE!Admitted' = RE!Admitted /\ RE!Waiting' = RE!Waiting
      BY <1>1, <2>3
    <2>5. reInflight' = reInflight /\ reWaiting' = reWaiting /\ reWaiters' = reWaiters /\ reNotified' = reNotified
      BY <2>1 DEF RE!bulkheadVars
    <2> QED
      BY <2>3, <2>4, <2>5 DEF SlotInv
  <1> QED
    BY <1>3, <1>4, <1>5 DEF RE!Run

\* A waiter that was told runs, and takes a slot or waits again.
LEMMA WakeKeeps ==
  ASSUME SlotInv, NEW c \in Calls, RE!Wake(c) PROVE SlotInv'
  <1> USE CallsAssumption
  <1>1. c \in RE!Waiting /\ c \in reNotified /\ c \notin RE!Admitted /\ reNotified' = reNotified \ {c}
    BY DEF RE!Wake, RE!Waiting, RE!Admitted
  <1>2. reInflight \in Nat /\ reWaiting \in Nat /\ IsFiniteSet(reNotified) /\ Cardinality(reNotified) \in Nat
    BY SlotNumbers
  <1>3. reWaiters \in Queues /\ c \notin RE!ToSet(reWaiters)
    BY <1>1 DEF SlotInv
  <1>4. Cardinality(reNotified') = Cardinality(reNotified) - 1
    BY <1>1, <1>2, FS_RemoveElement
  <1>5. CASE RE!Rechecks
    <2>1. reWaiters' = Append(reWaiters, c) /\ UNCHANGED <<rePc, reInflight, reWaiting>>
      BY <1>5 DEF RE!Wake, RE!Wait
    <2>2. reWaiters' \in Queues /\ RE!ToSet(reWaiters)' = RE!ToSet(reWaiters) \cup {c}
      <3>1. Append(reWaiters, c) \in Queues /\ RE!ToSet(Append(reWaiters, c)) = RE!ToSet(reWaiters) \cup {c}
        BY <1>3, JoinsQueue
      <3>2. RE!ToSet(reWaiters)' = RE!ToSet(Append(reWaiters, c))
        BY <2>1 DEF RE!ToSet
      <3> QED
        BY <2>1, <3>1, <3>2
    <2>3. RE!Admitted' = RE!Admitted /\ RE!Waiting' = RE!Waiting
      BY <2>1 DEF RE!Admitted, RE!Waiting
    <2>4. Cardinality(reNotified') \in Nat
      BY <1>1, <1>2, FS_RemoveElement, FS_CardinalityType
    <2>5. Cardinality(reNotified') + reInflight' >= MaxConcurrency
      BY <1>2, <1>5, <2>1, <2>4 DEF RE!Rechecks
    <2>6. RE!Waiting' = RE!ToSet(reWaiters)' \cup reNotified' /\ RE!ToSet(reWaiters)' \cap reNotified' = {}
      BY <1>1, <1>3, <2>2, <2>3 DEF SlotInv
    <2> QED
      BY <1>1, <2>1, <2>2, <2>3, <2>5, <2>6 DEF SlotInv
  <1>6. CASE ~RE!Rechecks
    <2>1. /\ reWaiting' = reWaiting - 1 /\ reInflight' = reInflight + 1 /\ RE!Goto(c, "admitted")
          /\ reWaiters' = reWaiters
      BY <1>6 DEF RE!Wake
    <2>2. "admitted" \in Places /\ "admitted" \in Busy
      BY DEF Places, Busy
    <2>3. rePc' \in [Calls -> Places] /\ RE!Admitted' = RE!Admitted \cup {c} /\ RE!Waiting' = RE!Waiting \ {c}
      BY <2>1, <2>2, MovesBetween DEF SlotInv
    <2>4. IsFiniteSet(RE!Admitted') /\ Cardinality(RE!Admitted') = Cardinality(RE!Admitted) + 1
      BY <1>1, <2>3, FS_AddElement DEF SlotInv
    <2>5. IsFiniteSet(RE!Waiting') /\ Cardinality(RE!Waiting') = Cardinality(RE!Waiting) - 1
      BY <1>1, <2>3, FS_RemoveElement DEF SlotInv
    <2>6. reInflight' = Cardinality(RE!Admitted') /\ reInflight' <= MaxConcurrency
      BY <1>2, <1>6, <2>1, <2>4 DEF SlotInv, RE!Rechecks
    <2>7. reWaiting' = Cardinality(RE!Waiting') /\ reWaiting' <= MaxQueue
      <3>1. reWaiting = Cardinality(RE!Waiting) /\ reWaiting <= MaxQueue
        BY DEF SlotInv
      <3>2. reWaiting' = Cardinality(RE!Waiting')
        BY <2>1, <2>5, <3>1
      <3>3. reWaiting' <= MaxQueue
        BY <2>1, <1>2, <3>1
      <3> QED
        BY <3>2, <3>3
    <2>8. reWaiters' # <<>> => Cardinality(reNotified') + reInflight' >= MaxConcurrency
      BY <1>2, <1>4, <2>1 DEF SlotInv
    <2>9. RE!ToSet(reWaiters)' = RE!ToSet(reWaiters)
      BY <2>1 DEF RE!ToSet
    <2>10. RE!Waiting' = RE!ToSet(reWaiters)' \cup reNotified' /\ RE!ToSet(reWaiters)' \cap reNotified' = {}
      BY <1>1, <1>3, <2>3, <2>9 DEF SlotInv
    <2>11. reWaiters' \in Queues /\ reNotified' \subseteq Calls
      BY <1>1, <2>1 DEF SlotInv
    <2> QED
      BY <2>3, <2>4, <2>5, <2>6, <2>7, <2>8, <2>10, <2>11 DEF SlotInv
  <1> QED
    BY <1>5, <1>6

\* A call that is cancelled while it waits passes the notification on.
LEMMA CancelWaitingKeeps ==
  ASSUME SlotInv, NEW c \in Calls, RE!CancelWaiting(c) PROVE SlotInv'
  <1> USE CallsAssumption
  <1>1. /\ c \in RE!Waiting /\ c \notin RE!Admitted /\ reWaiting' = reWaiting - 1 /\ RE!Goto(c, "cancelled")
        /\ RE!Notify(RE!Without(reWaiters, c), reNotified \ {c}) /\ reInflight' = reInflight
    BY DEF RE!CancelWaiting, RE!Waiting, RE!Admitted
  <1>2. reInflight \in Nat /\ reWaiting \in Nat /\ IsFiniteSet(reNotified) /\ Cardinality(reNotified) \in Nat
    BY SlotNumbers
  <1>3. "cancelled" \in Places /\ "cancelled" \notin Busy
    BY DEF Places, Busy, RE!Outcomes
  <1>4. rePc' \in [Calls -> Places] /\ RE!Admitted' = RE!Admitted \ {c} /\ RE!Waiting' = RE!Waiting \ {c}
    BY <1>1, <1>3, MovesBetween DEF SlotInv
  <1>5. RE!Admitted' = RE!Admitted
    BY <1>1, <1>4
  <1>6. IsFiniteSet(RE!Waiting') /\ Cardinality(RE!Waiting') = Cardinality(RE!Waiting) - 1
    BY <1>1, <1>4, FS_RemoveElement DEF SlotInv
  <1>7. PICK left : left = RE!Without(reWaiters, c)
    OBVIOUS
  <1>8. PICK told : told = reNotified \ {c}
    OBVIOUS
  <1>9. reWaiters \in Queues /\ reNotified \subseteq Calls
    BY DEF SlotInv
  <1>10. left \in Queues /\ RE!ToSet(left) = RE!ToSet(reWaiters) \ {c}
    BY <1>7, <1>9, LeavesQueue
  <1>11. IsFiniteSet(told) /\ Cardinality(told) \in Nat /\ Cardinality(told) >= Cardinality(reNotified) - 1
    <2>1. /\ IsFiniteSet(reNotified \ {c})
          /\ Cardinality(reNotified \ {c}) = IF c \in reNotified THEN Cardinality(reNotified) - 1
                                            ELSE Cardinality(reNotified)
      BY <1>2, FS_RemoveElement
    <2>2. Cardinality(told) \in Nat
      BY <1>8, <2>1, FS_CardinalityType
    <2>3. Cardinality(told) >= Cardinality(reNotified) - 1
      BY <1>2, <1>8, <2>1
    <2> QED
      BY <1>8, <2>1, <2>2, <2>3
  <1>12. RE!ToSet(left) \cap told = {}
    BY <1>8, <1>10 DEF SlotInv
  <1>13. RE!Notify(left, told)
    BY <1>1, <1>7, <1>8
  <1>14. /\ reWaiters' \in Queues /\ RE!ToSet(reWaiters)' \cap reNotified' = {}
         /\ RE!ToSet(reWaiters)' \cup reNotified' = RE!ToSet(left) \cup told
         /\ reNotified' \subseteq told \cup Calls
         /\ reWaiters' # <<>> => left # <<>> /\ Cardinality(reNotified') = Cardinality(told) + 1
    BY <1>10, <1>11, <1>12, <1>13, NotifyTells
  <1>15. left # <<>> => reWaiters # <<>>
    <2>1. RE!ToSet(left) = {} <=> left = <<>>
      BY <1>10, QueueFacts
    <2>2. RE!ToSet(reWaiters) = {} <=> reWaiters = <<>>
      BY <1>9, QueueFacts
    <2> QED
      BY <1>10, <2>1, <2>2
  <1>16. reWaiters' # <<>> => Cardinality(reNotified') + reInflight' >= MaxConcurrency
    BY <1>1, <1>2, <1>11, <1>14, <1>15 DEF SlotInv
  <1>17. reWaiting' = Cardinality(RE!Waiting') /\ reWaiting' <= MaxQueue
    <2>1. reWaiting = Cardinality(RE!Waiting) /\ reWaiting <= MaxQueue
      BY DEF SlotInv
    <2>2. reWaiting' = Cardinality(RE!Waiting')
      BY <1>1, <1>6, <2>1
    <2>3. reWaiting' <= MaxQueue
      BY <1>1, <1>2, <2>1
    <2> QED
      BY <2>2, <2>3
  <1>18. RE!Waiting' = RE!ToSet(reWaiters)' \cup reNotified'
    BY <1>4, <1>8, <1>10, <1>14 DEF SlotInv
  <1>19. reNotified' \subseteq Calls
    BY <1>8, <1>9, <1>14
  <1> QED
    BY <1>1, <1>4, <1>5, <1>6, <1>14, <1>16, <1>17, <1>18, <1>19 DEF SlotInv
-----------------------------------------------------------------------------
(* Resilience: the budget.  Its stamps are the last retries, and those it  *)
(* has forgotten are older than the window; so a retry is made only when   *)
(* the one MaxRetryTokens before it is older than the window.              *)

Remembers(k) ==
  /\ k \in 0..Len(reRetries)
  /\ Len(reTimestamps) = Len(reRetries) - k
  /\ \A i \in 1..Len(reTimestamps) : reTimestamps[i] = reRetries[k + i]
  /\ \A i \in 1..k : reRetries[i] + WindowSeconds < reNow

BudgetInv ==
  /\ reNow \in 0..CallClock /\ reTimestamps \in Seq(0..CallClock) /\ reRetries \in Seq(0..CallClock)
  /\ \A i \in 1..Len(reRetries) : reRetries[i] <= reNow
  /\ \A i, j \in 1..Len(reRetries) : i <= j => reRetries[i] <= reRetries[j]
  /\ \A i \in 1..Len(reRetries) :
       i + MaxRetryTokens <= Len(reRetries) => reRetries[i] + WindowSeconds < reRetries[i + MaxRetryTokens]
  /\ \E k \in Nat : Remembers(k)

\* The budget forgets the stamps that are older than the window, from the first.
LEMMA Forgets ==
  ASSUME NEW s \in Seq(0..CallClock), reNow \in 0..CallClock
  PROVE  \E n \in 0..Len(s) :
           /\ RE!Live(s) \in Seq(0..CallClock) /\ Len(RE!Live(s)) = Len(s) - n
           /\ \A i \in 1..Len(s) - n : RE!Live(s)[i] = s[n + i]
           /\ \A i \in 1..n : reNow - s[i] > WindowSeconds
  <1>1. Len(s) \in Nat /\ \A i \in 1..Len(s) : s[i] \in 0..CallClock
    <2>1. s \in Seq(0..CallClock)
      OBVIOUS
    <2>2. Len(s) \in Nat
      BY <2>1
    <2>3. \A i \in 1..Len(s) : s[i] \in 0..CallClock
      BY <2>1, ElementOfSeq
    <2> QED
      BY <2>2, <2>3
  <1> DEFINE Expired(i) == reNow - s[i] > WindowSeconds
             Gone(n) == /\ \A i \in 1..n : reNow - s[i] > WindowSeconds
                        /\ n < Len(s) => ~(reNow - s[n + 1] > WindowSeconds)
             T == {n \in 0..Len(s) : n < Len(s) => ~Expired(n + 1)}
  <1>2. \E n \in 0..Len(s) : Gone(n)
    <2>1. Len(s) \in T /\ T \in SUBSET Nat
      BY <1>1
    <2>2. PICK n \in T : \A v \in T : n <= v
      BY <2>1, LeastNumber
    <2>3. n \in 0..Len(s) /\ n \in Nat
      BY <1>1, <2>2
    <2>4. \A i \in 1..n : Expired(i)
      <3> TAKE i \in 1..n
      <3>1. i - 1 \in Nat /\ i - 1 < n /\ i - 1 \in 0..Len(s) /\ i - 1 < Len(s) /\ (i - 1) + 1 = i
        BY <1>1, <2>3
      <3>2. i - 1 \notin T
        BY <2>2, <2>3, <3>1
      <3> QED
        BY <3>1, <3>2
    <2>5. n < Len(s) => ~Expired(n + 1)
      BY <2>2
    <2> QED
      BY <2>3, <2>4, <2>5
  <1>3. PICK g : g = CHOOSE n \in 0..Len(s) : Gone(n)
    OBVIOUS
  <1>4. g \in 0..Len(s) /\ Gone(g)
    BY <1>2, <1>3
  <1>5. RE!Live(s) = SubSeq(s, g + 1, Len(s))
    BY <1>3 DEF RE!Live
  <1>6. g \in Int /\ Len(s) \in Int /\ 0 <= g /\ g <= Len(s)
    BY <1>1, <1>4
  <1> HIDE DEF Gone, Expired, T
  <1>7. g + 1 \in Int /\ \A i \in g + 1..Len(s) : s[i] \in 0..CallClock
    BY <1>1, <1>6
  <1>8. PICK v : v = SubSeq(s, g + 1, Len(s))
    OBVIOUS
  <1>9. /\ v \in Seq(0..CallClock)
        /\ Len(v) = IF g + 1 <= Len(s) THEN Len(s) - (g + 1) + 1 ELSE 0
        /\ \A i \in 1..Len(s) - (g + 1) + 1 : v[i] = s[(g + 1) + i - 1]
    BY <1>6, <1>7, <1>8, SubSeqProperties
  <1>10. Len(v) = Len(s) - g
    <2>1. CASE g + 1 <= Len(s)
      <3>1. Len(v) = Len(s) - (g + 1) + 1
        BY <1>9, <2>1
      <3> QED
        BY <1>6, <3>1
    <2>2. CASE ~(g + 1 <= Len(s))
      <3>1. Len(v) = 0
        BY <1>9, <2>2
      <3>2. g = Len(s)
        BY <1>6, <2>2
      <3> QED
        BY <1>6, <3>1, <3>2
    <2> QED
      BY <2>1, <2>2
  <1>11. \A i \in 1..Len(s) - g : v[i] = s[g + i]
    <2> TAKE i \in 1..Len(s) - g
    <2>1. i \in 1..Len(s) - (g + 1) + 1 /\ (g + 1) + i - 1 = g + i
      BY <1>6
    <2> QED
      BY <1>9, <2>1
  <1>12. \A i \in 1..g : reNow - s[i] > WindowSeconds
    BY <1>4 DEF Gone
  <1>13. RE!Live(s) = v
    BY <1>5, <1>8
  <1> QED
    BY <1>4, <1>9, <1>10, <1>11, <1>12, <1>13

\* What the budget holds once it has forgotten.
LEMMA LiveIsRecent ==
  ASSUME BudgetInv
  PROVE  /\ RE!Live(reTimestamps) \in Seq(0..CallClock)
         /\ \E k \in 0..Len(reRetries) :
              /\ Len(RE!Live(reTimestamps)) = Len(reRetries) - k
              /\ \A i \in 1..Len(reRetries) - k : RE!Live(reTimestamps)[i] = reRetries[k + i]
              /\ \A i \in 1..k : reRetries[i] + WindowSeconds < reNow
  <1> USE CallsAssumption
  <1>1. /\ reNow \in 0..CallClock /\ reTimestamps \in Seq(0..CallClock) /\ reRetries \in Seq(0..CallClock)
    BY DEF BudgetInv
  <1>2. PICK k \in Nat : Remembers(k)
    BY DEF BudgetInv
  <1>3. /\ k \in 0..Len(reRetries) /\ Len(reTimestamps) = Len(reRetries) - k
        /\ \A i \in 1..Len(reTimestamps) : reTimestamps[i] = reRetries[k + i]
        /\ \A i \in 1..k : reRetries[i] + WindowSeconds < reNow
    BY <1>2 DEF Remembers
  <1>4. PICK live : live = RE!Live(reTimestamps)
    OBVIOUS
  <1>5. PICK n \in 0..Len(reTimestamps) :
          /\ live \in Seq(0..CallClock) /\ Len(live) = Len(reTimestamps) - n
          /\ \A i \in 1..Len(reTimestamps) - n : live[i] = reTimestamps[n + i]
          /\ \A i \in 1..n : reNow - reTimestamps[i] > WindowSeconds
    BY <1>1, <1>4, Forgets
  <1>6. Len(reRetries) \in Int /\ Len(reTimestamps) \in Int /\ k \in Int /\ n \in Int
    BY <1>1, <1>3, <1>5
  <1>7. 0 <= k /\ k <= Len(reRetries) /\ 0 <= n /\ n <= Len(reTimestamps)
    BY <1>1, <1>3, <1>5
  <1>8. k + n \in 0..Len(reRetries) /\ Len(live) = Len(reRetries) - (k + n)
    BY <1>3, <1>5, <1>6, <1>7
  <1>9. \A i \in 1..Len(reRetries) - (k + n) : live[i] = reRetries[(k + n) + i]
    <2> TAKE i \in 1..Len(reRetries) - (k + n)
    <2>1. i \in 1..Len(reTimestamps) - n /\ n + i \in 1..Len(reTimestamps) /\ k + (n + i) = (k + n) + i
      BY <1>3, <1>6, <1>7
    <2>2. live[i] = reTimestamps[n + i]
      BY <1>5, <2>1
    <2>3. reTimestamps[n + i] = reRetries[k + (n + i)]
      BY <1>3, <2>1
    <2> QED
      BY <2>1, <2>2, <2>3
  <1>10. \A i \in 1..k + n : reRetries[i] + WindowSeconds < reNow
    <2> TAKE i \in 1..k + n
    <2>1. CASE i <= k
      <3>1. i \in 1..k
        BY <1>6, <1>7, <2>1
      <3> QED
        BY <1>3, <3>1
    <2>2. CASE ~(i <= k)
      <3>1. i - k \in 1..n /\ i - k \in 1..Len(reTimestamps) /\ k + (i - k) = i
        BY <1>6, <1>7, <2>2
      <3>2. reNow - reTimestamps[i - k] > WindowSeconds
        BY <1>5, <3>1
      <3>3. reTimestamps[i - k] = reRetries[i]
        BY <1>3, <3>1
      <3>4. i \in 1..Len(reRetries) /\ reRetries[i] \in 0..CallClock
        BY <1>1, <1>3, <1>6, <1>7, <3>1
      <3>5. reNow - reRetries[i] > WindowSeconds
        BY <3>2, <3>3
      <3> QED
        BY <1>1, <3>4, <3>5, CallsAssumption
    <2> QED
      BY <2>1, <2>2
  <1>11. live \in Seq(0..CallClock)
    BY <1>5
  <1> QED
    BY <1>4, <1>8, <1>9, <1>10, <1>11

\* Time passes.
LEMMA TickKeepsBudget ==
  ASSUME BudgetInv, RE!Tick PROVE BudgetInv'
  <1> USE CallsAssumption
  <1>1. reNow \in 0..CallClock /\ reNow' \in 0..CallClock /\ reNow <= reNow' /\ UNCHANGED <<reTimestamps, reRetries>>
    BY DEF BudgetInv, RE!Tick, RE!budgetVars
  <1>2. /\ reTimestamps \in Seq(0..CallClock) /\ reRetries \in Seq(0..CallClock)
        /\ \A i \in 1..Len(reRetries) : reRetries[i] <= reNow
        /\ \A i, j \in 1..Len(reRetries) : i <= j => reRetries[i] <= reRetries[j]
        /\ \A i \in 1..Len(reRetries) :
             i + MaxRetryTokens <= Len(reRetries)
               => reRetries[i] + WindowSeconds < reRetries[i + MaxRetryTokens]
    BY DEF BudgetInv
  <1>3. Len(reRetries) \in Int /\ \A i \in 1..Len(reRetries) : reRetries[i] \in Int
    BY <1>2
  <1>4. PICK k \in Nat : Remembers(k)
    BY DEF BudgetInv
  <1>5. /\ k \in 0..Len(reRetries) /\ Len(reTimestamps) = Len(reRetries) - k
        /\ \A i \in 1..Len(reTimestamps) : reTimestamps[i] = reRetries[k + i]
        /\ \A i \in 1..k : reRetries[i] + WindowSeconds < reNow
    BY <1>4 DEF Remembers
  <1>6. \A i \in 1..k : i \in 1..Len(reRetries)
    BY <1>3, <1>5
  <1>7. \A i \in 1..k : reRetries[i] + WindowSeconds < reNow'
    BY <1>1, <1>3, <1>5, <1>6
  <1>8. Remembers(k)'
    BY <1>1, <1>5, <1>7 DEF Remembers
  <1>9. \A i \in 1..Len(reRetries) : reRetries[i] <= reNow'
    BY <1>1, <1>2, <1>3
  <1>10. \E j \in Nat : Remembers(j)'
    BY <1>8
  <1> QED
    BY <1>1, <1>2, <1>9, <1>10 DEF BudgetInv

\* A call asks the budget for a retry.
LEMMA ConsumeKeepsBudget ==
  ASSUME BudgetInv, NEW c \in Calls, RE!ConsumeRetry(c) PROVE BudgetInv'
  <1> USE CallsAssumption
  <1>1. /\ reNow \in 0..CallClock /\ reNow' = reNow /\ reRetries \in Seq(0..CallClock)
        /\ \A i \in 1..Len(reRetries) : reRetries[i] <= reNow
        /\ \A i, j \in 1..Len(reRetries) : i <= j => reRetries[i] <= reRetries[j]
        /\ \A i \in 1..Len(reRetries) :
             i + MaxRetryTokens <= Len(reRetries)
               => reRetries[i] + WindowSeconds < reRetries[i + MaxRetryTokens]
    BY DEF BudgetInv, RE!ConsumeRetry
  <1>2. PICK live : live = RE!Live(reTimestamps)
    OBVIOUS
  <1>3. PICK k \in 0..Len(reRetries) :
          /\ live \in Seq(0..CallClock) /\ Len(live) = Len(reRetries) - k
          /\ \A i \in 1..Len(reRetries) - k : live[i] = reRetries[k + i]
          /\ \A i \in 1..k : reRetries[i] + WindowSeconds < reNow
    BY <1>2, LiveIsRecent
  <1>4. Len(reRetries) \in Int /\ k \in Nat /\ k <= Len(reRetries) /\ Len(live) \in Int
    BY <1>1, <1>3
  <1>5. CASE Len(live) >= MaxRetryTokens
    <2>1. reTimestamps' = live /\ reRetries' = reRetries
      BY <1>2, <1>5 DEF RE!ConsumeRetry
    <2>2. Remembers(k)'
      BY <1>1, <1>3, <2>1 DEF Remembers
    <2>3. \E j \in Nat : Remembers(j)'
      BY <1>4, <2>2
    <2>4. /\ reNow' \in 0..CallClock /\ reTimestamps' \in Seq(0..CallClock) /\ reRetries' \in Seq(0..CallClock)
          /\ \A i \in 1..Len(reRetries') : reRetries'[i] <= reNow'
      BY <1>1, <1>3, <2>1
    <2> QED
      BY <1>1, <2>1, <2>3, <2>4 DEF BudgetInv
  <1>6. CASE ~(Len(live) >= MaxRetryTokens)
    <2>1. reTimestamps' = Append(live, reNow) /\ reRetries' = Append(reRetries, reNow)
      BY <1>2, <1>6 DEF RE!ConsumeRetry
    <2>2. PICK r : r = reRetries'
      OBVIOUS
    <2>3. PICK s : s = reTimestamps'
      OBVIOUS
    <2>4. PICK m : m = Len(reRetries) + 1
      OBVIOUS
    <2>5. /\ r \in Seq(0..CallClock) /\ Len(r) = m /\ r[m] = reNow
          /\ \A i \in 1..Len(reRetries) : r[i] = reRetries[i]
      BY <1>1, <2>1, <2>2, <2>4, AppendProperties
    <2>6. /\ s \in Seq(0..CallClock) /\ Len(s) = Len(live) + 1 /\ s[Len(live) + 1] = reNow
          /\ \A i \in 1..Len(live) : s[i] = live[i]
      BY <1>1, <1>3, <2>1, <2>3, AppendProperties
    <2>7. \A i \in 1..Len(reRetries) : reRetries[i] \in 0..CallClock
      BY <1>1
    <2>8. m \in Int /\ m = Len(reRetries) + 1 /\ \A i \in 1..m : i = m \/ i \in 1..Len(reRetries)
      BY <1>4, <2>4
    <2>9. \A i \in 1..m : r[i] <= reNow
      <3> TAKE i \in 1..m
      <3>1. CASE i = m
        BY <1>1, <2>5, <3>1
      <3>2. CASE i \in 1..Len(reRetries)
        BY <1>1, <2>5, <3>2
      <3> QED
        BY <2>8, <3>1, <3>2
    <2>10. \A i, j \in 1..m : i <= j => r[i] <= r[j]
      <3> SUFFICES ASSUME NEW i \in 1..m, NEW j \in 1..m, i <= j PROVE r[i] <= r[j]
        OBVIOUS
      <3>1. CASE j = m
        BY <2>5, <2>9, <3>1
      <3>2. CASE j \in 1..Len(reRetries)
        <4>1. i \in 1..Len(reRetries)
          BY <2>8, <3>2
        <4> QED
          BY <1>1, <2>5, <3>2, <4>1
      <3> QED
        BY <2>8, <3>1, <3>2
    <2>11. \A i \in 1..m : i + MaxRetryTokens <= m => r[i] + WindowSeconds < r[i + MaxRetryTokens]
      <3> SUFFICES ASSUME NEW i \in 1..m, i + MaxRetryTokens <= m
                   PROVE  r[i] + WindowSeconds < r[i + MaxRetryTokens]
        OBVIOUS
      <3>1. i \in Int /\ 1 <= i /\ i \in 1..Len(reRetries)
        BY <2>8
      <3>2. r[i] = reRetries[i]
        BY <2>5, <3>1
      <3>3. CASE i + MaxRetryTokens = m
        <4>1. i \in 1..k
          BY <1>3, <1>4, <1>6, <2>8, <3>1, <3>3
        <4>2. reRetries[i] + WindowSeconds < reNow
          BY <1>3, <4>1
        <4> QED
          BY <2>5, <3>2, <3>3, <4>2
      <3>4. CASE i + MaxRetryTokens # m
        <4>1. i + MaxRetryTokens \in 1..Len(reRetries) /\ i + MaxRetryTokens <= Len(reRetries)
          BY <1>4, <2>8, <3>1, <3>4
        <4>2. r[i + MaxRetryTokens] = reRetries[i + MaxRetryTokens]
          BY <2>5, <4>1
        <4>3. reRetries[i] + WindowSeconds < reRetries[i + MaxRetryTokens]
          BY <1>1, <3>1, <4>1
        <4> QED
          BY <3>2, <4>2, <4>3
      <3> QED
        BY <3>3, <3>4
    <2>12. k \in 0..Len(r) /\ Len(s) = Len(r) - k
      BY <1>3, <1>4, <2>5, <2>6, <2>8
    <2>13. \A i \in 1..Len(s) : s[i] = r[k + i]
      <3> TAKE i \in 1..Len(s)
      <3>1. CASE i = Len(live) + 1
        <4>1. k + i = m
          BY <1>3, <1>4, <2>8, <3>1
        <4> QED
          BY <2>5, <2>6, <3>1, <4>1
      <3>2. CASE i # Len(live) + 1
        <4>1. i \in Int /\ 1 <= i /\ i <= Len(live) + 1
          BY <1>4, <2>6
        <4>2. i <= Len(live)
          BY <1>4, <3>2, <4>1
        <4>3. Len(live) = Len(reRetries) - k
          BY <1>3
        <4>4. i \in 1..Len(live) /\ i \in 1..Len(reRetries) - k /\ k + i \in 1..Len(reRetries)
          BY <1>4, <4>1, <4>2, <4>3
        <4> QED
          BY <1>3, <2>5, <2>6, <4>4
      <3> QED
        BY <3>1, <3>2
    <2>14. \A i \in 1..k : r[i] + WindowSeconds < reNow
      <3> TAKE i \in 1..k
      <3>1. i \in 1..Len(reRetries)
        BY <1>4
      <3> QED
        BY <1>3, <2>5, <3>1
    <2>15. Remembers(k)'
      BY <1>1, <2>2, <2>3, <2>12, <2>13, <2>14 DEF Remembers
    <2>16. \E j \in Nat : Remembers(j)'
      BY <1>4, <2>15
    <2> QED
      BY <1>1, <2>2, <2>3, <2>5, <2>6, <2>9, <2>10, <2>11, <2>16 DEF BudgetInv
  <1> QED
    BY <1>5, <1>6

\* No window holds more retries than the budget: the first and the last in it
\* are fewer than MaxRetryTokens apart.
LEMMA BudgetIsKept ==
  ASSUME BudgetInv PROVE RE!BudgetHolds
  <1> USE CallsAssumption
  <1>1. /\ reRetries \in Seq(0..CallClock)
        /\ \A i, j \in 1..Len(reRetries) : i <= j => reRetries[i] <= reRetries[j]
        /\ \A i \in 1..Len(reRetries) :
             i + MaxRetryTokens <= Len(reRetries)
               => reRetries[i] + WindowSeconds < reRetries[i + MaxRetryTokens]
    BY DEF BudgetInv
  <1>2. /\ Len(reRetries) \in Int /\ DOMAIN reRetries = 1..Len(reRetries)
        /\ \A i \in 1..Len(reRetries) : reRetries[i] \in Int
    BY <1>1
  <1> SUFFICES ASSUME NEW t \in 0..CallClock
               PROVE  Cardinality({i \in DOMAIN reRetries :
                                     t <= reRetries[i] /\ reRetries[i] <= t + WindowSeconds})
                        <= MaxRetryTokens
    BY FiniteIsFinite DEF RE!BudgetHolds
  <1>3. PICK window :
          window = {i \in DOMAIN reRetries : t <= reRetries[i] /\ reRetries[i] <= t + WindowSeconds}
    OBVIOUS
  <1>4. CASE window = {}
    <2>1. Cardinality(window) = 0
      BY <1>4, FS_EmptySet
    <2> QED
      BY <1>3, <2>1
  <1>5. CASE window # {}
    <2>1. window \in SUBSET Nat
      BY <1>2, <1>3
    <2>2. PICK a \in window : \A i \in window : a <= i
      BY <1>5, <2>1, LeastNumber
    <2>3. a \in 1..Len(reRetries) /\ a \in Int /\ t <= reRetries[a]
      BY <1>2, <1>3, <2>2
    <2>4. \A i \in window : i \in a..(a + MaxRetryTokens - 1)
      <3> TAKE i \in window
      <3>1. i \in 1..Len(reRetries) /\ i \in Int /\ reRetries[i] <= t + WindowSeconds /\ a <= i
        BY <1>2, <1>3, <2>2
      <3>2. ASSUME i >= a + MaxRetryTokens PROVE FALSE
        <4>1. a + MaxRetryTokens \in 1..Len(reRetries) /\ a + MaxRetryTokens <= Len(reRetries)
          BY <1>2, <2>3, <3>1, <3>2
        <4>2. reRetries[a] + WindowSeconds < reRetries[a + MaxRetryTokens]
          BY <1>1, <2>3, <4>1
        <4>3. reRetries[a + MaxRetryTokens] <= reRetries[i]
          BY <1>1, <3>1, <3>2, <4>1
        <4>4. reRetries[a] \in Int /\ reRetries[i] \in Int /\ reRetries[a + MaxRetryTokens] \in Int
          BY <1>2, <2>3, <3>1, <4>1
        <4> QED
          BY <2>3, <3>1, <4>2, <4>3, <4>4
      <3> QED
        BY <2>3, <3>1, <3>2
    <2>5. IsFiniteSet(a..(a + MaxRetryTokens - 1))
          /\ Cardinality(a..(a + MaxRetryTokens - 1)) = MaxRetryTokens
      <3>1. a + MaxRetryTokens - 1 \in Int /\ a <= a + MaxRetryTokens - 1
        BY <2>3
      <3>2. /\ IsFiniteSet(a..(a + MaxRetryTokens - 1))
            /\ Cardinality(a..(a + MaxRetryTokens - 1))
                 = IF a > a + MaxRetryTokens - 1 THEN 0 ELSE (a + MaxRetryTokens - 1) - a + 1
        BY <2>3, <3>1, FS_Interval
      <3> QED
        BY <2>3, <3>1, <3>2
    <2>6. window \in SUBSET (a..(a + MaxRetryTokens - 1))
      BY <2>4
    <2>7. Cardinality(window) <= Cardinality(a..(a + MaxRetryTokens - 1))
      BY <2>5, <2>6, FS_Subset
    <2> QED
      BY <1>3, <2>5, <2>7
  <1> QED
    BY <1>4, <1>5
-----------------------------------------------------------------------------
(* Resilience: the invariant.                                              *)

\* A call that asks for a retry has one left.
AttemptOK ==
  /\ reAttempt \in [Calls -> 0..RE!MaxRetries]
  /\ \A c \in Calls : rePc[c] = "retrying" => reAttempt[c] < RE!MaxRetries

CallInv == SlotInv /\ BudgetInv /\ AttemptOK /\ BreakerOK /\ ElapsedOK

\* A call that moves elsewhere asks for no retry.
LEMMA AttemptFrame ==
  ASSUME AttemptOK, rePc \in [Calls -> Places], UNCHANGED reAttempt,
         NEW c \in Calls, NEW place, place # "retrying", RE!Goto(c, place)
  PROVE  AttemptOK'
  BY DEF AttemptOK, RE!Goto

\* It holds before the first call.
LEMMA CallInit ==
  RE!Init => CallInv
  <1> SUFFICES ASSUME RE!Init PROVE CallInv
    OBVIOUS
  <1> USE CallsAssumption
  <1>1. \A c \in Calls : rePc[c] = "new"
    BY DEF RE!Init
  <1>2. RE!Admitted = {} /\ RE!Waiting = {}
    BY <1>1 DEF RE!Admitted, RE!Waiting
  <1>3. IsFiniteSet({}) /\ Cardinality({}) = 0
    BY FS_EmptySet
  <1>4. <<>> \in Queues /\ RE!ToSet(<<>>) = {}
    <2>1. <<>> \in Queues
      BY DEF Queues
    <2> QED
      BY <2>1, QueueFacts
  <1>5. RE!ToSet(reWaiters) = {}
    BY <1>4 DEF RE!Init
  <1>6. rePc \in [Calls -> Places] /\ reWaiters \in Queues
    BY <1>4 DEF RE!Init, Places
  <1>7. SlotInv
    BY <1>2, <1>3, <1>5, <1>6 DEF RE!Init, SlotInv
  <1>8. Remembers(0)
    BY DEF RE!Init, Remembers
  <1>9. BudgetInv
    <2>1. \E k \in Nat : Remembers(k)
      BY <1>8
    <2> QED
      BY <2>1 DEF RE!Init, BudgetInv
  <1>10. AttemptOK
    BY DEF RE!Init, AttemptOK, RE!MaxRetries
  <1>11. BreakerOK /\ ElapsedOK
    <2>1. BreakerOK
      BY DEF RE!Init, BreakerOK
    <2>2. ElapsedOK
      BY DEF RE!Init, ElapsedOK
    <2> QED
      BY <2>1, <2>2
  <1> QED
    BY <1>7, <1>9, <1>10, <1>11 DEF CallInv

\* A step that leaves the budget and the clock alone keeps BudgetInv.
LEMMA BudgetFrame ==
  ASSUME BudgetInv, UNCHANGED <<RE!budgetVars, reNow>> PROVE BudgetInv'
  <1>1. reTimestamps' = reTimestamps /\ reRetries' = reRetries /\ reNow' = reNow
    BY DEF RE!budgetVars
  <1>2. PICK k \in Nat : Remembers(k)
    BY DEF BudgetInv
  <1>3. Remembers(k)'
    BY <1>1, <1>2 DEF Remembers
  <1>4. \E j \in Nat : Remembers(j)'
    BY <1>3
  <1> QED
    BY <1>1, <1>4 DEF BudgetInv

\* So does one that leaves the breaker alone.
LEMMA BreakerFrame ==
  ASSUME BreakerOK, ElapsedOK, UNCHANGED RE!breaker PROVE BreakerOK' /\ ElapsedOK'
  <1>1. BreakerOK'
    BY DEF RE!breaker, BreakerOK
  <1>2. ElapsedOK'
    BY DEF RE!breaker, ElapsedOK
  <1> QED
    BY <1>1, <1>2

\* Where a call that holds a slot is, and how calls end.
LEMMA BusyPlaces ==
  /\ "admitted" \in Busy /\ "calling" \in Busy /\ "retrying" \in Busy /\ "sleeping" \in Busy
  /\ "ok" \in RE!Outcomes /\ "error" \in RE!Outcomes /\ "circuit_open" \in RE!Outcomes
  /\ "budget" \in RE!Outcomes /\ "cancelled" \in RE!Outcomes
  BY DEF Busy, RE!Outcomes

\* A step of a call.
LEMMA StepKeeps ==
  ASSUME CallInv, NEW c \in Calls, RE!CallStep(c) \/ RE!Cancelled(c) PROVE CallInv'
  <1> USE CallsAssumption
  <1>1. SlotInv /\ BudgetInv /\ AttemptOK /\ BreakerOK /\ ElapsedOK
    BY DEF CallInv
  <1>2. CASE RE!Run(c)
    <2>1. UNCHANGED <<reAttempt, RE!budgetVars, reNow, RE!breaker>>
      BY <1>2 DEF RE!Run
    <2>2. AttemptOK'
      <3>1. PICK place : place # "retrying" /\ RE!Goto(c, place)
        BY <1>2 DEF RE!Run
      <3> QED
        BY <1>1, <2>1, <3>1, AttemptFrame DEF SlotInv
    <2>3. SlotInv'
      BY <1>1, <1>2, RunKeeps
    <2> QED
      BY <1>1, <2>1, <2>2, <2>3, BudgetFrame, BreakerFrame DEF CallInv
  <1>3. CASE RE!Wake(c)
    <2>1. UNCHANGED <<reAttempt, RE!budgetVars, reNow, RE!breaker>>
      BY <1>3 DEF RE!Wake
    <2>2. AttemptOK'
      <3>1. CASE RE!Rechecks
        <4>1. rePc' = rePc
          BY <1>3, <3>1 DEF RE!Wake
        <4> QED
          BY <1>1, <2>1, <4>1 DEF AttemptOK
      <3>2. CASE ~RE!Rechecks
        <4>1. RE!Goto(c, "admitted")
          BY <1>3, <3>2 DEF RE!Wake
        <4> QED
          BY <1>1, <2>1, <4>1, AttemptFrame DEF SlotInv
      <3> QED
        BY <3>1, <3>2
    <2>3. SlotInv'
      BY <1>1, <1>3, WakeKeeps
    <2> QED
      BY <1>1, <2>1, <2>2, <2>3, BudgetFrame, BreakerFrame DEF CallInv
  <1>4. CASE RE!CancelWaiting(c)
    <2>1. UNCHANGED <<reAttempt, RE!budgetVars, reNow, RE!breaker>>
      BY <1>4 DEF RE!CancelWaiting
    <2>2. AttemptOK'
      <3>1. PICK place : place # "retrying" /\ RE!Goto(c, place)
        BY <1>4 DEF RE!CancelWaiting
      <3> QED
        BY <1>1, <2>1, <3>1, AttemptFrame DEF SlotInv
    <2>3. SlotInv'
      BY <1>1, <1>4, CancelWaitingKeeps
    <2> QED
      BY <1>1, <2>1, <2>2, <2>3, BudgetFrame, BreakerFrame DEF CallInv
  <1>5. CASE RE!Attempt(c)
    <2>1. UNCHANGED <<reAttempt, RE!budgetVars, reNow>> /\ rePc[c] \in Busy
      BY <1>5, BusyPlaces DEF RE!Attempt
    <2>2. AttemptOK'
      <3>1. PICK place : place # "retrying" /\ RE!Goto(c, place)
        BY <1>5 DEF RE!Attempt, RE!End
      <3> QED
        BY <1>1, <2>1, <3>1, AttemptFrame DEF SlotInv
    <2>3. CASE reBreakerState = "open" /\ ~reElapsed
      <3>1. RE!End(c, "circuit_open") /\ UNCHANGED RE!breaker
        BY <1>5, <2>3 DEF RE!Attempt
      <3>2. SlotInv'
        BY <1>1, <2>1, <3>1, EndFrees, BusyPlaces
      <3> QED
        BY <1>1, <2>1, <2>2, <3>1, <3>2, BudgetFrame, BreakerFrame DEF CallInv
    <2>4. CASE ~(reBreakerState = "open" /\ ~reElapsed)
      <3>1. /\ RE!Goto(c, "calling") /\ UNCHANGED RE!bulkheadVars
            /\ IF reBreakerState = "open"
               THEN /\ reBreakerState' = "half_open" /\ reBreakerSuccesses' = 0
                    /\ UNCHANGED <<reBreakerFailures, reElapsed>>
               ELSE UNCHANGED RE!breaker
        BY <1>5, <2>4 DEF RE!Attempt
      <3>2. SlotInv'
        BY <1>1, <2>1, <3>1, KeepsSlot, BusyPlaces
      <3>3. BreakerOK'
        <4>1. CASE reBreakerState = "open"
          BY <1>1, <3>1, <4>1 DEF BreakerOK
        <4>2. CASE reBreakerState # "open"
          BY <1>1, <3>1, <4>2, BreakerFrame
        <4> QED
          BY <4>1, <4>2
      <3>4. ElapsedOK'
        <4>1. reElapsed' = reElapsed
          BY <3>1 DEF RE!breaker
        <4> QED
          BY <1>1, <4>1 DEF ElapsedOK
      <3> QED
        BY <1>1, <2>1, <2>2, <3>2, <3>3, <3>4, BudgetFrame DEF CallInv
    <2> QED
      BY <2>3, <2>4
  <1>6. CASE RE!Succeeds(c)
    <2>1. /\ UNCHANGED <<reAttempt, RE!budgetVars, reNow>> /\ rePc[c] \in Busy
          /\ RE!B!ObservationSuccess /\ RE!End(c, "ok")
      BY <1>6, BusyPlaces DEF RE!Succeeds
    <2>2. AttemptOK'
      <3>1. PICK place : place # "retrying" /\ RE!Goto(c, place)
        BY <1>6 DEF RE!Succeeds, RE!End
      <3> QED
        BY <1>1, <2>1, <3>1, AttemptFrame DEF SlotInv
    <2>3. SlotInv'
      BY <1>1, <2>1, EndFrees, BusyPlaces
    <2>4. BreakerOK' /\ ElapsedOK'
      BY <1>1, <2>1, BreakerReports
    <2> QED
      BY <1>1, <2>1, <2>2, <2>3, <2>4, BudgetFrame DEF CallInv
  <1>7. CASE RE!FailsForGood(c)
    <2>1. UNCHANGED <<reAttempt, RE!budgetVars, reNow, RE!breaker>> /\ rePc[c] \in Busy /\ RE!End(c, "error")
      BY <1>7, BusyPlaces DEF RE!FailsForGood
    <2>2. AttemptOK'
      <3>1. PICK place : place # "retrying" /\ RE!Goto(c, place)
        BY <1>7 DEF RE!FailsForGood, RE!End
      <3> QED
        BY <1>1, <2>1, <3>1, AttemptFrame DEF SlotInv
    <2>3. SlotInv'
      BY <1>1, <2>1, EndFrees, BusyPlaces
    <2> QED
      BY <1>1, <2>1, <2>2, <2>3, BudgetFrame, BreakerFrame DEF CallInv
  <1>8. CASE RE!FailsTransiently(c)
    <2>1. UNCHANGED <<reAttempt, RE!budgetVars, reNow>> /\ rePc[c] \in Busy /\ RE!B!ObservationFailure
      BY <1>8, BusyPlaces DEF RE!FailsTransiently
    <2>2. SlotInv' /\ AttemptOK'
      <3>1. CASE reAttempt[c] < RE!MaxRetries
        <4>1. RE!Goto(c, "retrying") /\ UNCHANGED RE!bulkheadVars
          BY <1>8, <3>1 DEF RE!FailsTransiently
        <4>2. SlotInv'
          BY <1>1, <2>1, <4>1, KeepsSlot, BusyPlaces
        <4>3. \A d \in Calls : rePc'[d] = "retrying" => d = c \/ rePc[d] = "retrying"
          BY <1>1, <4>1 DEF RE!Goto, SlotInv
        <4>4. AttemptOK'
          BY <1>1, <2>1, <3>1, <4>3 DEF AttemptOK
        <4> QED
          BY <4>2, <4>4
      <3>2. CASE ~(reAttempt[c] < RE!MaxRetries)
        <4>1. RE!End(c, "error")
          BY <1>8, <3>2 DEF RE!FailsTransiently
        <4>2. SlotInv'
          BY <1>1, <2>1, <4>1, EndFrees, BusyPlaces
        <4>3. AttemptOK'
          BY <1>1, <2>1, <4>1, AttemptFrame DEF SlotInv, RE!End
        <4> QED
          BY <4>2, <4>3
      <3> QED
        BY <3>1, <3>2
    <2>3. BreakerOK' /\ ElapsedOK'
      BY <1>1, <2>1, BreakerReports
    <2> QED
      BY <1>1, <2>1, <2>2, <2>3, BudgetFrame DEF CallInv
  <1>9. CASE RE!ConsumeRetry(c)
    <2>1. UNCHANGED <<reNow, RE!breaker>> /\ rePc[c] = "retrying" /\ rePc[c] \in Busy
      BY <1>9, BusyPlaces DEF RE!ConsumeRetry
    <2>2. BudgetInv'
      BY <1>1, <1>9, ConsumeKeepsBudget
    <2>3. CASE Len(RE!Live(reTimestamps)) >= MaxRetryTokens
      <3>1. RE!End(c, "budget") /\ reAttempt' = reAttempt
        BY <1>9, <2>3 DEF RE!ConsumeRetry
      <3>2. SlotInv'
        BY <1>1, <2>1, <3>1, EndFrees, BusyPlaces
      <3>3. AttemptOK'
        BY <1>1, <3>1, AttemptFrame DEF SlotInv, RE!End
      <3> QED
        BY <1>1, <2>1, <2>2, <3>2, <3>3, BreakerFrame DEF CallInv
    <2>4. CASE ~(Len(RE!Live(reTimestamps)) >= MaxRetryTokens)
      <3>1. /\ reAttempt' = [reAttempt EXCEPT ![c] = reAttempt[c] + 1]
            /\ RE!Goto(c, "sleeping") /\ UNCHANGED RE!bulkheadVars
        BY <1>9, <2>4 DEF RE!ConsumeRetry
      <3>2. SlotInv'
        BY <1>1, <2>1, <3>1, KeepsSlot, BusyPlaces
      <3>3. AttemptOK'
        <4>1. reAttempt[c] < RE!MaxRetries /\ reAttempt \in [Calls -> 0..RE!MaxRetries]
          BY <1>1, <2>1 DEF AttemptOK
        <4>2. reAttempt[c] + 1 \in 0..RE!MaxRetries
          BY <4>1 DEF RE!MaxRetries
        <4>3. reAttempt' \in [Calls -> 0..RE!MaxRetries]
          BY <3>1, <4>1, <4>2
        <4>4. rePc'[c] = "sleeping" /\ \A d \in Calls : d # c => rePc'[d] = rePc[d] /\ reAttempt'[d] = reAttempt[d]
          BY <1>1, <3>1, <4>1 DEF RE!Goto, SlotInv
        <4>5. \A d \in Calls : rePc'[d] = "retrying" => reAttempt'[d] < RE!MaxRetries
          BY <1>1, <4>4 DEF AttemptOK
        <4> QED
          BY <4>3, <4>5 DEF AttemptOK
      <3> QED
        BY <1>1, <2>1, <2>2, <3>2, <3>3, BreakerFrame DEF CallInv
    <2> QED
      BY <2>3, <2>4
  <1>10. CASE RE!Slept(c)
    <2>1. /\ UNCHANGED <<reAttempt, RE!bulkheadVars, RE!budgetVars, reNow, RE!breaker>>
          /\ rePc[c] \in Busy /\ RE!Goto(c, "admitted")
      BY <1>10, BusyPlaces DEF RE!Slept
    <2>2. AttemptOK'
      <3>1. PICK place : place # "retrying" /\ RE!Goto(c, place)
        BY <1>10 DEF RE!Slept
      <3> QED
        BY <1>1, <2>1, <3>1, AttemptFrame DEF SlotInv
    <2>3. SlotInv'
      BY <1>1, <2>1, KeepsSlot, BusyPlaces
    <2> QED
      BY <1>1, <2>1, <2>2, <2>3, BudgetFrame, BreakerFrame DEF CallInv
  <1>11. CASE RE!CancelRunning(c)
    <2>1. UNCHANGED <<reAttempt, RE!budgetVars, reNow, RE!breaker>> /\ rePc[c] \in Busy /\ RE!End(c, "cancelled")
      BY <1>11, BusyPlaces DEF RE!CancelRunning
    <2>2. AttemptOK'
      <3>1. PICK place : place # "retrying" /\ RE!Goto(c, place)
        BY <1>11 DEF RE!CancelRunning, RE!End
      <3> QED
        BY <1>1, <2>1, <3>1, AttemptFrame DEF SlotInv
    <2>3. SlotInv'
      BY <1>1, <2>1, EndFrees, BusyPlaces
    <2> QED
      BY <1>1, <2>1, <2>2, <2>3, BudgetFrame, BreakerFrame DEF CallInv
  <1> QED
    BY <1>2, <1>3, <1>4, <1>5, <1>6, <1>7, <1>8, <1>9, <1>10, <1>11 DEF RE!CallStep, RE!Cancelled

\* Every step keeps the invariant.
LEMMA CallNext ==
  ASSUME CallInv, [RE!Next]_(RE!resilienceVars) PROVE CallInv'
  <1> USE CallsAssumption
  <1>1. CASE RE!Tick
    <2>1. SlotInv /\ BudgetInv /\ AttemptOK /\ BreakerOK /\ ElapsedOK
      BY DEF CallInv
    <2>2. /\ UNCHANGED <<rePc, reAttempt, RE!bulkheadVars, reBreakerState, reBreakerFailures, reBreakerSuccesses>>
          /\ reElapsed' \in {reElapsed, reBreakerState = "open"}
      BY <1>1 DEF RE!Tick
    <2>3. reInflight' = reInflight /\ reWaiting' = reWaiting /\ reWaiters' = reWaiters /\ reNotified' = reNotified
      BY <2>2 DEF RE!bulkheadVars
    <2>4. RE!Admitted' = RE!Admitted /\ RE!Waiting' = RE!Waiting /\ RE!ToSet(reWaiters)' = RE!ToSet(reWaiters)
      BY <2>2, <2>3 DEF RE!Admitted, RE!Waiting, RE!ToSet
    <2>5. SlotInv'
      BY <2>1, <2>2, <2>3, <2>4 DEF SlotInv
    <2>6. BreakerOK'
      BY <2>1, <2>2 DEF BreakerOK
    <2>7. ElapsedOK'
      BY <2>1, <2>2 DEF ElapsedOK
    <2>8. BudgetInv'
      BY <1>1, <2>1, TickKeepsBudget
    <2>9. AttemptOK'
      BY <2>1, <2>2 DEF AttemptOK
    <2> QED
      BY <2>5, <2>6, <2>7, <2>8, <2>9 DEF CallInv
  <1>2. CASE \E c \in Calls : RE!CallStep(c) \/ RE!Cancelled(c)
    BY <1>2, StepKeeps
  <1>3. CASE UNCHANGED RE!resilienceVars
    <2>1. SlotInv /\ BudgetInv /\ AttemptOK /\ BreakerOK /\ ElapsedOK
      BY DEF CallInv
    <2>2. /\ UNCHANGED <<rePc, reAttempt, reInflight, reWaiting, reWaiters, reNotified, reNow>>
          /\ UNCHANGED RE!budgetVars /\ UNCHANGED RE!breaker
      BY <1>3 DEF RE!resilienceVars, RE!bulkheadVars
    <2>3. RE!Admitted' = RE!Admitted /\ RE!Waiting' = RE!Waiting /\ RE!ToSet(reWaiters)' = RE!ToSet(reWaiters)
      BY <2>2 DEF RE!Admitted, RE!Waiting, RE!ToSet
    <2>4. SlotInv'
      BY <2>1, <2>2, <2>3 DEF SlotInv
    <2>5. AttemptOK'
      BY <2>1, <2>2 DEF AttemptOK
    <2> QED
      BY <2>1, <2>2, <2>4, <2>5, BudgetFrame, BreakerFrame DEF CallInv
  <1> QED
    BY <1>1, <1>2, <1>3 DEF RE!Next

\* What the invariant says of the properties.
LEMMA CallImplies ==
  ASSUME CallInv PROVE RE!TypeOK /\ RE!BudgetHolds /\ RE!SlotsAreUsed
  <1> USE CallsAssumption
  <1>1. SlotInv /\ BudgetInv /\ AttemptOK /\ BreakerOK /\ ElapsedOK
    BY DEF CallInv
  <1>2. reInflight \in Nat /\ reWaiting \in Nat /\ Cardinality(reNotified) \in Nat
    BY <1>1, SlotNumbers
  <1>3. reInflight <= MaxConcurrency /\ reWaiting <= MaxQueue
    BY <1>1 DEF SlotInv
  <1>4. reInflight \in 0..MaxConcurrency /\ reWaiting \in 0..MaxQueue
    BY <1>2, <1>3
  <1>5. reWaiters \in Seq(Calls) /\ reNotified \subseteq Calls /\ rePc \in [Calls -> Places]
    BY <1>1 DEF SlotInv, Queues
  <1>6. RE!TypeOK
    BY <1>1, <1>4, <1>5 DEF BudgetInv, AttemptOK, BreakerOK, ElapsedOK, Places, RE!TypeOK
  <1>7. RE!BudgetHolds
    BY <1>1, BudgetIsKept
  <1>8. reInflight < MaxConcurrency /\ RE!Waiting # {} => reNotified # {}
    <2> SUFFICES ASSUME reInflight < MaxConcurrency, RE!Waiting # {}, reNotified = {} PROVE FALSE
      OBVIOUS
    <2>1. RE!Waiting = RE!ToSet(reWaiters) /\ reWaiters \in Queues
      BY <1>1 DEF SlotInv
    <2>2. reWaiters # <<>>
      BY <2>1, QueueFacts
    <2>3. Cardinality(reNotified) + reInflight >= MaxConcurrency
      BY <1>1, <2>2 DEF SlotInv
    <2>4. Cardinality(reNotified) = 0
      BY FS_EmptySet
    <2> QED
      BY <1>2, <2>3, <2>4
  <1>9. RE!SlotsAreUsed
    BY <1>1, <1>8, FiniteIsFinite DEF SlotInv, RE!SlotsAreUsed
  <1> QED
    BY <1>6, <1>7, <1>9
\* For any number of calls and any sizes: the counters of the bulkhead are the calls
\* that hold a slot and that wait, no slot stays free while every waiter sleeps, and
\* no window holds more retries than the budget (bulkhead.py, retry.py).
THEOREM CallsAreBounded == RE!Spec => [](RE!BudgetHolds /\ RE!SlotsAreUsed)
  <1>1. CallInv => RE!BudgetHolds /\ RE!SlotsAreUsed
    BY CallImplies
  <1>2. CallInv /\ [RE!Next]_(RE!resilienceVars) => CallInv'
    BY CallNext
  <1> QED
    BY <1>1, <1>2, CallInit, PTL DEF RE!Spec

-----------------------------------------------------------------------------
(* JobQueue: every entry of the heap is of a command of its own, so that   *)
(* entries never tie and heappop has a least entry to take; the commands   *)
(* passed over by a start are those whose entries stay in the heap.        *)

\* What Append does to a sequence.
LEMMA AppendFacts ==
  ASSUME NEW S, NEW w \in Seq(S), NEW e \in S
  PROVE  /\ Len(w) \in Nat /\ DOMAIN w = 1..Len(w)
         /\ Append(w, e) \in Seq(S) /\ Len(Append(w, e)) = Len(w) + 1
         /\ \A i \in 1..Len(w) : w[i] \in S /\ Append(w, e)[i] = w[i]
         /\ Append(w, e)[Len(w) + 1] = e
  OBVIOUS

Entries == [priority : JQ!Priorities \cup {JQ!Critical}, command : Nat]
Urgencies == [priority : JQ!Priorities, boost : Nat, after : Nat]
Starts == [command : Nat, at : Nat]

\* Entries of the heap, before and after a rebalance.
HeapOK(h) ==
  /\ IsFiniteSet(h) /\ h \subseteq Entries
  /\ \A e, f \in h : e.command = f.command => e = f

CommandsOf(h) == {e.command : e \in h}

QueueTypes ==
  /\ jqUrgency \in Seq(Urgencies) /\ jqOrder \in Seq(Starts) /\ jqClock \in Nat
  /\ HeapOK(jqHeap)
  /\ jqDoing \in [Runners -> SUBSET (1..Len(jqUrgency))] /\ jqDraining \subseteq Runners
  /\ \A i \in 1..Len(jqUrgency) : jqUrgency[i].after <= Len(jqOrder)

RunningCommands == UNION {jqDoing[r] : r \in Runners}
EndedCommands == jqDone \cup jqRaised \cup jqCancelled

Whereabouts ==
  /\ CommandsOf(jqHeap) \cup JQ!Started = 1..Len(jqUrgency)
  /\ CommandsOf(jqHeap) \cap JQ!Started = {}
  /\ \A i, j \in 1..Len(jqOrder) : jqOrder[i].command = jqOrder[j].command => i = j
  /\ RunningCommands \cup EndedCommands = JQ!Started
  /\ RunningCommands \cap EndedCommands = {}
  /\ \A r, q \in Runners : jqDoing[r] \cap jqDoing[q] # {} => r = q
  /\ jqDone \cap jqRaised = {} /\ (jqDone \cup jqRaised) \cap jqCancelled = {}

QueueInv == QueueTypes /\ Whereabouts /\ JQ!StartsInOrder

\* The queue starts empty.
LEMMA QueueInit == JQ!Init => QueueInv
  <1> SUFFICES ASSUME JQ!Init PROVE QueueInv
    OBVIOUS
  <1>1. IsFiniteSet({})
    BY FS_EmptySet
  <1>2. /\ jqHeap = {} /\ jqUrgency = <<>> /\ jqOrder = <<>> /\ jqClock = 0
        /\ jqDoing = [r \in Runners |-> {}] /\ jqDraining = {}
        /\ jqDone = {} /\ jqRaised = {} /\ jqCancelled = {}
    BY DEF JQ!Init
  <1>3. Len(jqUrgency) = 0 /\ Len(jqOrder) = 0
    BY <1>2
  <1>4. jqUrgency \in Seq(Urgencies) /\ jqOrder \in Seq(Starts)
    BY <1>2
  <1>5. QueueTypes
    BY <1>1, <1>2, <1>3, <1>4 DEF QueueTypes, HeapOK
  <1>6. JQ!Started = {} /\ CommandsOf(jqHeap) = {} /\ RunningCommands = {}
    BY <1>2, <1>3 DEF JQ!Started, CommandsOf, RunningCommands
  <1>7. Whereabouts
    BY <1>2, <1>3, <1>6 DEF Whereabouts, EndedCommands
  <1>8. JQ!StartsInOrder
    BY <1>3 DEF JQ!StartsInOrder
  <1> QED
    BY <1>5, <1>7, <1>8 DEF QueueInv

\* The next command is enqueued behind all starts so far.
LEMMA EnqueueKeeps ==
  ASSUME QueueInv, NEW p \in JQ!Priorities, NEW b \in 1..JQ!Never, JQ!Enqueue(p, b)
  PROVE  QueueInv'
  <1> DEFINE u == [priority |-> p, boost |-> b, after |-> Len(jqOrder)]
             k == Len(jqUrgency) + 1
             n == [priority |-> IF jqClock >= b THEN JQ!Critical ELSE p, command |-> k]
  <1>1. /\ jqUrgency' = Append(jqUrgency, u) /\ jqHeap' = jqHeap \cup {n}
        /\ UNCHANGED <<jqClock, jqDoing, jqDraining, jqDone, jqRaised, jqCancelled, jqOrder>>
    BY DEF JQ!Enqueue, JQ!counter
  <1>2. b \in Nat /\ Len(jqOrder) \in Nat /\ Len(jqUrgency) \in Nat
    BY QueueAssumption DEF JQ!Never, QueueInv, QueueTypes
  <1>3. u \in Urgencies /\ u.after = Len(jqOrder)
    BY <1>2 DEF Urgencies
  <1>4. n \in Entries /\ n.command = k
    BY <1>2 DEF Entries
  <1> HIDE DEF u, n
  <1>5. /\ jqUrgency' \in Seq(Urgencies) /\ Len(jqUrgency)' = k
        /\ DOMAIN jqUrgency = 1..Len(jqUrgency) /\ DOMAIN jqUrgency' = 1..k
        /\ \A i \in 1..Len(jqUrgency) : jqUrgency'[i] = jqUrgency[i]
        /\ jqUrgency'[k] = u
    <2>1. jqUrgency \in Seq(Urgencies)
      BY DEF QueueInv, QueueTypes
    <2> QED
      BY <1>1, <1>3, <2>1, AppendFacts
  <1>6. CommandsOf(jqHeap) \subseteq 1..Len(jqUrgency) /\ k \notin JQ!Started
    BY <1>2 DEF QueueInv, Whereabouts
  <1>7. HeapOK(jqHeap)'
    <2>1. IsFiniteSet(jqHeap \cup {n})
      BY FS_AddElement DEF QueueInv, QueueTypes, HeapOK
    <2>2. \A e \in jqHeap : e.command # k
      BY <1>2, <1>6 DEF CommandsOf
    <2> QED
      BY <1>1, <1>4, <2>1, <2>2 DEF QueueInv, QueueTypes, HeapOK
  <1>8. JQ!Started' = JQ!Started /\ RunningCommands' = RunningCommands
    BY <1>1 DEF JQ!Started, RunningCommands
  <1>9. CommandsOf(jqHeap)' = CommandsOf(jqHeap) \cup {k}
    BY <1>1, <1>4 DEF CommandsOf
  <1>10. QueueTypes'
    <2>1. jqDoing' \in [Runners -> SUBSET (1..k)]
      BY <1>1, <1>2 DEF QueueInv, QueueTypes
    <2>2. \A i \in 1..k : jqUrgency'[i].after <= Len(jqOrder)'
      BY <1>1, <1>2, <1>3, <1>5 DEF QueueInv, QueueTypes
    <2> QED
      BY <1>1, <1>5, <1>7, <2>1, <2>2 DEF QueueInv, QueueTypes
  <1>11. Whereabouts'
    <2>1. /\ CommandsOf(jqHeap)' \cup JQ!Started' = 1..Len(jqUrgency)'
          /\ CommandsOf(jqHeap)' \cap JQ!Started' = {}
      BY <1>2, <1>5, <1>6, <1>8, <1>9 DEF QueueInv, Whereabouts
    <2>2. EndedCommands' = EndedCommands
      BY <1>1 DEF EndedCommands
    <2> QED
      BY <1>1, <1>8, <2>1, <2>2 DEF QueueInv, Whereabouts
  <1>12. JQ!StartsInOrder'
    <2> DEFINE Newly(d, t) == IF t >= jqUrgency'[d].boost THEN JQ!Critical ELSE jqUrgency'[d].priority
    <2> SUFFICES ASSUME NEW i \in 1..Len(jqOrder), NEW c \in 1..k, JQ!PassedOver(c, i)'
                 PROVE  LET first == jqOrder[i].command
                            t == jqOrder[i].at
                        IN \/ Newly(first, t) < Newly(c, t)
                           \/ Newly(first, t) = Newly(c, t) /\ first < c
      <3>1. Len(jqOrder)' = Len(jqOrder) /\ DOMAIN jqUrgency' = 1..k /\ jqOrder' = jqOrder
        BY <1>1, <1>5
      <3> QED
        BY <3>1 DEF JQ!StartsInOrder, JQ!UrgencyAt
    <2>1. c # k
      BY <1>1, <1>2, <1>3, <1>5 DEF JQ!PassedOver
    <2>2. c \in 1..Len(jqUrgency)
      BY <1>2, <2>1
    <2>3. JQ!PassedOver(c, i)
      BY <1>1, <1>5, <2>2 DEF JQ!PassedOver
    <2>4. jqOrder[i].command \in 1..Len(jqUrgency)
      BY DEF QueueInv, Whereabouts, JQ!Started
    <2>5. LET first == jqOrder[i].command
              t == jqOrder[i].at
          IN \/ JQ!UrgencyAt(first, t) < JQ!UrgencyAt(c, t)
             \/ JQ!UrgencyAt(first, t) = JQ!UrgencyAt(c, t) /\ first < c
      BY <1>5, <2>2, <2>3 DEF QueueInv, JQ!StartsInOrder
    <2> QED
      BY <1>5, <2>2, <2>4, <2>5 DEF JQ!UrgencyAt
  <1> QED
    BY <1>10, <1>11, <1>12 DEF QueueInv

\* The priority that a command has by now.
LEMMA EffectiveIsPriority ==
  ASSUME QueueInv, NEW c \in 1..Len(jqUrgency)
  PROVE  JQ!EffectivePriority(c) \in JQ!Priorities \cup {JQ!Critical}
  <1>1. jqUrgency[c] \in Urgencies
    BY DEF QueueInv, QueueTypes
  <1> QED
    BY <1>1 DEF Urgencies, JQ!EffectivePriority, JQ!UrgencyAt

\* A rebalance changes nothing but priorities.
LEMMA RebalanceFacts ==
  ASSUME QueueInv
  PROVE  /\ HeapOK(JQ!Rebalance(jqHeap))
         /\ CommandsOf(JQ!Rebalance(jqHeap)) = CommandsOf(jqHeap)
         /\ \A e \in JQ!Rebalance(jqHeap) : e.priority = JQ!EffectivePriority(e.command)
         /\ jqHeap # {} => JQ!Rebalance(jqHeap) # {}
  <1> DEFINE R(e) == [e EXCEPT !.priority = JQ!EffectivePriority(e.command)]
  <1>1. IsFiniteSet(jqHeap) /\ jqHeap \subseteq Entries
    BY DEF QueueInv, QueueTypes, HeapOK
  <1>2. JQ!Rebalance(jqHeap) = {R(e) : e \in jqHeap}
    BY DEF JQ!Rebalance
  <1>3. \A e \in jqHeap : /\ R(e) \in Entries /\ R(e).command = e.command
                          /\ R(e).priority = JQ!EffectivePriority(e.command)
    <2> TAKE e \in jqHeap
    <2>1. e \in Entries /\ e.command \in 1..Len(jqUrgency)
      BY <1>1 DEF QueueInv, Whereabouts, CommandsOf
    <2>2. JQ!EffectivePriority(e.command) \in JQ!Priorities \cup {JQ!Critical}
      BY <2>1, EffectiveIsPriority
    <2> QED
      BY <2>1, <2>2 DEF Entries
  <1>4. IsFiniteSet(JQ!Rebalance(jqHeap))
    <2>1. PICK m : m = [e \in jqHeap |-> R(e)]
      OBVIOUS
    <2>2. m \in Surjection(jqHeap, JQ!Rebalance(jqHeap))
      BY <1>2, <2>1 DEF Surjection
    <2> QED
      BY <1>1, <2>2, FS_Surjection
  <1> HIDE DEF R
  <1>5. \A f \in JQ!Rebalance(jqHeap) : \E e \in jqHeap : f = R(e)
    BY <1>2
  <1>6. \A e, f \in jqHeap : e.command = f.command => e = f
    BY DEF QueueInv, QueueTypes, HeapOK
  <1>7. \A e, f \in JQ!Rebalance(jqHeap) : e.command = f.command => e = f
    BY <1>3, <1>5, <1>6
  <1>8. \A e \in JQ!Rebalance(jqHeap) : e \in Entries
    BY <1>3, <1>5
  <1>9. \A e \in jqHeap : R(e) \in JQ!Rebalance(jqHeap)
    BY <1>2
  <1>10. CommandsOf(JQ!Rebalance(jqHeap)) = CommandsOf(jqHeap)
    BY <1>3, <1>5, <1>9 DEF CommandsOf
  <1>11. \A e \in JQ!Rebalance(jqHeap) : e.priority = JQ!EffectivePriority(e.command)
    BY <1>3, <1>5
  <1> QED
    BY <1>4, <1>7, <1>8, <1>9, <1>10, <1>11 DEF HeapOK

\* heappop finds an entry that is before all others.
LEMMA LeastExists ==
  ASSUME NEW h, HeapOK(h), h # {}
  PROVE  JQ!Least(h) \in h /\ \A f \in h \ {JQ!Least(h)} : JQ!Before(JQ!Least(h), f)
  <1>1. h \subseteq Entries
    BY DEF HeapOK
  <1>2. \A e \in h : e.priority \in Nat /\ e.command \in Nat
    BY <1>1 DEF Entries, JQ!Priorities, JQ!Critical
  <1>3. PICK e1 \in h : \A f \in h : e1.priority <= f.priority
    <2>1. PICK t \in {e.priority : e \in h} : \A v \in {e.priority : e \in h} : t <= v
      <3>1. {e.priority : e \in h} \in SUBSET Nat /\ {e.priority : e \in h} # {}
        BY <1>2
      <3> QED
        BY <3>1, LeastNumber
    <2> QED
      BY <2>1
  <1>4. PICK same : same = {e \in h : e.priority = e1.priority}
    OBVIOUS
  <1>5. PICK e2 \in same : \A f \in same : e2.command <= f.command
    <2>1. {e.command : e \in same} \in SUBSET Nat /\ {e.command : e \in same} # {}
      BY <1>2, <1>4
    <2>2. PICK t \in {e.command : e \in same} : \A v \in {e.command : e \in same} : t <= v
      BY <2>1, LeastNumber
    <2> QED
      BY <2>2
  <1>6. ASSUME NEW f \in h \ {e2} PROVE JQ!Before(e2, f)
    <2>1. e2 \in h /\ e2.priority = e1.priority /\ f.command # e2.command
      BY <1>4 DEF HeapOK
    <2>2. CASE f.priority = e1.priority
      <3>1. e2.command <= f.command
        BY <1>4, <1>5, <2>2
      <3> QED
        BY <1>2, <2>1, <2>2, <3>1 DEF JQ!Before
    <2>3. CASE f.priority # e1.priority
      BY <1>2, <1>3, <2>1, <2>3 DEF JQ!Before
    <2> QED
      BY <2>2, <2>3
  <1>7. e2 \in h
    BY <1>4
  <1> QED
    BY <1>6, <1>7 DEF JQ!Least

\* What a dequeue takes comes, by the priorities of now, before all that it leaves.
LEMMA DequeueTakes ==
  ASSUME QueueInv, NEW r \in Runners, JQ!Dequeue(r)
  PROVE  \E c \in CommandsOf(jqHeap) :
           /\ HeapOK(jqHeap)' /\ CommandsOf(jqHeap)' = CommandsOf(jqHeap) \ {c}
           /\ jqDoing' = [jqDoing EXCEPT ![r] = {c}]
           /\ jqOrder' = Append(jqOrder, [command |-> c, at |-> jqClock])
           /\ \A d \in CommandsOf(jqHeap) \ {c} :
                \/ JQ!UrgencyAt(c, jqClock) < JQ!UrgencyAt(d, jqClock)
                \/ JQ!UrgencyAt(c, jqClock) = JQ!UrgencyAt(d, jqClock) /\ c < d
  <1> PICK fresh : fresh = JQ!Rebalance(jqHeap)
    OBVIOUS
  <1> PICK first : first = JQ!Least(fresh)
    OBVIOUS
  <1>1. /\ jqHeap # {} /\ jqHeap' = fresh \ {first}
        /\ jqDoing' = [jqDoing EXCEPT ![r] = {first.command}]
        /\ jqOrder' = Append(jqOrder, [command |-> first.command, at |-> jqClock])
    BY DEF JQ!Dequeue
  <1>2. /\ HeapOK(fresh) /\ CommandsOf(fresh) = CommandsOf(jqHeap) /\ fresh # {}
        /\ \A e \in fresh : e.priority = JQ!EffectivePriority(e.command)
    BY <1>1, RebalanceFacts
  <1>3. first \in fresh /\ \A f \in fresh \ {first} : JQ!Before(first, f)
    BY <1>2, LeastExists
  <1>4. HeapOK(fresh \ {first})
    <2>1. IsFiniteSet(fresh \ {first})
      BY <1>2, FS_RemoveElement DEF HeapOK
    <2> QED
      BY <1>2, <2>1 DEF HeapOK
  <1>5. CommandsOf(fresh \ {first}) = CommandsOf(jqHeap) \ {first.command}
    <2>1. \A e \in fresh : e.command = first.command => e = first
      BY <1>2, <1>3 DEF HeapOK
    <2>2. CommandsOf(fresh \ {first}) = CommandsOf(fresh) \ {first.command}
      BY <1>3, <2>1 DEF CommandsOf
    <2> QED
      BY <1>2, <2>2
  <1>6. CommandsOf(jqHeap)' = CommandsOf(fresh \ {first}) /\ HeapOK(jqHeap)' = HeapOK(fresh \ {first})
    BY <1>1 DEF CommandsOf, HeapOK
  <1>7. first.command \in CommandsOf(jqHeap)
    BY <1>2, <1>3 DEF CommandsOf
  <1>8. ASSUME NEW d \in CommandsOf(jqHeap) \ {first.command}
        PROVE  LET c == first.command
               IN \/ JQ!UrgencyAt(c, jqClock) < JQ!UrgencyAt(d, jqClock)
                  \/ JQ!UrgencyAt(c, jqClock) = JQ!UrgencyAt(d, jqClock) /\ c < d
    <2>1. PICK f \in fresh : f.command = d
      BY <1>2 DEF CommandsOf
    <2>2. JQ!Before(first, f)
      BY <1>3, <2>1
    <2>3. f.priority = JQ!UrgencyAt(d, jqClock) /\ first.priority = JQ!UrgencyAt(first.command, jqClock)
      BY <1>2, <1>3, <2>1 DEF JQ!EffectivePriority
    <2> QED
      BY <2>1, <2>2, <2>3 DEF JQ!Before
  <1> WITNESS first.command \in CommandsOf(jqHeap)
  <1> QED
    BY <1>1, <1>4, <1>5, <1>6, <1>8

\* The least entry, by the priorities of now, leaves the heap; what the runner has
\* executed before is done.
LEMMA DequeueKeeps ==
  ASSUME QueueInv, NEW r \in Runners, JQ!Dequeue(r), jqDone' = jqDone \cup jqDoing[r],
         jqDraining' \subseteq Runners, UNCHANGED <<jqUrgency, jqClock, jqRaised, jqCancelled>>
  PROVE  QueueInv'
  <1>1. PICK c \in CommandsOf(jqHeap) :
           /\ HeapOK(jqHeap)' /\ CommandsOf(jqHeap)' = CommandsOf(jqHeap) \ {c}
           /\ jqDoing' = [jqDoing EXCEPT ![r] = {c}]
           /\ jqOrder' = Append(jqOrder, [command |-> c, at |-> jqClock])
           /\ \A d \in CommandsOf(jqHeap) \ {c} :
                \/ JQ!UrgencyAt(c, jqClock) < JQ!UrgencyAt(d, jqClock)
                \/ JQ!UrgencyAt(c, jqClock) = JQ!UrgencyAt(d, jqClock) /\ c < d
    BY DequeueTakes
  <1> DEFINE s == [command |-> c, at |-> jqClock]
             k == Len(jqOrder) + 1
  <1>2. c \in 1..Len(jqUrgency) /\ c \notin JQ!Started /\ Len(jqUrgency) \in Nat
    BY DEF QueueInv, QueueTypes, Whereabouts
  <1>3. s \in Starts /\ s.command = c /\ s.at = jqClock
    BY <1>2 DEF Starts, QueueInv, QueueTypes
  <1> HIDE DEF s
  <1>4. /\ jqOrder' \in Seq(Starts) /\ Len(jqOrder)' = k /\ Len(jqOrder) \in Nat
        /\ \A i \in 1..Len(jqOrder) : jqOrder'[i] = jqOrder[i]
        /\ jqOrder'[k] = s
    <2>1. jqOrder \in Seq(Starts) /\ jqOrder' = Append(jqOrder, s)
      BY <1>1 DEF QueueInv, QueueTypes, s
    <2> QED
      BY <1>3, <2>1, AppendFacts
  <1>5. JQ!Started' = JQ!Started \cup {c}
    BY <1>3, <1>4 DEF JQ!Started
  <1>6. \A q \in Runners : jqDoing'[q] = IF q = r THEN {c} ELSE jqDoing[q]
    BY <1>1 DEF QueueInv, QueueTypes
  <1>7. QueueTypes'
    <2>1. jqDoing' \in [Runners -> SUBSET (1..Len(jqUrgency))]
      BY <1>1, <1>2 DEF QueueInv, QueueTypes
    <2>2. \A i \in 1..Len(jqUrgency) : jqUrgency[i].after <= k
      <3> TAKE i \in 1..Len(jqUrgency)
      <3>1. jqUrgency[i] \in Urgencies /\ jqUrgency[i].after <= Len(jqOrder)
        BY DEF QueueInv, QueueTypes
      <3> QED
        BY <1>4, <3>1 DEF Urgencies
    <2> QED
      BY <1>1, <1>4, <2>1, <2>2 DEF QueueInv, QueueTypes
  <1>8. \A d : d \in RunningCommands <=> \E q \in Runners : d \in jqDoing[q]
    BY DEF RunningCommands
  <1>9. \A d : d \in RunningCommands' <=> \E q \in Runners : d \in jqDoing'[q]
    BY DEF RunningCommands
  <1>10. \A q \in Runners : q # r => jqDoing[q] \cap jqDoing[r] = {}
    BY DEF QueueInv, Whereabouts
  <1>11. RunningCommands' = (RunningCommands \ jqDoing[r]) \cup {c}
    BY <1>6, <1>8, <1>9, <1>10
  <1>12. jqDoing[r] \subseteq RunningCommands /\ c \notin RunningCommands /\ c \notin EndedCommands
    BY <1>2, <1>8 DEF QueueInv, Whereabouts
  <1>13. EndedCommands' = EndedCommands \cup jqDoing[r]
    BY DEF EndedCommands
  <1>14. Whereabouts'
    <2>1. CommandsOf(jqHeap)' \cup JQ!Started' = 1..Len(jqUrgency)' /\ CommandsOf(jqHeap)' \cap JQ!Started' = {}
      BY <1>1, <1>2, <1>5 DEF QueueInv, Whereabouts
    <2>2. \A i, j \in 1..k : jqOrder'[i].command = jqOrder'[j].command => i = j
      <3>1. \A i \in 1..Len(jqOrder) : jqOrder'[i].command = jqOrder[i].command /\ jqOrder[i].command # c
        BY <1>2, <1>4 DEF JQ!Started
      <3>2. \A i \in 1..k : i = k \/ i \in 1..Len(jqOrder)
        BY <1>4
      <3> QED
        BY <1>3, <1>4, <3>1, <3>2 DEF QueueInv, Whereabouts
    <2>3. RunningCommands' \cup EndedCommands' = JQ!Started' /\ RunningCommands' \cap EndedCommands' = {}
      BY <1>5, <1>11, <1>12, <1>13 DEF QueueInv, Whereabouts
    <2>4. \A p, q \in Runners : jqDoing'[p] \cap jqDoing'[q] # {} => p = q
      BY <1>6, <1>8, <1>12 DEF QueueInv, Whereabouts
    <2>5. jqDone' \cap jqRaised' = {} /\ (jqDone' \cup jqRaised') \cap jqCancelled' = {}
      BY <1>12 DEF QueueInv, Whereabouts, EndedCommands
    <2> QED
      BY <1>4, <2>1, <2>2, <2>3, <2>4, <2>5 DEF Whereabouts
  <1>15. JQ!StartsInOrder'
    <2> SUFFICES ASSUME NEW i \in 1..k, NEW d \in 1..Len(jqUrgency), JQ!PassedOver(d, i)'
                 PROVE  LET first == jqOrder'[i].command
                            t == jqOrder'[i].at
                        IN \/ JQ!UrgencyAt(first, t) < JQ!UrgencyAt(d, t)
                           \/ JQ!UrgencyAt(first, t) = JQ!UrgencyAt(d, t) /\ first < d
      <3>1. DOMAIN jqUrgency = 1..Len(jqUrgency)
        BY DEF QueueInv, QueueTypes
      <3> QED
        BY <1>4, <3>1 DEF JQ!StartsInOrder, JQ!UrgencyAt
    <2>1. CASE i \in 1..Len(jqOrder)
      <3>1. \A j \in 1..i : j \in 1..Len(jqOrder)
        BY <1>4, <2>1
      <3>2. JQ!PassedOver(d, i)
        BY <1>4, <3>1 DEF JQ!PassedOver
      <3>3. DOMAIN jqUrgency = 1..Len(jqUrgency)
        BY DEF QueueInv, QueueTypes
      <3> QED
        BY <1>4, <2>1, <3>2, <3>3 DEF QueueInv, JQ!StartsInOrder
    <2>2. CASE i = k
      <3>1. \A j \in 1..Len(jqOrder) : jqOrder[j].command # d
        BY <1>4, <2>2 DEF JQ!PassedOver
      <3>2. d # c
        BY <1>3, <1>4, <2>2 DEF JQ!PassedOver
      <3>3. d \in CommandsOf(jqHeap) \ {c}
        BY <3>1, <3>2 DEF QueueInv, Whereabouts, JQ!Started
      <3> QED
        BY <1>1, <1>3, <1>4, <2>2, <3>3
    <2> QED
      BY <1>4, <2>1, <2>2
  <1> QED
    BY <1>7, <1>14, <1>15 DEF QueueInv

\* A runner leaves, and its command is done, has raised or was cancelled.
LEMMA LeaveKeeps ==
  ASSUME QueueInv, NEW r \in Runners, JQ!Leave(r), UNCHANGED <<jqUrgency, jqClock>>,
         \/ jqDone' = jqDone \cup jqDoing[r] /\ UNCHANGED <<jqRaised, jqCancelled>>
         \/ jqRaised' = jqRaised \cup jqDoing[r] /\ UNCHANGED <<jqDone, jqCancelled>>
         \/ jqCancelled' = jqCancelled \cup jqDoing[r] /\ UNCHANGED <<jqDone, jqRaised>>
  PROVE  QueueInv'
  <1>1. /\ jqDoing' = [jqDoing EXCEPT ![r] = {}] /\ jqDraining' = jqDraining \ {r}
        /\ UNCHANGED <<jqHeap, jqOrder>>
    BY DEF JQ!Leave
  <1>2. \A q \in Runners : jqDoing'[q] = IF q = r THEN {} ELSE jqDoing[q]
    BY <1>1 DEF QueueInv, QueueTypes
  <1>3. \A d : d \in RunningCommands <=> \E q \in Runners : d \in jqDoing[q]
    BY DEF RunningCommands
  <1>4. \A d : d \in RunningCommands' <=> \E q \in Runners : d \in jqDoing'[q]
    BY DEF RunningCommands
  <1>5. \A q \in Runners : q # r => jqDoing[q] \cap jqDoing[r] = {}
    BY DEF QueueInv, Whereabouts
  <1>6. RunningCommands' = RunningCommands \ jqDoing[r] /\ jqDoing[r] \subseteq RunningCommands
    BY <1>2, <1>3, <1>4, <1>5
  <1>7. EndedCommands' = EndedCommands \cup jqDoing[r]
    BY DEF EndedCommands
  <1>8. QueueTypes'
    <2>1. jqDoing' \in [Runners -> SUBSET (1..Len(jqUrgency))]
      BY <1>1 DEF QueueInv, QueueTypes
    <2> QED
      BY <1>1, <2>1 DEF QueueInv, QueueTypes, HeapOK
  <1>9. JQ!Started' = JQ!Started /\ CommandsOf(jqHeap)' = CommandsOf(jqHeap)
    BY <1>1 DEF JQ!Started, CommandsOf
  <1>10. Whereabouts'
    <2>1. RunningCommands' \cup EndedCommands' = JQ!Started' /\ RunningCommands' \cap EndedCommands' = {}
      BY <1>6, <1>7, <1>9 DEF QueueInv, Whereabouts
    <2>2. jqDone' \cap jqRaised' = {} /\ (jqDone' \cup jqRaised') \cap jqCancelled' = {}
      BY <1>6 DEF QueueInv, Whereabouts, EndedCommands
    <2>3. \A p, q \in Runners : jqDoing'[p] \cap jqDoing'[q] # {} => p = q
      BY <1>2 DEF QueueInv, Whereabouts
    <2> QED
      BY <1>1, <1>9, <2>1, <2>2, <2>3 DEF QueueInv, Whereabouts
  <1>11. JQ!StartsInOrder'
    BY <1>1 DEF QueueInv, JQ!StartsInOrder, JQ!PassedOver, JQ!UrgencyAt
  <1> QED
    BY <1>8, <1>10, <1>11 DEF QueueInv

\* Every step keeps the invariant.
LEMMA QueueNext == ASSUME QueueInv, [JQ!Next]_(JQ!vars) PROVE QueueInv'
  <1>1. ASSUME NEW r \in Runners, JQ!RunNext(r) \/ JQ!Drain(r) PROVE QueueInv'
    <2>1. /\ jqDoing[r] = {} /\ JQ!Dequeue(r)
          /\ UNCHANGED <<jqUrgency, jqClock, jqDone, jqRaised, jqCancelled>>
          /\ jqDraining' \in {jqDraining, jqDraining \cup {r}}
      BY <1>1 DEF JQ!RunNext, JQ!Drain
    <2>2. jqDraining' \subseteq Runners /\ jqDone' = jqDone \cup jqDoing[r]
      BY <2>1 DEF QueueInv, QueueTypes
    <2> QED
      BY <2>1, <2>2, DequeueKeeps
  <1>2. ASSUME NEW r \in Runners, JQ!Completed(r) PROVE QueueInv'
    <2>1. /\ jqDone' = jqDone \cup jqDoing[r]
          /\ UNCHANGED <<jqUrgency, jqClock, jqRaised, jqCancelled>>
          /\ \/ JQ!Dequeue(r) /\ jqDraining' = jqDraining
             \/ JQ!Leave(r)
      BY <1>2 DEF JQ!Completed
    <2>2. CASE JQ!Dequeue(r) /\ jqDraining' = jqDraining
      <3>1. jqDraining' \subseteq Runners
        BY <2>2 DEF QueueInv, QueueTypes
      <3> QED
        BY <2>1, <2>2, <3>1, DequeueKeeps
    <2>3. CASE JQ!Leave(r)
      BY <2>1, <2>3, LeaveKeeps
    <2> QED
      BY <2>1, <2>2, <2>3
  <1>3. ASSUME NEW r \in Runners, JQ!Raised(r) PROVE QueueInv'
    BY <1>3, LeaveKeeps DEF JQ!Raised
  <1>4. ASSUME NEW r \in Runners, JQ!Cancelled(r) PROVE QueueInv'
    BY <1>4, LeaveKeeps DEF JQ!Cancelled
  <1>5. CASE JQ!Tick \/ UNCHANGED JQ!vars
    <2>1. /\ UNCHANGED <<jqHeap, jqUrgency, jqDoing, jqDraining, jqDone, jqRaised, jqCancelled, jqOrder>>
          /\ jqClock' = jqClock \/ jqClock' = jqClock + 1
      BY <1>5 DEF JQ!Tick, JQ!vars
    <2>2. QueueTypes'
      BY <2>1 DEF QueueInv, QueueTypes, HeapOK
    <2>3. CommandsOf(jqHeap)' = CommandsOf(jqHeap) /\ JQ!Started' = JQ!Started
      BY <2>1 DEF CommandsOf, JQ!Started
    <2>4. RunningCommands' = RunningCommands /\ EndedCommands' = EndedCommands
      BY <2>1 DEF RunningCommands, EndedCommands
    <2>5. Whereabouts'
      BY <2>1, <2>3, <2>4 DEF QueueInv, Whereabouts
    <2>6. JQ!StartsInOrder'
      BY <2>1 DEF QueueInv, JQ!StartsInOrder, JQ!PassedOver, JQ!UrgencyAt
    <2> QED
      BY <2>2, <2>5, <2>6 DEF QueueInv
  <1>6. CASE \E p \in JQ!Priorities, b \in 1..JQ!Never : JQ!Enqueue(p, b)
    BY <1>6, EnqueueKeeps
  <1> QED
    BY <1>1, <1>2, <1>3, <1>4, <1>5, <1>6 DEF JQ!Next

\* What the invariant says of the properties.
LEMMA QueueImplies == ASSUME QueueInv PROVE JQ!TypeOK /\ JQ!MostUrgentFirst
  <1>1. Cardinality(CommandsOf(jqHeap)) = Cardinality(jqHeap)
    <2>1. PICK m : m = [e \in jqHeap |-> e.command]
      OBVIOUS
    <2>2. \A e, f \in jqHeap : e.command = f.command => e = f
      BY DEF QueueInv, QueueTypes, HeapOK
    <2>3. m \in [jqHeap -> CommandsOf(jqHeap)]
      BY <2>1 DEF CommandsOf
    <2>4. \A e, f \in jqHeap : m[e] = m[f] => e = f
      BY <2>1, <2>2
    <2>5. \A c \in CommandsOf(jqHeap) : \E e \in jqHeap : m[e] = c
      BY <2>1 DEF CommandsOf
    <2>6. m \in Bijection(jqHeap, CommandsOf(jqHeap))
      BY <2>3, <2>4, <2>5 DEF Bijection, Injection, IsInjective, Surjection
    <2>7. IsFiniteSet(jqHeap)
      BY DEF QueueInv, QueueTypes, HeapOK
    <2> QED
      BY <2>6, <2>7, FS_Bijection DEF ExistsBijection
  <1>2. DOMAIN jqUrgency = 1..Len(jqUrgency)
    BY DEF QueueInv, QueueTypes
  <1>3. CommandsOf(jqHeap) \subseteq 1..Len(jqUrgency)
    BY DEF QueueInv, Whereabouts
  <1>4. jqHeap \subseteq [priority : JQ!Priorities \cup {JQ!Critical}, command : 1..Len(jqUrgency)]
    BY <1>3 DEF QueueInv, QueueTypes, HeapOK, Entries, CommandsOf
  <1>5. JQ!TypeOK
    BY <1>2, <1>4 DEF QueueInv, QueueTypes, JQ!TypeOK
  <1>6. JQ!WaitingCommands = CommandsOf(jqHeap)
    BY DEF JQ!WaitingCommands, CommandsOf
  <1>7. JQ!NoneLostOrRepeated
    BY <1>1, <1>2, <1>6, FiniteIsFinite
    DEF QueueInv, Whereabouts, JQ!NoneLostOrRepeated, RunningCommands, EndedCommands
  <1> QED
    BY <1>5, <1>7 DEF QueueInv, JQ!MostUrgentFirst

\* For any number of commands and of runners that overlap, raise or are cancelled, and
\* any clock: every start is of the command that is most urgent at its time, in the
\* order of arrival among equals, and no command is lost or started twice
\* (jobs/queue.py run_next, drain).
THEOREM UrgentFirst == JQ!Spec => []JQ!MostUrgentFirst
  <1>1. QueueInv => JQ!MostUrgentFirst
    BY QueueImplies
  <1>2. QueueInv /\ [JQ!Next]_(JQ!vars) => QueueInv'
    BY QueueNext
  <1> QED
    BY <1>1, <1>2, QueueInit, PTL DEF JQ!Spec

-----------------------------------------------------------------------------
(* Fetching, the calls of fetch_dedup: two calls that work on one URL have *)
(* met, and a call whose URL was fetched since it asked has met another.   *)

Strategies == {"bloom_filter", "in_memory_set", "no_op"}

DedupTypes ==
  /\ feFilter = [kind |-> feFilter.kind, id |-> feFilter.id, holds |-> feFilter.holds]
  /\ feFilter.kind \in Strategies /\ feFilter.id \in Nat
  /\ feFetch \in [Fetchers -> [url : Urls \cup {"none"}, id : Nat, attempt : 0..FetchAttempts - 1]]
  /\ \A f \in Fetchers : feFetch[f].url = "none" => feFetch[f] = FE!NoFetch
  /\ feFetched \subseteq Urls /\ feTwice \subseteq feFetched /\ feMet \subseteq Urls

\* Calls that work on one URL have met.
CallsMeet ==
  \A f, g \in Fetchers :
    f # g /\ feFetch[f].url = feFetch[g].url /\ feFetch[f].url # "none" => feFetch[f].url \in feMet

\* A URL that was fetched while a call was under way for it has been met.
FetchedMeanwhile ==
  feFilter.kind # "no_op" =>
    \A f \in Fetchers :
      feFetch[f].url # "none" /\ feFetch[f].id = feFilter.id /\ feFetch[f].url \in feFetched
        => feFetch[f].url \in feMet

DedupInv == DedupTypes /\ CallsMeet /\ FetchedMeanwhile /\ FE!SeenIsFetched

\* The filter starts empty.
LEMMA DedupInit == FE!Init => DedupInv
  <1> SUFFICES ASSUME FE!Init PROVE DedupInv
    OBVIOUS
  <1>1. /\ feFilter = [kind |-> "bloom_filter", id |-> 0, holds |-> {}]
        /\ feFetch = [f \in Fetchers |-> FE!NoFetch] /\ feFetched = {} /\ feTwice = {} /\ feMet = {}
    BY DEF FE!Init
  <1>2. FE!NoFetch \in [url : Urls \cup {"none"}, id : Nat, attempt : 0..FetchAttempts - 1]
    BY FetchingAssumption DEF FE!NoFetch
  <1>3. DedupTypes
    BY <1>1, <1>2 DEF DedupTypes, Strategies
  <1>4. CallsMeet /\ FetchedMeanwhile
    BY <1>1 DEF CallsMeet, FetchedMeanwhile, FE!NoFetch
  <1>5. FE!SeenIsFetched
    BY <1>1 DEF FE!SeenIsFetched
  <1> QED
    BY <1>3, <1>4, <1>5 DEF DedupInv

\* The filter is emptied or replaced: nothing counts as fetched any more.
LEMMA EmptiedKeeps ==
  ASSUME DedupInv, FE!Reset \/ \E strategy \in Strategies : FE!SetUrlFilter(strategy)
  PROVE  DedupInv'
  <1>1. feFetched' = {} /\ feTwice' = {} /\ feFetch' = feFetch /\ feMet' = feMet
    BY DEF FE!Reset, FE!SetUrlFilter
  <1>2. /\ feFilter' = [kind |-> feFilter'.kind, id |-> feFilter'.id, holds |-> {}]
        /\ feFilter'.kind \in Strategies /\ feFilter'.id \in Nat
    BY DEF FE!Reset, FE!SetUrlFilter, DedupInv, DedupTypes
  <1>3. DedupTypes'
    BY <1>1, <1>2 DEF DedupInv, DedupTypes
  <1>4. CallsMeet' /\ FetchedMeanwhile'
    BY <1>1 DEF DedupInv, CallsMeet, FetchedMeanwhile
  <1>5. feFilter'.holds = {}
    BY <1>2
  <1>6. FE!SeenIsFetched'
    BY <1>1, <1>5 DEF FE!SeenIsFetched
  <1> QED
    BY <1>3, <1>4, <1>6 DEF DedupInv

\* A URL that is not reported as seen was not fetched.
LEMMA UnseenIsUnfetched ==
  ASSUME DedupInv, NEW url \in Urls, ~FE!IsSeen(url), feFilter.kind # "no_op" PROVE url \notin feFetched
  <1>1. SUFFICES ASSUME url \in feFetched PROVE FALSE
    OBVIOUS
  <1>2. FE!Marks(feFilter.kind, url) \subseteq UNION {FE!Marks(feFilter.kind, u) : u \in feFetched}
    BY <1>1
  <1>3. feFilter.holds = UNION {FE!Marks(feFilter.kind, u) : u \in feFetched}
    BY DEF DedupInv, FE!SeenIsFetched
  <1> QED
    BY <1>2, <1>3 DEF FE!IsSeen

\* A call asks the filter and starts to fetch what is unseen.
LEMMA FetchDedupKeeps ==
  ASSUME DedupInv, NEW f \in Fetchers, NEW url \in Urls, FE!FetchDedup(f, url) PROVE DedupInv'
  <1>1. /\ feFetch[f] = FE!NoFetch /\ ~FE!IsSeen(url) /\ feFilter' = feFilter /\ feFetched' = feFetched
        /\ feTwice' = feTwice
        /\ feFetch' = [feFetch EXCEPT ![f] = [url |-> url, id |-> feFilter.id, attempt |-> 0]]
        /\ feMet' = IF \E g \in Fetchers : feFetch[g].url = url THEN feMet \cup {url} ELSE feMet
    BY DEF FE!FetchDedup
  <1>2. feMet \subseteq feMet' /\ feMet' \subseteq Urls
    BY <1>1 DEF DedupInv, DedupTypes
  <1>3. \A g \in Fetchers : feFetch'[g] = IF g = f THEN [url |-> url, id |-> feFilter.id, attempt |-> 0]
                                        ELSE feFetch[g]
    BY <1>1 DEF DedupInv, DedupTypes
  <1>4. url # "none"
    BY FetchingAssumption
  <1>5. DedupTypes'
    <2>1. [url |-> url, id |-> feFilter.id, attempt |-> 0]
            \in [url : Urls \cup {"none"}, id : Nat, attempt : 0..FetchAttempts - 1]
      BY FetchingAssumption DEF DedupInv, DedupTypes
    <2>2. feFetch' \in [Fetchers -> [url : Urls \cup {"none"}, id : Nat, attempt : 0..FetchAttempts - 1]]
      BY <1>1, <2>1 DEF DedupInv, DedupTypes
    <2>3. \A g \in Fetchers : feFetch'[g].url = "none" => feFetch'[g] = FE!NoFetch
      BY <1>3, <1>4 DEF DedupInv, DedupTypes
    <2> QED
      BY <1>1, <1>2, <2>2, <2>3 DEF DedupInv, DedupTypes
  <1>6. CallsMeet'
    <2> SUFFICES ASSUME NEW g \in Fetchers, NEW h \in Fetchers, g # h,
                        feFetch'[g].url = feFetch'[h].url, feFetch'[g].url # "none"
                 PROVE  feFetch'[g].url \in feMet'
      BY DEF CallsMeet
    <2>1. CASE g # f /\ h # f
      BY <1>2, <1>3, <2>1 DEF DedupInv, CallsMeet
    <2>2. CASE g = f \/ h = f
      <3>1. feFetch'[g].url = url /\ \E x \in Fetchers : feFetch[x].url = url
        BY <1>3, <2>2
      <3> QED
        BY <1>1, <3>1
    <2> QED
      BY <2>1, <2>2
  <1>7. FetchedMeanwhile'
    <2> SUFFICES ASSUME feFilter.kind # "no_op", NEW g \in Fetchers, feFetch'[g].url # "none",
                        feFetch'[g].id = feFilter.id, feFetch'[g].url \in feFetched
                 PROVE  feFetch'[g].url \in feMet'
      BY <1>1 DEF FetchedMeanwhile
    <2>1. g # f
      BY <1>1, <1>3, UnseenIsUnfetched
    <2> QED
      BY <1>2, <1>3, <2>1 DEF DedupInv, FetchedMeanwhile
  <1>8. FE!SeenIsFetched'
    BY <1>1, <1>2 DEF DedupInv, FE!SeenIsFetched, FE!Marks
  <1> QED
    BY <1>5, <1>6, <1>7, <1>8 DEF DedupInv

\* A call that ends takes no part any more.
LEMMA FetchEnds ==
  ASSUME DedupInv, NEW f \in Fetchers, feFetch[f] # FE!NoFetch, feFetch' = [feFetch EXCEPT ![f] = FE!NoFetch]
  PROVE  /\ feFetch' \in [Fetchers -> [url : Urls \cup {"none"}, id : Nat, attempt : 0..FetchAttempts - 1]]
         /\ \A g \in Fetchers : feFetch'[g].url = "none" => feFetch'[g] = FE!NoFetch
         /\ \A g \in Fetchers : g # f => feFetch'[g] = feFetch[g]
         /\ feFetch'[f].url = "none" /\ feFetch[f].url \in Urls /\ feFetch[f].url # "none"
  <1>1. FE!NoFetch \in [url : Urls \cup {"none"}, id : Nat, attempt : 0..FetchAttempts - 1] /\ FE!NoFetch.url = "none"
    BY FetchingAssumption DEF FE!NoFetch
  <1> QED
    BY <1>1 DEF DedupInv, DedupTypes

\* The page arrived: its URL is marked.
LEMMA FetchSucceedsKeeps ==
  ASSUME DedupInv, NEW f \in Fetchers, FE!FetchSucceeds(f) PROVE DedupInv'
  <1> PICK url : url = feFetch[f].url
    OBVIOUS
  <1>1. feFetch[f] # FE!NoFetch /\ feFetch' = [feFetch EXCEPT ![f] = FE!NoFetch] /\ feMet' = feMet
    BY DEF FE!FetchSucceeds
  <1>2. /\ feFetch' \in [Fetchers -> [url : Urls \cup {"none"}, id : Nat, attempt : 0..FetchAttempts - 1]]
        /\ \A g \in Fetchers : feFetch'[g].url = "none" => feFetch'[g] = FE!NoFetch
        /\ \A g \in Fetchers : g # f => feFetch'[g] = feFetch[g]
        /\ feFetch'[f].url = "none" /\ url \in Urls /\ url # "none"
    BY <1>1, FetchEnds
  <1>3. CallsMeet'
    BY <1>1, <1>2 DEF DedupInv, CallsMeet
  <1>4. CASE feFetch[f].id = feFilter.id
    <2>1. /\ feFilter' = [feFilter EXCEPT !.holds = @ \cup FE!Marks(feFilter.kind, url)]
          /\ feFetched' = feFetched \cup {url}
          /\ feTwice' = IF url \in feFetched THEN feTwice \cup {url} ELSE feTwice
      BY <1>4 DEF FE!FetchSucceeds, FE!Marking
    <2>2. /\ feFilter' = [kind |-> feFilter.kind, id |-> feFilter.id,
                        holds |-> feFilter.holds \cup FE!Marks(feFilter.kind, url)]
      BY <2>1 DEF DedupInv, DedupTypes
    <2>3. feFilter'.kind = feFilter.kind /\ feFilter'.id = feFilter.id
      BY <2>2
    <2>4. feFilter'.holds = feFilter.holds \cup FE!Marks(feFilter.kind, url)
      BY <2>2
    <2>5. DedupTypes'
      BY <1>1, <1>2, <2>1, <2>2, <2>3, <2>4 DEF DedupInv, DedupTypes
    <2>6. FetchedMeanwhile'
      <3> SUFFICES ASSUME feFilter.kind # "no_op", NEW g \in Fetchers, feFetch'[g].url # "none",
                          feFetch'[g].id = feFilter.id, feFetch'[g].url \in feFetched \cup {url}
                   PROVE  feFetch'[g].url \in feMet
        BY <1>1, <2>1, <2>3 DEF FetchedMeanwhile
      <3>1. g # f /\ feFetch'[g] = feFetch[g]
        BY <1>2
      <3>2. CASE feFetch[g].url = url
        BY <1>2, <3>1, <3>2 DEF DedupInv, CallsMeet
      <3>3. CASE feFetch[g].url # url
        BY <3>1, <3>3 DEF DedupInv, FetchedMeanwhile
      <3> QED
        BY <3>2, <3>3
    <2>7. FE!SeenIsFetched'
      <3>1. feFilter.holds = UNION {FE!Marks(feFilter.kind, u) : u \in feFetched}
        BY DEF DedupInv, FE!SeenIsFetched
      <3>2. feFilter.holds \cup FE!Marks(feFilter.kind, url)
              = UNION {FE!Marks(feFilter.kind, u) : u \in feFetched \cup {url}}
        BY <3>1
      <3>3. feFilter'.holds = UNION {FE!Marks(feFilter'.kind, u) : u \in feFetched'}
        BY <2>1, <2>3, <2>4, <3>2
      <3>4. feFilter.kind # "no_op" => feTwice' \subseteq feMet
        BY <1>2, <1>4, <2>1 DEF DedupInv, FE!SeenIsFetched, FetchedMeanwhile
      <3>5. feFilter'.kind # "no_op" => feTwice' \subseteq feMet'
        BY <1>1, <2>3, <3>4
      <3> QED
        BY <3>3, <3>5 DEF FE!SeenIsFetched, FE!Marks
    <2> QED
      BY <1>3, <2>5, <2>6, <2>7 DEF DedupInv
  <1>5. CASE feFetch[f].id # feFilter.id
    <2>1. feFilter' = feFilter /\ feFetched' = feFetched /\ feTwice' = feTwice
      BY <1>5 DEF FE!FetchSucceeds
    <2>2. DedupTypes'
      BY <1>1, <1>2, <2>1 DEF DedupInv, DedupTypes
    <2>3. FetchedMeanwhile'
      BY <1>1, <1>2, <2>1 DEF DedupInv, FetchedMeanwhile
    <2>4. FE!SeenIsFetched'
      BY <1>1, <2>1 DEF DedupInv, FE!SeenIsFetched, FE!Marks
    <2> QED
      BY <1>3, <2>2, <2>3, <2>4 DEF DedupInv
  <1> QED
    BY <1>4, <1>5

\* The attempt failed: it is repeated or given up, and nothing is marked.
LEMMA FetchAttemptFailsKeeps ==
  ASSUME DedupInv, NEW f \in Fetchers, FE!FetchAttemptFails(f) PROVE DedupInv'
  <1>1. /\ feFetch[f] # FE!NoFetch /\ feFilter' = feFilter /\ feFetched' = feFetched /\ feTwice' = feTwice /\ feMet' = feMet
        /\ feFetch' = [feFetch EXCEPT ![f] = IF feFetch[f].attempt + 1 < FetchAttempts
                                         THEN [feFetch[f] EXCEPT !.attempt = feFetch[f].attempt + 1]
                                         ELSE FE!NoFetch]
    BY DEF FE!FetchAttemptFails
  <1>2. FE!SeenIsFetched'
    BY <1>1 DEF DedupInv, FE!SeenIsFetched, FE!Marks
  <1>3. CASE feFetch[f].attempt + 1 < FetchAttempts
    <2>1. feFetch[f] \in [url : Urls \cup {"none"}, id : Nat, attempt : 0..FetchAttempts - 1]
      BY DEF DedupInv, DedupTypes
    <2>2. PICK r : r = [feFetch[f] EXCEPT !.attempt = feFetch[f].attempt + 1]
      OBVIOUS
    <2>3. /\ r \in [url : Urls \cup {"none"}, id : Nat, attempt : 0..FetchAttempts - 1]
          /\ r.url = feFetch[f].url /\ r.id = feFetch[f].id
      BY <1>3, <2>1, <2>2, FetchingAssumption
    <2>4. feFetch' = [feFetch EXCEPT ![f] = r]
      BY <1>1, <1>3, <2>2
    <2>5. /\ feFetch' \in [Fetchers -> [url : Urls \cup {"none"}, id : Nat, attempt : 0..FetchAttempts - 1]]
          /\ \A g \in Fetchers : feFetch'[g].url = feFetch[g].url /\ feFetch'[g].id = feFetch[g].id
          /\ \A g \in Fetchers : g # f => feFetch'[g] = feFetch[g]
      BY <2>3, <2>4 DEF DedupInv, DedupTypes
    <2>6. feFetch[f].url # "none"
      BY <1>1 DEF DedupInv, DedupTypes
    <2>7. DedupTypes'
      BY <1>1, <2>5, <2>6 DEF DedupInv, DedupTypes
    <2>8. CallsMeet' /\ FetchedMeanwhile'
      BY <1>1, <2>5 DEF DedupInv, CallsMeet, FetchedMeanwhile
    <2> QED
      BY <1>2, <2>7, <2>8 DEF DedupInv
  <1>4. CASE ~(feFetch[f].attempt + 1 < FetchAttempts)
    <2>1. feFetch' = [feFetch EXCEPT ![f] = FE!NoFetch]
      BY <1>1, <1>4
    <2>2. /\ feFetch' \in [Fetchers -> [url : Urls \cup {"none"}, id : Nat, attempt : 0..FetchAttempts - 1]]
          /\ \A g \in Fetchers : feFetch'[g].url = "none" => feFetch'[g] = FE!NoFetch
          /\ \A g \in Fetchers : g # f => feFetch'[g] = feFetch[g]
          /\ feFetch'[f].url = "none"
      BY <1>1, <2>1, FetchEnds
    <2>3. DedupTypes'
      BY <1>1, <2>2 DEF DedupInv, DedupTypes
    <2>4. CallsMeet' /\ FetchedMeanwhile'
      BY <1>1, <2>2 DEF DedupInv, CallsMeet, FetchedMeanwhile
    <2> QED
      BY <1>2, <2>3, <2>4 DEF DedupInv
  <1> QED
    BY <1>3, <1>4

\* What leaves the fetching calls alone keeps their invariant.
LEMMA DedupFrame == ASSUME DedupInv, UNCHANGED FE!dedupVars PROVE DedupInv'
  <1>1. /\ feFilter' = feFilter /\ feFetch' = feFetch /\ feFetched' = feFetched /\ feTwice' = feTwice /\ feMet' = feMet
    BY DEF FE!dedupVars
  <1> QED
    BY <1>1 DEF DedupInv, DedupTypes, CallsMeet, FetchedMeanwhile, FE!SeenIsFetched, FE!Marks

\* Every step of the fetching calls keeps it.
LEMMA DedupKeeps == ASSUME DedupInv, FE!DedupStep PROVE DedupInv'
  <1>1. CASE FE!Reset
    BY <1>1, EmptiedKeeps
  <1>2. CASE \E strategy \in {"bloom_filter", "in_memory_set", "no_op"} : FE!SetUrlFilter(strategy)
    BY <1>2, EmptiedKeeps DEF Strategies
  <1>3. CASE \E f \in Fetchers : \/ \E url \in Urls : FE!FetchDedup(f, url)
                                 \/ FE!FetchSucceeds(f) \/ FE!FetchAttemptFails(f)
    BY <1>3, FetchDedupKeeps, FetchSucceedsKeeps, FetchAttemptFailsKeeps
  <1> QED
    BY <1>1, <1>2, <1>3 DEF FE!DedupStep
-----------------------------------------------------------------------------
(* Fetching, the scrapers: what was marked as seen has its bits in the     *)
(* filter, and was returned, or is held by one call, or was dropped.       *)

Calling == [pc : {"idle", "fetching", "reading"}, attempt : 0..FetchAttempts - 1,
            todo : Seq(Urls), items : Seq(Urls)]

ScrapeTypes ==
  /\ feScrape \in [Scrapes -> Calling]
  /\ feReturned \in [Urls -> Nat] /\ feAdded \subseteq Urls /\ feDropped \subseteq feAdded
  /\ IsFiniteSet(FE!Holding) /\ Cardinality(FE!Holding) <= Slots

Marked == \A u \in feAdded : Positions[u] \subseteq feSeen

\* Where a URL is: with at most one call, or returned once, or dropped.
OnePlace ==
  /\ \A u \in Urls : feReturned[u] <= 1 /\ (feReturned[u] = 1 => u \in feAdded /\ u \notin feDropped)
  /\ \A s \in Scrapes : \A u \in FE!ToSet(feScrape[s].items) :
       u \in feAdded /\ u \notin feDropped /\ feReturned[u] = 0
  /\ \A s, t \in Scrapes : s # t => FE!ToSet(feScrape[s].items) \cap FE!ToSet(feScrape[t].items) = {}

Accounted ==
  \A u \in feAdded : feReturned[u] = 1 \/ u \in feDropped \/ \E s \in Scrapes : u \in FE!ToSet(feScrape[s].items)

ByKind ==
  /\ feKind = "html" => feDropped = {}
  /\ feKind # "browser" =>
       \A s \in Scrapes : feScrape[s].items = <<>> /\ feScrape[s].pc # "reading"

ScrapeInv == ScrapeTypes /\ Marked /\ OnePlace /\ Accounted /\ ByKind

\* A scraper between its calls.
LEMMA NoScrapeFacts == FE!NoScrape \in Calling /\ FE!NoScrape.items = <<>> /\ FE!NoScrape.pc = "idle"
  <1>1. <<>> \in Seq(Urls)
    OBVIOUS
  <1> QED
    BY <1>1, FetchingAssumption DEF FE!NoScrape, Calling

\* Nothing collected holds no URL.
LEMMA NoItems == FE!ToSet(<<>>) = {}
  BY DEF FE!ToSet

\* Nothing was scraped.
LEMMA ScrapeInit == FE!Init => ScrapeInv
  <1> SUFFICES ASSUME FE!Init PROVE ScrapeInv
    OBVIOUS
  <1>1. /\ feScrape = [s \in Scrapes |-> FE!NoScrape] /\ feAdded = {} /\ feReturned = [u \in Urls |-> 0]
        /\ feDropped = {}
    BY DEF FE!Init
  <1>2. FE!Holding = {}
    BY <1>1, NoScrapeFacts DEF FE!Holding
  <1>3. ScrapeTypes
    <2>1. Cardinality({}) = 0 /\ IsFiniteSet({})
      BY FS_EmptySet
    <2> QED
      BY <1>1, <1>2, <2>1, NoScrapeFacts, FetchingAssumption DEF ScrapeTypes
  <1>4. \A s \in Scrapes : /\ feScrape[s].items = <<>> /\ FE!ToSet(feScrape[s].items) = {}
                           /\ feScrape[s].pc = "idle"
    BY <1>1, NoScrapeFacts, NoItems
  <1>5. Marked /\ OnePlace /\ Accounted
    BY <1>1, <1>4 DEF Marked, OnePlace, Accounted
  <1>6. ByKind
    BY <1>1, <1>4 DEF ByKind
  <1> QED
    BY <1>3, <1>5, <1>6 DEF ScrapeInv

\* What leaves the scrapers alone keeps their invariant.
LEMMA ScraperFrame == ASSUME ScrapeInv, UNCHANGED FE!scraperVars PROVE ScrapeInv'
  <1>1. /\ feKind' = feKind /\ feSeen' = feSeen /\ feScrape' = feScrape /\ feAdded' = feAdded
        /\ feReturned' = feReturned /\ feDropped' = feDropped
    BY DEF FE!scraperVars
  <1> QED
    BY <1>1 DEF ScrapeInv, ScrapeTypes, FE!Holding, Marked, OnePlace, Accounted, ByKind

\* A call of the scraper is replaced by another state of it.
LEMMA CallReplaced ==
  ASSUME ScrapeInv, NEW s \in Scrapes, NEW r \in Calling, feScrape' = [feScrape EXCEPT ![s] = r],
         r.pc = "idle" \/ s \in FE!Holding \/ Cardinality(FE!Holding) < Slots
  PROVE  /\ feScrape' \in [Scrapes -> Calling] /\ feScrape'[s] = r
         /\ \A t \in Scrapes : t # s => feScrape'[t] = feScrape[t]
         /\ IsFiniteSet(FE!Holding') /\ Cardinality(FE!Holding') <= Slots
  <1>1. feScrape \in [Scrapes -> Calling] /\ IsFiniteSet(FE!Holding) /\ Cardinality(FE!Holding) <= Slots
    BY DEF ScrapeInv, ScrapeTypes
  <1>2. /\ feScrape' \in [Scrapes -> Calling] /\ feScrape'[s] = r
        /\ \A t \in Scrapes : t # s => feScrape'[t] = feScrape[t]
    BY <1>1
  <1>3. Cardinality(FE!Holding) \in Nat /\ Slots \in Nat
    BY <1>1, FS_CardinalityType, FetchingAssumption
  <1>4. CASE r.pc = "idle"
    <2>1. FE!Holding' = FE!Holding \ {s}
      BY <1>2, <1>4 DEF FE!Holding
    <2>2. /\ IsFiniteSet(FE!Holding \ {s})
          /\ Cardinality(FE!Holding \ {s}) = IF s \in FE!Holding THEN Cardinality(FE!Holding) - 1
                                                           ELSE Cardinality(FE!Holding)
      BY <1>1, FS_RemoveElement
    <2>3. Cardinality(FE!Holding \ {s}) <= Slots
      BY <1>1, <1>3, <2>2
    <2> QED
      BY <1>2, <2>1, <2>2, <2>3
  <1>5. CASE r.pc # "idle"
    <2>1. FE!Holding' = FE!Holding \cup {s}
      BY <1>2, <1>5 DEF FE!Holding
    <2>2. CASE s \in FE!Holding
      <3>1. FE!Holding' = FE!Holding
        BY <2>1, <2>2
      <3> QED
        BY <1>1, <1>2, <3>1
    <2>3. CASE s \notin FE!Holding
      <3>1. Cardinality(FE!Holding) < Slots
        BY <1>5, <2>3
      <3>2. IsFiniteSet(FE!Holding \cup {s}) /\ Cardinality(FE!Holding \cup {s}) = Cardinality(FE!Holding) + 1
        BY <1>1, <2>3, FS_AddElement
      <3>3. Cardinality(FE!Holding) + 1 <= Slots
        BY <1>3, <3>1
      <3> QED
        BY <1>2, <2>1, <3>2, <3>3
    <2> QED
      BY <2>2, <2>3
  <1> QED
    BY <1>4, <1>5

\* A scrape begins, if a slot is free.
LEMMA ScrapeKeeps == ASSUME ScrapeInv, NEW s \in Scrapes, FE!Scrape(s) PROVE ScrapeInv'
  <1> PICK r : r = [FE!NoScrape EXCEPT !.pc = "fetching"]
    OBVIOUS
  <1>1. /\ feScrape[s] = FE!NoScrape /\ Cardinality(FE!Holding) < Slots
        /\ feScrape' = [feScrape EXCEPT ![s].pc = "fetching"]
        /\ feKind' = feKind /\ feSeen' = feSeen /\ feAdded' = feAdded /\ feReturned' = feReturned /\ feDropped' = feDropped
    BY FiniteIsFinite DEF FE!Scrape
  <1>2. r \in Calling /\ r.items = <<>> /\ r.pc = "fetching"
    BY NoScrapeFacts DEF Calling
  <1>3. feScrape' = [feScrape EXCEPT ![s] = r]
    BY <1>1
  <1>4. /\ feScrape' \in [Scrapes -> Calling] /\ feScrape'[s] = r
        /\ \A t \in Scrapes : t # s => feScrape'[t] = feScrape[t]
        /\ IsFiniteSet(FE!Holding') /\ Cardinality(FE!Holding') <= Slots
    BY <1>1, <1>2, <1>3, CallReplaced
  <1>5. \A t \in Scrapes : feScrape'[t].items = feScrape[t].items
    BY <1>1, <1>2, <1>4, NoScrapeFacts
  <1>6. ScrapeTypes'
    BY <1>1, <1>4 DEF ScrapeInv, ScrapeTypes
  <1>7. ByKind'
    BY <1>1, <1>2, <1>4, <1>5 DEF ScrapeInv, ByKind
  <1> QED
    BY <1>1, <1>5, <1>6, <1>7 DEF ScrapeInv, Marked, OnePlace, Accounted

\* An attempt gives up what it has read.
LEMMA ScrapeAttemptFailsKeeps ==
  ASSUME ScrapeInv, NEW s \in Scrapes, FE!ScrapeAttemptFails(s) PROVE ScrapeInv'
  <1>1. /\ s \in FE!Holding /\ feDropped' = feDropped \cup FE!ToSet(feScrape[s].items)
        /\ feKind' = feKind /\ feSeen' = feSeen /\ feAdded' = feAdded /\ feReturned' = feReturned
    BY DEF FE!ScrapeAttemptFails
  <1>2. PICK r \in Calling : feScrape' = [feScrape EXCEPT ![s] = r] /\ r.items = <<>> /\ r.pc # "reading"
    <2>1. CASE FE!Release(s)
      BY <2>1, NoScrapeFacts DEF FE!Release
    <2>2. CASE /\ feScrape[s].attempt + 1 < FetchAttempts
               /\ feScrape' = [feScrape EXCEPT ![s] =
                               [FE!NoScrape EXCEPT !.pc = "fetching",
                                                !.attempt = feScrape[s].attempt + 1]]
      <3>1. PICK r : r = [FE!NoScrape EXCEPT !.pc = "fetching", !.attempt = feScrape[s].attempt + 1]
        OBVIOUS
      <3>2. feScrape[s] \in Calling
        BY DEF ScrapeInv, ScrapeTypes
      <3>3. feScrape[s].attempt + 1 \in 0..FetchAttempts - 1
        <4>1. feScrape[s].attempt \in Nat
          BY <3>2 DEF Calling
        <4>2. feScrape[s].attempt + 1 < FetchAttempts
          BY <2>2
        <4> QED
          BY <4>1, <4>2, FetchingAssumption
      <3>4. r \in Calling /\ r.items = <<>> /\ r.pc = "fetching"
        BY <3>1, <3>3, NoScrapeFacts DEF Calling
      <3> QED
        BY <2>2, <3>1, <3>4
    <2> QED
      BY <2>1, <2>2 DEF FE!ScrapeAttemptFails
  <1>3. /\ feScrape' \in [Scrapes -> Calling] /\ feScrape'[s] = r
        /\ \A t \in Scrapes : t # s => feScrape'[t] = feScrape[t]
        /\ IsFiniteSet(FE!Holding') /\ Cardinality(FE!Holding') <= Slots
    BY <1>1, <1>2, CallReplaced
  <1>4. FE!ToSet(feScrape'[s].items) = {}
    BY <1>2, <1>3, NoItems
  <1>5. FE!ToSet(feScrape[s].items) \subseteq feAdded
    BY DEF ScrapeInv, OnePlace
  <1>6. ScrapeTypes'
    BY <1>1, <1>3, <1>5 DEF ScrapeInv, ScrapeTypes
  <1>7. Marked'
    BY <1>1 DEF ScrapeInv, Marked
  <1>8. OnePlace'
    <2>1. \A u \in Urls : feReturned[u] = 1 => u \notin FE!ToSet(feScrape[s].items)
      BY DEF ScrapeInv, OnePlace
    <2>2. \A u \in Urls : feReturned'[u] <= 1 /\ (feReturned'[u] = 1 => u \in feAdded' /\ u \notin feDropped')
      BY <1>1, <2>1 DEF ScrapeInv, OnePlace
    <2>3. \A t \in Scrapes : \A u \in FE!ToSet(feScrape'[t].items) :
            u \in feAdded' /\ u \notin feDropped' /\ feReturned'[u] = 0
      BY <1>1, <1>3, <1>4 DEF ScrapeInv, OnePlace
    <2>4. \A t, v \in Scrapes : t # v => FE!ToSet(feScrape'[t].items) \cap FE!ToSet(feScrape'[v].items) = {}
      BY <1>3, <1>4 DEF ScrapeInv, OnePlace
    <2> QED
      BY <2>2, <2>3, <2>4 DEF OnePlace
  <1>9. Accounted'
    BY <1>1, <1>3 DEF ScrapeInv, Accounted
  <1>10. ByKind'
    BY <1>1, <1>2, <1>3, NoItems DEF ScrapeInv, ByKind
  <1> QED
    BY <1>6, <1>7, <1>8, <1>9, <1>10 DEF ScrapeInv

\* Returning URLs that were not returned before.
LEMMA Returns ==
  ASSUME ScrapeInv, NEW urls, FE!Return(urls)
  PROVE  /\ feReturned' \in [Urls -> Nat]
         /\ \A u \in Urls : u \in urls => feReturned'[u] = feReturned[u] + 1
         /\ \A u \in Urls : u \notin urls => feReturned'[u] = feReturned[u]
  BY DEF FE!Return, ScrapeInv, ScrapeTypes

\* The rows of a page that are not cut.
LEMMA CutIsPart ==
  ASSUME NEW q \in Seq(Urls)
  PROVE  FE!Cut(q) \in Seq(Urls) /\ FE!ToSet(FE!Cut(q)) \subseteq FE!ToSet(q)
  <1> PICK k : k = IF Len(q) < Limit THEN Len(q) ELSE Limit
    OBVIOUS
  <1>1. Len(q) \in Nat /\ k \in Nat /\ k <= Len(q) /\ FE!Cut(q) = SubSeq(q, 1, k)
    BY FetchingAssumption DEF FE!Cut
  <1>2. FE!Cut(q) \in Seq(Urls) /\ Len(FE!Cut(q)) = k /\ \A i \in 1..k : FE!Cut(q)[i] = q[i]
    BY <1>1, SubSeqProperties
  <1> QED
    BY <1>1, <1>2 DEF FE!ToSet

\* A page is a sequence of rows.
LEMMA PagesAreRows == ASSUME NEW page \in FE!Pages PROVE page \in Seq(Urls)
  <1>1. PICK n \in 0..Limit + 1 : page \in [1..n -> Urls]
    BY DEF FE!Pages
  <1> QED
    BY <1>1, FetchingAssumption

\* A page is read and its fresh rows are marked; they are returned, or lost by a loop
\* that raises.
LEMMA ScrapePageKeeps ==
  ASSUME ScrapeInv, NEW s \in Scrapes, NEW page \in FE!Pages,
         FE!ScrapePage(s, page) \/ FE!ScrapePageFails(s, page)
  PROVE  ScrapeInv'
  <1> PICK rows : rows = IF feKind = "html" THEN FE!Cut(page) ELSE page
    OBVIOUS
  <1> PICK kept : kept = {rows[i] : i \in FE!Fresh(rows, feSeen)}
    OBVIOUS
  <1>1. /\ feKind # "browser" /\ FE!Release(s) /\ feSeen' = FE!Collect(rows, feSeen)
        /\ feAdded' = feAdded \cup kept /\ feKind' = feKind
        /\ \/ FE!Return(kept) /\ feDropped' = feDropped
           \/ feReturned' = feReturned /\ feDropped' = feDropped \cup kept /\ feKind # "html"
    BY DEF FE!ScrapePage, FE!ScrapePageFails, FE!Scraped
  <1>2. rows \in Seq(Urls)
    BY CutIsPart, PagesAreRows
  <1>3. kept \subseteq Urls /\ \A u \in kept : ~(Positions[u] \subseteq feSeen) /\ Positions[u] \subseteq feSeen'
    BY <1>1, <1>2 DEF FE!Fresh, FE!Collect
  <1>4. feSeen \subseteq feSeen'
    BY <1>1 DEF FE!Collect
  <1>5. kept \cap feAdded = {} /\ kept \cap feDropped = {}
    BY <1>3 DEF ScrapeInv, ScrapeTypes, Marked
  <1>6. /\ feReturned' \in [Urls -> Nat]
        /\ \A u \in Urls : u \notin kept => feReturned'[u] = feReturned[u]
        /\ \/ /\ \A u \in Urls : u \in kept => feReturned'[u] = feReturned[u] + 1
              /\ feDropped' = feDropped
           \/ /\ \A u \in Urls : u \in kept => feReturned'[u] = feReturned[u]
              /\ feDropped' = feDropped \cup kept
    <2>1. CASE FE!Return(kept) /\ feDropped' = feDropped
      BY <2>1, Returns
    <2>2. CASE feReturned' = feReturned /\ feDropped' = feDropped \cup kept
      BY <2>2 DEF ScrapeInv, ScrapeTypes
    <2> QED
      BY <1>1, <2>1, <2>2
  <1>7. /\ feScrape' \in [Scrapes -> Calling] /\ feScrape'[s] = FE!NoScrape
        /\ \A t \in Scrapes : t # s => feScrape'[t] = feScrape[t]
        /\ IsFiniteSet(FE!Holding') /\ Cardinality(FE!Holding') <= Slots
    BY <1>1, CallReplaced, NoScrapeFacts DEF FE!Release
  <1>8. \A t \in Scrapes : feScrape[t].items = <<>> /\ feScrape'[t].items = <<>> /\ feScrape'[t].pc # "reading"
    BY <1>1, <1>7, NoScrapeFacts DEF ScrapeInv, ByKind
  <1>9. \A t \in Scrapes : FE!ToSet(feScrape[t].items) = {} /\ FE!ToSet(feScrape'[t].items) = {}
    BY <1>8, NoItems
  <1>10. feDropped' \subseteq feAdded' /\ feAdded' \subseteq Urls
    BY <1>1, <1>3 DEF ScrapeInv, ScrapeTypes
  <1>11. ScrapeTypes'
    BY <1>6, <1>7, <1>10 DEF ScrapeTypes
  <1>12. Marked'
    BY <1>1, <1>3, <1>4 DEF ScrapeInv, Marked
  <1>13. \A u \in kept : feReturned[u] = 0
    BY <1>3, <1>5 DEF ScrapeInv, OnePlace, ScrapeTypes
  <1>14. OnePlace'
    <2>1. ASSUME NEW u \in Urls
          PROVE  feReturned'[u] <= 1 /\ (feReturned'[u] = 1 => u \in feAdded' /\ u \notin feDropped')
      <3>1. CASE u \in kept
        BY <1>1, <1>5, <1>6, <1>13, <3>1
      <3>2. CASE u \notin kept
        BY <1>1, <1>6, <3>2 DEF ScrapeInv, OnePlace
      <3> QED
        BY <3>1, <3>2
    <2> QED
      BY <1>9, <2>1 DEF OnePlace
  <1>15. Accounted'
    <2>1. \A u \in feAdded : feReturned[u] = 1 \/ u \in feDropped
      BY <1>9 DEF ScrapeInv, Accounted
    <2>2. feAdded \subseteq Urls
      BY DEF ScrapeInv, ScrapeTypes
    <2>3. \A u \in feAdded : feReturned'[u] = 1 \/ u \in feDropped'
      BY <1>1, <1>5, <1>6, <2>1, <2>2
    <2>4. \A u \in kept : feReturned'[u] = 1 \/ u \in feDropped'
      BY <1>3, <1>6, <1>13
    <2> QED
      BY <1>1, <2>3, <2>4 DEF Accounted
  <1>16. ByKind'
    BY <1>1, <1>8 DEF ScrapeInv, ByKind
  <1> QED
    BY <1>11, <1>12, <1>14, <1>15, <1>16 DEF ScrapeInv

\* The browser loads a page.
LEMMA BrowserGotoKeeps ==
  ASSUME ScrapeInv, NEW s \in Scrapes, NEW page \in FE!Pages, FE!BrowserGoto(s, page) PROVE ScrapeInv'
  <1>1. /\ feScrape[s].pc = "fetching" /\ feKind = "browser"
        /\ feScrape' = [feScrape EXCEPT ![s].pc = "reading", ![s].todo = page]
        /\ feKind' = feKind /\ feSeen' = feSeen /\ feAdded' = feAdded /\ feReturned' = feReturned /\ feDropped' = feDropped
    BY DEF FE!BrowserGoto
  <1>2. feScrape[s] \in Calling /\ page \in Seq(Urls) /\ feScrape \in [Scrapes -> Calling]
    BY PagesAreRows DEF ScrapeInv, ScrapeTypes
  <1>3. PICK r : r = [feScrape[s] EXCEPT !.pc = "reading", !.todo = page]
    OBVIOUS
  <1>4. r \in Calling /\ r.items = feScrape[s].items
    BY <1>2, <1>3 DEF Calling
  <1>5. feScrape' = [feScrape EXCEPT ![s] = r]
    BY <1>1, <1>2, <1>3
  <1>6. s \in FE!Holding
    BY <1>1 DEF FE!Holding
  <1>7. /\ feScrape' \in [Scrapes -> Calling] /\ feScrape'[s] = r
        /\ \A t \in Scrapes : t # s => feScrape'[t] = feScrape[t]
        /\ IsFiniteSet(FE!Holding') /\ Cardinality(FE!Holding') <= Slots
    BY <1>4, <1>5, <1>6, CallReplaced
  <1>8. \A t \in Scrapes : feScrape'[t].items = feScrape[t].items
    BY <1>4, <1>7
  <1>9. ScrapeTypes'
    BY <1>1, <1>7 DEF ScrapeInv, ScrapeTypes
  <1>10. ByKind'
    BY <1>1 DEF ByKind
  <1> QED
    BY <1>1, <1>8, <1>9, <1>10 DEF ScrapeInv, Marked, OnePlace, Accounted

\* The browser reads one element of the page, and marks it when it is fresh.
LEMMA BrowserElementKeeps ==
  ASSUME ScrapeInv, NEW s \in Scrapes, FE!BrowserElement(s) PROVE ScrapeInv'
  <1> PICK url : url = Head(feScrape[s].todo)
    OBVIOUS
  <1>1. /\ feScrape[s].pc = "reading" /\ feScrape[s].todo # <<>> /\ feSeen' = FE!Collect(<<url>>, feSeen)
        /\ feKind' = feKind /\ feReturned' = feReturned /\ feDropped' = feDropped
    BY DEF FE!BrowserElement
  <1>a. feKind = "browser"
    BY <1>1 DEF ScrapeInv, ByKind
  <1>2. feScrape[s] \in Calling /\ feScrape \in [Scrapes -> Calling]
    BY DEF ScrapeInv, ScrapeTypes
  <1>3. /\ feScrape[s].todo \in Seq(Urls) /\ feScrape[s].items \in Seq(Urls)
    BY <1>2 DEF Calling
  <1>4. url \in Urls /\ Tail(feScrape[s].todo) \in Seq(Urls)
    BY <1>1, <1>3
  <1>5. feSeen' = feSeen \cup Positions[url] /\ (FE!Fresh(<<url>>, feSeen) # {} <=> ~(Positions[url] \subseteq feSeen))
    <2>1. DOMAIN <<url>> = {1} /\ <<url>>[1] = url /\ 1..1 - 1 = {}
      OBVIOUS
    <2>2. UNION {Positions[<<url>>[i]] : i \in DOMAIN <<url>>} = Positions[url]
      BY <2>1
    <2>3. FE!Fresh(<<url>>, feSeen) # {} <=> ~(Positions[url] \subseteq feSeen)
      BY <2>1 DEF FE!Fresh
    <2> QED
      BY <1>1, <2>2, <2>3 DEF FE!Collect
  <1>6. s \in FE!Holding
    BY <1>1 DEF FE!Holding
  <1>7. CASE Positions[url] \subseteq feSeen
    <2>1. feAdded' = feAdded /\ feScrape' = [feScrape EXCEPT ![s].todo = Tail(@), ![s].items = @]
      BY <1>5, <1>7 DEF FE!BrowserElement
    <2>2. PICK r : r = [feScrape[s] EXCEPT !.todo = Tail(feScrape[s].todo)]
      OBVIOUS
    <2>3. r \in Calling /\ r.items = feScrape[s].items
      BY <1>2, <1>4, <2>2 DEF Calling
    <2>4. feScrape' = [feScrape EXCEPT ![s] = r]
      BY <1>2, <2>1, <2>2 DEF Calling
    <2>5. /\ feScrape' \in [Scrapes -> Calling] /\ feScrape'[s] = r
          /\ \A t \in Scrapes : t # s => feScrape'[t] = feScrape[t]
          /\ IsFiniteSet(FE!Holding') /\ Cardinality(FE!Holding') <= Slots
      BY <1>6, <2>3, <2>4, CallReplaced
    <2>6. \A t \in Scrapes : feScrape'[t].items = feScrape[t].items
      BY <2>3, <2>5
    <2>7. ScrapeTypes'
      BY <1>1, <2>1, <2>5 DEF ScrapeInv, ScrapeTypes
    <2>8. feSeen' = feSeen
      BY <1>5, <1>7
    <2>9. ByKind'
      BY <1>1, <1>a DEF ByKind
    <2> QED
      BY <1>1, <2>1, <2>6, <2>7, <2>8, <2>9 DEF ScrapeInv, Marked, OnePlace, Accounted
  <1>8. CASE ~(Positions[url] \subseteq feSeen)
    <2>1. /\ feAdded' = feAdded \cup {url}
          /\ feScrape' = [feScrape EXCEPT ![s].todo = Tail(@), ![s].items = Append(@, url)]
      BY <1>5, <1>8 DEF FE!BrowserElement
    <2>2. PICK r : r = [feScrape[s] EXCEPT !.todo = Tail(feScrape[s].todo),
                                         !.items = Append(feScrape[s].items, url)]
      OBVIOUS
    <2>3. r \in Calling /\ r.items = Append(feScrape[s].items, url)
      <3>1. PICK q \in Seq(Urls) : q = Append(feScrape[s].items, url)
        BY <1>3, <1>4, AppendProperties
      <3>2. r = [feScrape[s] EXCEPT !.todo = Tail(feScrape[s].todo), !.items = q]
        BY <2>2, <3>1
      <3>3. r \in Calling /\ r.items = q
        BY <1>2, <1>4, <3>2 DEF Calling
      <3> QED
        BY <3>1, <3>3
    <2>4. feScrape' = [feScrape EXCEPT ![s] = r]
      BY <1>2, <2>1, <2>2 DEF Calling
    <2>5. /\ feScrape' \in [Scrapes -> Calling] /\ feScrape'[s] = r
          /\ \A t \in Scrapes : t # s => feScrape'[t] = feScrape[t]
          /\ IsFiniteSet(FE!Holding') /\ Cardinality(FE!Holding') <= Slots
      BY <1>6, <2>3, <2>4, CallReplaced
    <2>6. FE!ToSet(feScrape'[s].items) = FE!ToSet(feScrape[s].items) \cup {url}
      <3>1. PICK q \in Seq(Urls) : q = feScrape[s].items
        BY <1>3
      <3>2. Len(Append(q, url)) = Len(q) + 1 /\ \A i \in 1..Len(q) : Append(q, url)[i] = q[i]
        BY <1>4, <3>1
      <3>3. Append(q, url)[Len(q) + 1] = url /\ DOMAIN Append(q, url) = 1..Len(q) + 1 /\ DOMAIN q = 1..Len(q)
        BY <1>4, <3>1
      <3>4. Len(q) \in Nat
        BY <3>1
      <3>5. FE!ToSet(Append(q, url)) = FE!ToSet(q) \cup {url}
        BY <3>2, <3>3, <3>4 DEF FE!ToSet
      <3> QED
        BY <2>3, <2>5, <3>1, <3>5
    <2>7. url \notin feAdded
      BY <1>8 DEF ScrapeInv, Marked
    <2>8. feReturned[url] = 0 /\ url \notin feDropped /\ \A t \in Scrapes : url \notin FE!ToSet(feScrape[t].items)
      BY <1>4, <2>7 DEF ScrapeInv, OnePlace, ScrapeTypes
    <2>9. ScrapeTypes'
      BY <1>1, <1>4, <2>1, <2>5 DEF ScrapeInv, ScrapeTypes
    <2>10. Marked'
      BY <1>5, <2>1 DEF ScrapeInv, Marked
    <2>11. OnePlace'
      <3>1. \A u \in Urls : feReturned'[u] <= 1 /\ (feReturned'[u] = 1 => u \in feAdded' /\ u \notin feDropped')
        BY <1>1, <2>1 DEF ScrapeInv, OnePlace
      <3>2. \A t \in Scrapes : \A u \in FE!ToSet(feScrape'[t].items) :
              u \in feAdded' /\ u \notin feDropped' /\ feReturned'[u] = 0
        BY <1>1, <2>1, <2>5, <2>6, <2>8 DEF ScrapeInv, OnePlace
      <3>3. \A t, v \in Scrapes : t # v => FE!ToSet(feScrape'[t].items) \cap FE!ToSet(feScrape'[v].items) = {}
        BY <2>5, <2>6, <2>8 DEF ScrapeInv, OnePlace
      <3> QED
        BY <3>1, <3>2, <3>3 DEF OnePlace
    <2>12. Accounted'
      BY <1>1, <2>1, <2>5, <2>6 DEF ScrapeInv, Accounted
    <2>13. ByKind'
      BY <1>1, <1>a DEF ByKind
    <2> QED
      BY <2>9, <2>10, <2>11, <2>12, <2>13 DEF ScrapeInv
  <1> QED
    BY <1>7, <1>8

\* The browser has read the page: what it cuts off is lost.
LEMMA BrowserDoneKeeps ==
  ASSUME ScrapeInv, NEW s \in Scrapes, FE!BrowserDone(s) PROVE ScrapeInv'
  <1> PICK all, some : all = FE!ToSet(feScrape[s].items) /\ some = FE!ToSet(FE!Cut(feScrape[s].items))
    OBVIOUS
  <1>1. /\ FE!Release(s) /\ FE!Return(some) /\ feDropped' = feDropped \cup (all \ some)
        /\ feKind' = feKind /\ feSeen' = feSeen /\ feAdded' = feAdded
    BY DEF FE!BrowserDone
  <1>a. feKind = "browser"
    BY DEF FE!BrowserDone, ScrapeInv, ByKind
  <1>2. some \subseteq all
    <2>1. feScrape[s].items \in Seq(Urls)
      BY DEF ScrapeInv, ScrapeTypes, Calling
    <2> QED
      BY <2>1, CutIsPart
  <1>3. all \subseteq feAdded /\ feAdded \subseteq Urls /\ \A u \in all : u \notin feDropped /\ feReturned[u] = 0
    BY DEF ScrapeInv, OnePlace, ScrapeTypes
  <1>4. /\ feReturned' \in [Urls -> Nat]
        /\ \A u \in Urls : u \in some => feReturned'[u] = feReturned[u] + 1
        /\ \A u \in Urls : u \notin some => feReturned'[u] = feReturned[u]
    BY <1>1, Returns
  <1>5. /\ feScrape' \in [Scrapes -> Calling] /\ feScrape'[s] = FE!NoScrape
        /\ \A t \in Scrapes : t # s => feScrape'[t] = feScrape[t]
        /\ IsFiniteSet(FE!Holding') /\ Cardinality(FE!Holding') <= Slots
    BY <1>1, CallReplaced, NoScrapeFacts DEF FE!Release
  <1>6. FE!ToSet(feScrape'[s].items) = {}
    BY <1>5, NoScrapeFacts, NoItems
  <1>7. \A u \in some : feReturned'[u] = 1
    BY <1>2, <1>3, <1>4
  <1>8. ScrapeTypes'
    BY <1>1, <1>3, <1>4, <1>5 DEF ScrapeInv, ScrapeTypes
  <1>9. Marked'
    BY <1>1 DEF ScrapeInv, Marked
  <1>10. OnePlace'
    <2>1. \A u \in Urls : feReturned'[u] <= 1 /\ (feReturned'[u] = 1 => u \in feAdded' /\ u \notin feDropped')
      <3> TAKE u \in Urls
      <3>1. CASE u \in some
        BY <1>1, <1>2, <1>3, <1>7, <3>1
      <3>2. CASE u \notin some
        BY <1>1, <1>3, <1>4, <3>2 DEF ScrapeInv, OnePlace
      <3> QED
        BY <3>1, <3>2
    <2>2. ASSUME NEW t \in Scrapes, NEW u \in FE!ToSet(feScrape'[t].items)
          PROVE  u \in feAdded' /\ u \notin feDropped' /\ feReturned'[u] = 0
      <3>1. t # s /\ u \in FE!ToSet(feScrape[t].items)
        BY <1>5, <1>6, <2>2
      <3>2. u \notin all /\ u \in feAdded /\ u \notin feDropped /\ feReturned[u] = 0
        BY <3>1 DEF ScrapeInv, OnePlace
      <3> QED
        BY <1>1, <1>2, <1>3, <1>4, <3>2
    <2>3. \A t, v \in Scrapes : t # v => FE!ToSet(feScrape'[t].items) \cap FE!ToSet(feScrape'[v].items) = {}
      BY <1>5, <1>6 DEF ScrapeInv, OnePlace
    <2> QED
      BY <2>1, <2>2, <2>3 DEF OnePlace
  <1>11. Accounted'
    <2> SUFFICES ASSUME NEW u \in feAdded
                 PROVE  \/ feReturned'[u] = 1 \/ u \in feDropped'
                        \/ \E t \in Scrapes : u \in FE!ToSet(feScrape'[t].items)
      BY <1>1 DEF Accounted
    <2>1. CASE u \in all
      BY <1>1, <1>7, <2>1
    <2>2. CASE u \notin all
      <3>1. u \notin some /\ u \in Urls
        BY <1>2, <1>3, <2>2
      <3> QED
        BY <1>1, <1>4, <1>5, <2>2, <3>1 DEF ScrapeInv, Accounted
    <2> QED
      BY <2>1, <2>2
  <1>12. ByKind'
    BY <1>1, <1>a DEF ByKind
  <1> QED
    BY <1>8, <1>9, <1>10, <1>11, <1>12 DEF ScrapeInv

\* Every step of the scrapers keeps the invariant.
LEMMA ScraperKeeps == ASSUME ScrapeInv, FE!ScrapeStep PROVE ScrapeInv'
  <1>1. PICK s \in Scrapes :
          \/ FE!Scrape(s) \/ FE!ScrapeAttemptFails(s)
          \/ \E page \in FE!Pages : \/ FE!ScrapePage(s, page) \/ FE!ScrapePageFails(s, page)
                                    \/ FE!BrowserGoto(s, page)
          \/ FE!BrowserElement(s) \/ FE!BrowserDone(s)
    BY DEF FE!ScrapeStep
  <1> QED
    BY <1>1, ScrapeKeeps, ScrapeAttemptFailsKeeps, ScrapePageKeeps, BrowserGotoKeeps,
       BrowserElementKeeps, BrowserDoneKeeps

FetchInv == DedupInv /\ ScrapeInv

\* Nothing was fetched and nothing scraped.
LEMMA FetchInit == FE!Init => FetchInv
  BY DedupInit, ScrapeInit DEF FetchInv

\* Every step keeps both invariants.
LEMMA FetchNext == ASSUME FetchInv, [FE!Next]_(FE!fetchVars) PROVE FetchInv'
  <1>1. CASE FE!DedupStep
    <2>1. UNCHANGED FE!scraperVars
      BY <1>1 DEF FE!DedupStep, FE!Reset, FE!SetUrlFilter, FE!FetchDedup, FE!FetchSucceeds, FE!FetchAttemptFails
    <2> QED
      BY <1>1, <2>1, DedupKeeps, ScraperFrame DEF FetchInv
  <1>2. CASE FE!ScrapeStep
    <2>1. UNCHANGED FE!dedupVars
      BY <1>2 DEF FE!ScrapeStep, FE!Scrape, FE!ScrapeAttemptFails, FE!ScrapePage, FE!ScrapePageFails,
                  FE!BrowserGoto, FE!BrowserElement, FE!BrowserDone
    <2> QED
      BY <1>2, <2>1, ScraperKeeps, DedupFrame DEF FetchInv
  <1>3. CASE UNCHANGED FE!fetchVars
    <2>1. UNCHANGED FE!dedupVars /\ UNCHANGED FE!scraperVars
      BY <1>3 DEF FE!fetchVars
    <2> QED
      BY <2>1, DedupFrame, ScraperFrame DEF FetchInv
  <1> QED
    BY <1>1, <1>2, <1>3 DEF FE!Next

\* What the invariants say of the properties.
LEMMA FetchImplies == ASSUME FetchInv PROVE FE!TypeOK /\ FE!SeenIsFetched /\ FE!ScrapedOnce
  <1>1. DedupInv /\ ScrapeInv
    BY DEF FetchInv
  <1>2. \A f \in Fetchers : feFetch[f].attempt \in 0..FetchAttempts - 1
    BY <1>1 DEF DedupInv, DedupTypes
  <1>3. \A s \in Scrapes : feScrape[s].attempt \in 0..FetchAttempts - 1
    BY <1>1 DEF ScrapeInv, ScrapeTypes, Calling
  <1>4. FE!TypeOK
    BY <1>1, <1>2, <1>3, FiniteIsFinite DEF FE!TypeOK, DedupInv, DedupTypes, Strategies, ScrapeInv, ScrapeTypes
  <1>5. FE!SeenIsFetched
    BY <1>1 DEF DedupInv
  <1>6. PICK pending : pending = UNION {FE!ToSet(feScrape[s].items) : s \in Scrapes}
    OBVIOUS
  <1>7. \A s \in Scrapes : FE!ToSet(feScrape[s].items) \subseteq pending
    BY <1>6
  <1>8. feAdded \subseteq {u \in Urls : feReturned[u] = 1} \cup pending \cup feDropped
    <2> SUFFICES ASSUME NEW u \in feAdded, feReturned[u] # 1, u \notin feDropped PROVE u \in pending
      BY <1>1 DEF ScrapeInv, ScrapeTypes
    <2>1. \E s \in Scrapes : u \in FE!ToSet(feScrape[s].items)
      BY <1>1 DEF ScrapeInv, Accounted
    <2> QED
      BY <1>7, <2>1
  <1>9. \A u \in Urls : feReturned[u] <= 1
    BY <1>1 DEF ScrapeInv, OnePlace
  <1>10. feKind = "html" => feDropped = {}
    BY <1>1 DEF ScrapeInv, ByKind
  <1>a. \A u \in feDropped : feReturned[u] = 0
    <2> TAKE u \in feDropped
    <2>1. u \in Urls /\ feReturned[u] \in Nat
      BY <1>1 DEF ScrapeInv, ScrapeTypes
    <2> QED
      BY <1>1, <2>1 DEF ScrapeInv, OnePlace
  <1>11. FE!ScrapedOnce
    BY <1>6, <1>8, <1>9, <1>10, <1>a, Zenon DEF FE!ScrapedOnce
  <1> QED
    BY <1>4, <1>5, <1>11

\* For any number of URLs and calls and any bits of the filter: what is skipped was
\* fetched or shares its bits, and what a scraper marked was returned once, is about to
\* be, or is lost by a loop or attempt that failed later or by the browser's limit
\* (fetch.py fetch_dedup, scrapers/).
THEOREM FetchesAreSound == FE!Spec => [](FE!SeenIsFetched /\ FE!ScrapedOnce)
  <1>1. FetchInv => FE!SeenIsFetched /\ FE!ScrapedOnce
    BY FetchImplies
  <1>2. FetchInv /\ [FE!Next]_(FE!fetchVars) => FetchInv'
    BY FetchNext
  <1> QED
    BY <1>1, <1>2, FetchInit, PTL DEF FE!Spec

-----------------------------------------------------------------------------
(* McpClient: each refused request adds a call that will log in for sure   *)
(* and empties the cache once, each passed deadline or failed login leaves *)
(* the cache without a token at most once.                                 *)

Labels == {"idle", "wait", "send", "relogin", "login", "login_again", "send_again"}

Relogins == {c \in Tools : MC!At(c, "relogin")}

\* One more login is due to whoever asks for a token first.
Due == IF mcLock = MC!Nobody /\ (mcCached = MC!NoToken \/ mcExpired = TRUE) THEN 1 ELSE 0

ToolTypes ==
  /\ mcPc \in [Tools -> Labels]
  /\ mcToken \in [Tools -> Nat] /\ mcSpent \in [Tools -> Nat]
  /\ mcLock \in Tools \cup {MC!Nobody}

ToolNumbers ==
  /\ mcLogins \in Nat /\ mcLapses \in Nat /\ mcRejected \in Nat /\ mcFailures \in Nat
  /\ mcCached \in Nat /\ mcCached <= mcLogins
  /\ \A c \in Tools : mcToken[c] <= mcLogins
  /\ \A t \in mcAccepted : t \in Nat /\ 0 < t /\ t <= mcLogins

ExpiredType == mcExpired \in BOOLEAN

OneLogin ==
  /\ \A c \in Tools : mcPc[c] \in {"login", "login_again"} <=> mcLock = c
  /\ mcLock # MC!Nobody => mcLogins > 0

TokensAreNewer ==
  \A c \in Tools :
    /\ MC!At(c, "relogin") => mcSpent[c] <= mcLogins
    /\ MC!At(c, "login_again") => mcSpent[c] < mcLogins
    /\ MC!At(c, "send_again") => mcSpent[c] < mcToken[c]

LoginsCounted ==
  /\ IsFiniteSet(Relogins)
  /\ mcLogins + Cardinality(Relogins) + Due <= 1 + mcLapses + 2 * mcRejected + mcFailures

ToolInv == ToolTypes /\ ToolNumbers /\ ExpiredType /\ OneLogin /\ TokensAreNewer /\ LoginsCounted

\* expired is TRUE, FALSE or as it was.
LEMMA ExpiredKeeps ==
  ASSUME ToolInv, mcExpired' = mcExpired \/ mcExpired' = TRUE \/ mcExpired' = FALSE PROVE ExpiredType'
  BY DEF ToolInv, ExpiredType

\* Nobody has logged in.
LEMMA ToolInit == MC!Init => ToolInv
  <1> SUFFICES ASSUME MC!Init PROVE ToolInv
    OBVIOUS
  <1>1. /\ mcPc = [c \in Tools |-> "idle"] /\ mcToken = [c \in Tools |-> 0] /\ mcCached = 0
        /\ mcExpired = FALSE /\ mcLock = MC!Nobody /\ mcAccepted = {} /\ mcLogins = 0 /\ mcLapses = 0
        /\ mcRejected = 0 /\ mcSpent = [c \in Tools |-> 0] /\ mcFailures = 0
    BY DEF MC!Init, MC!NoToken
  <1>2. ToolTypes /\ ToolNumbers
    BY <1>1 DEF ToolTypes, ToolNumbers, Labels
  <1>7. ExpiredType
    BY <1>1 DEF ExpiredType
  <1>3. OneLogin /\ TokensAreNewer
    BY <1>1, ToolsAssumption DEF OneLogin, TokensAreNewer, MC!At, MC!Nobody
  <1>4. Relogins = {}
    BY <1>1 DEF Relogins, MC!At
  <1>5. Due \in {0, 1}
    BY DEF Due
  <1>6. LoginsCounted
    BY <1>1, <1>4, <1>5, FS_EmptySet DEF LoginsCounted
  <1> QED
    BY <1>2, <1>3, <1>6, <1>7 DEF ToolInv

\* What a call that moves on changes of the set of calls that will log in again.
LEMMA ReloginsMove ==
  ASSUME ToolInv, NEW c \in Tools, NEW place \in Labels, mcPc' = [mcPc EXCEPT ![c] = place]
  PROVE  /\ IsFiniteSet(Relogins') /\ Cardinality(Relogins) \in Nat /\ Cardinality(Relogins') \in Nat
         /\ mcPc[c] = "relogin" /\ place # "relogin" =>
              Cardinality(Relogins') = Cardinality(Relogins) - 1
         /\ mcPc[c] # "relogin" /\ place = "relogin" =>
              Cardinality(Relogins') = Cardinality(Relogins) + 1
         /\ mcPc[c] # "relogin" /\ place # "relogin" =>
              Cardinality(Relogins') = Cardinality(Relogins)
         /\ mcPc[c] = "relogin" /\ place = "relogin" =>
              Cardinality(Relogins') = Cardinality(Relogins)
  <1>1. mcPc \in [Tools -> Labels] /\ IsFiniteSet(Relogins)
    BY DEF ToolInv, ToolTypes, ToolNumbers, LoginsCounted
  <1>2. Cardinality(Relogins) \in Nat
    BY <1>1, FS_CardinalityType
  <1>3. CASE place = "relogin"
    <2>1. Relogins' = Relogins \cup {c} /\ (c \in Relogins <=> mcPc[c] = "relogin")
      BY <1>1, <1>3 DEF Relogins, MC!At
    <2> QED
      BY <1>1, <1>2, <1>3, <2>1, FS_AddElement, FS_CardinalityType
  <1>4. CASE place # "relogin"
    <2>1. Relogins' = Relogins \ {c} /\ (c \in Relogins <=> mcPc[c] = "relogin")
      BY <1>1, <1>4 DEF Relogins, MC!At
    <2>2. Cardinality(Relogins \ {c}) = IF c \in Relogins THEN Cardinality(Relogins) - 1
                                                          ELSE Cardinality(Relogins)
      BY <1>1, FS_RemoveElement
    <2>3. IsFiniteSet(Relogins \ {c}) /\ Cardinality(Relogins \ {c}) \in Nat
      BY <1>1, FS_RemoveElement, FS_CardinalityType
    <2> QED
      BY <1>2, <1>4, <2>1, <2>2, <2>3
  <1> QED
    BY <1>3, <1>4

\* The facts of the invariant that every step starts from.
LEMMA ToolFacts ==
  ASSUME ToolInv, NEW c \in Tools
  PROVE  /\ mcPc[c] \in Labels /\ mcToken[c] \in Nat /\ mcToken[c] <= mcLogins /\ mcSpent[c] \in Nat
         /\ mcLogins \in Nat /\ mcLapses \in Nat /\ mcRejected \in Nat /\ mcFailures \in Nat
         /\ mcCached \in Nat /\ mcCached <= mcLogins /\ mcLock \in Tools \cup {MC!Nobody}
         /\ Due \in Nat /\ Due <= 1 /\ Cardinality(Relogins) \in Nat
         /\ mcLogins + Cardinality(Relogins) + Due <= 1 + mcLapses + 2 * mcRejected + mcFailures
  BY FS_CardinalityType DEF ToolInv, ToolTypes, ToolNumbers, LoginsCounted, Due

\* A call takes the cached token or asks for the lock.
LEMMA BeginKeeps == ASSUME ToolInv, NEW c \in Tools, MC!Begin(c) PROVE ToolInv'
  <1>1. /\ mcPc[c] = "idle" /\ mcCached' = mcCached /\ mcExpired' = mcExpired /\ mcLock' = mcLock
        /\ mcAccepted' = mcAccepted /\ mcLogins' = mcLogins /\ mcLapses' = mcLapses
        /\ mcRejected' = mcRejected /\ mcFailures' = mcFailures /\ mcSpent' = [mcSpent EXCEPT ![c] = 0]
    BY DEF MC!Begin, MC!At, MC!NoToken
  <1>2. PICK place \in {"send", "wait"} :
          /\ mcPc' = [mcPc EXCEPT ![c] = place]
          /\ mcToken' = mcToken \/ mcToken' = [mcToken EXCEPT ![c] = mcCached]
    BY DEF MC!Begin, MC!Goto
  <1>3. place \in Labels /\ place # "relogin"
    BY DEF Labels
  <1>4. ToolTypes' /\ ToolNumbers'
    BY <1>1, <1>2, <1>3 DEF ToolInv, ToolTypes, ToolNumbers
  <1>5. OneLogin'
    BY <1>1, <1>2 DEF ToolInv, ToolTypes, ToolNumbers, OneLogin
  <1>6. TokensAreNewer'
    BY <1>1, <1>2 DEF ToolInv, ToolTypes, ToolNumbers, TokensAreNewer, MC!At
  <1>7. Due' = Due
    BY <1>1 DEF Due
  <1>8. LoginsCounted'
    <2>1. /\ mcLogins \in Nat /\ mcLapses \in Nat /\ mcRejected \in Nat /\ mcFailures \in Nat
          /\ Due \in Nat /\ Due <= 1 /\ Cardinality(Relogins) \in Nat
          /\ mcLogins + Cardinality(Relogins) + Due <= 1 + mcLapses + 2 * mcRejected + mcFailures
      BY ToolFacts
    <2>2. IsFiniteSet(Relogins') /\ Cardinality(Relogins') = Cardinality(Relogins)
      BY <1>1, <1>2, <1>3, <1>7, ReloginsMove
    <2> QED
      BY <2>1, <2>2, <1>1, <1>2, <1>3, <1>7 DEF LoginsCounted
  <1>x. ExpiredType'
    BY <1>1, ExpiredKeeps
  <1> QED
    BY <1>4, <1>5, <1>6, <1>8, <1>x DEF ToolInv

\* A call gets the lock, and logs in unless another did meanwhile.
LEMMA AcquireKeeps == ASSUME ToolInv, NEW c \in Tools, MC!Acquire(c) PROVE ToolInv'
  <1>1. /\ mcPc[c] \in {"wait", "relogin"} /\ mcLock = MC!Nobody /\ mcCached' = mcCached /\ mcExpired' = mcExpired
        /\ mcAccepted' = mcAccepted /\ mcLapses' = mcLapses
        /\ mcRejected' = mcRejected /\ mcFailures' = mcFailures /\ mcSpent' = mcSpent
    BY DEF MC!Acquire, MC!history
  <1>2. CASE MC!Rechecks(c)
    <2>1. /\ mcPc[c] = "wait" /\ mcPc' = [mcPc EXCEPT ![c] = "send"] /\ mcToken' = [mcToken EXCEPT ![c] = mcCached]
          /\ mcLock' = mcLock /\ mcLogins' = mcLogins
      BY <1>2 DEF MC!Acquire, MC!Goto, MC!Rechecks, MC!At
    <2>2. "send" \in Labels
      BY DEF Labels
    <2>3. ToolTypes' /\ ToolNumbers'
      BY <1>1, <2>1, <2>2 DEF ToolInv, ToolTypes, ToolNumbers
    <2>4. OneLogin'
      BY <1>1, <2>1 DEF ToolInv, ToolTypes, ToolNumbers, OneLogin
    <2>5. TokensAreNewer'
      BY <1>1, <2>1 DEF ToolInv, ToolTypes, ToolNumbers, TokensAreNewer, MC!At
    <2>6. Due' = Due
      BY <1>1, <2>1 DEF Due
    <2>7. LoginsCounted'
      <3>1. /\ mcLogins \in Nat /\ mcLapses \in Nat /\ mcRejected \in Nat /\ mcFailures \in Nat
            /\ Due \in Nat /\ Due <= 1 /\ Cardinality(Relogins) \in Nat
            /\ mcLogins + Cardinality(Relogins) + Due <= 1 + mcLapses + 2 * mcRejected + mcFailures
        BY ToolFacts
      <3>2. IsFiniteSet(Relogins') /\ Cardinality(Relogins') = Cardinality(Relogins)
        BY <1>1, <2>1, <2>2, <2>6, ReloginsMove
      <3> QED
        BY <3>1, <3>2, <1>1, <2>1, <2>2, <2>6 DEF LoginsCounted
    <2>x. ExpiredType'
      BY <1>1, ExpiredKeeps
    <2> QED
      BY <2>3, <2>4, <2>5, <2>7, <2>x DEF ToolInv
  <1>3. CASE ~MC!Rechecks(c)
    <2>1. PICK place \in {"login", "login_again"} :
            /\ mcPc' = [mcPc EXCEPT ![c] = place]
            /\ place = "login_again" => mcPc[c] = "relogin"
            /\ mcLock' = c /\ mcLogins' = mcLogins + 1 /\ mcToken' = mcToken
      BY <1>1, <1>3 DEF MC!Acquire, MC!Goto, MC!At
    <2>2. place \in Labels /\ place # "relogin"
      BY DEF Labels
    <2>3. ToolTypes' /\ ToolNumbers'
      BY <1>1, <2>1, <2>2 DEF ToolInv, ToolTypes, ToolNumbers
    <2>4. OneLogin'
      BY <1>1, <2>1, ToolsAssumption DEF ToolInv, ToolTypes, ToolNumbers, OneLogin, MC!Nobody
    <2>5. TokensAreNewer'
      BY <1>1, <2>1 DEF ToolInv, ToolTypes, ToolNumbers, TokensAreNewer, MC!At
    <2>6. Due' = 0
      BY <2>1, ToolsAssumption DEF Due, MC!Nobody
    <2>7. mcPc[c] = "wait" => Due = 1
      <3> SUFFICES ASSUME mcPc[c] = "wait" PROVE Due = 1
        BY DEF Due
      <3>1. mcCached = MC!NoToken \/ mcExpired = TRUE
        BY <1>3 DEF MC!Rechecks, MC!At, MC!Usable, ToolInv, ToolTypes
      <3> QED
        BY <1>1, <3>1 DEF Due
    <2>8. LoginsCounted'
      <3>1. CASE mcPc[c] = "wait"
        <4>1. /\ mcLogins \in Nat /\ mcLapses \in Nat /\ mcRejected \in Nat /\ mcFailures \in Nat
              /\ Due \in Nat /\ Due <= 1 /\ Cardinality(Relogins) \in Nat
              /\ mcLogins + Cardinality(Relogins) + Due <= 1 + mcLapses + 2 * mcRejected + mcFailures
          BY ToolFacts
        <4>2. IsFiniteSet(Relogins') /\ Cardinality(Relogins') = Cardinality(Relogins)
          BY <3>1, <1>1, <2>1, <2>2, <2>6, <2>7, ReloginsMove
        <4> QED
          BY <4>1, <4>2, <3>1, <1>1, <2>1, <2>2, <2>6, <2>7 DEF LoginsCounted
      <3>2. CASE mcPc[c] = "relogin"
        <4>1. /\ mcLogins \in Nat /\ mcLapses \in Nat /\ mcRejected \in Nat /\ mcFailures \in Nat
              /\ Due \in Nat /\ Due <= 1 /\ Cardinality(Relogins) \in Nat
              /\ mcLogins + Cardinality(Relogins) + Due <= 1 + mcLapses + 2 * mcRejected + mcFailures
          BY ToolFacts
        <4>2. IsFiniteSet(Relogins') /\ Cardinality(Relogins') = Cardinality(Relogins) - 1
          BY <3>2, <1>1, <2>1, <2>2, <2>6, <2>7, ReloginsMove
        <4> QED
          BY <4>1, <4>2, <3>2, <1>1, <2>1, <2>2, <2>6, <2>7 DEF LoginsCounted
      <3> QED
        BY <1>1, <3>1, <3>2
    <2>x. ExpiredType'
      BY <1>1, ExpiredKeeps
    <2> QED
      BY <2>3, <2>4, <2>5, <2>8, <2>x DEF ToolInv
  <1> QED
    BY <1>2, <1>3

\* The login answers or fails, and the lock is free.
LEMMA LoginKeeps == ASSUME ToolInv, NEW c \in Tools, MC!Login(c) \/ MC!LoginFails(c) PROVE ToolInv'
  <1>1. /\ mcPc[c] \in {"login", "login_again"} /\ mcLock' = MC!Nobody /\ mcLogins' = mcLogins
        /\ mcLapses' = mcLapses /\ mcRejected' = mcRejected /\ mcSpent' = mcSpent
    BY DEF MC!Login, MC!LoginFails, MC!history
  <1>2. mcLock = c /\ \A d \in Tools : d # c => mcPc[d] \notin {"login", "login_again"}
    BY <1>1 DEF ToolInv, OneLogin
  <1>3. CASE MC!Login(c)
    <2>1. PICK place \in {"send", "send_again"} :
            /\ mcPc' = [mcPc EXCEPT ![c] = place]
            /\ place = "send_again" => mcPc[c] = "login_again"
      BY <1>1, <1>3 DEF MC!Login, MC!Goto, MC!At
    <2>2. mcCached' = mcLogins /\ mcExpired' = FALSE /\ mcFailures' = mcFailures
      BY <1>3 DEF MC!Login, MC!history
    <2>a. mcAccepted' = mcAccepted \cup {mcLogins} /\ mcToken' = [mcToken EXCEPT ![c] = mcLogins]
      BY <1>3 DEF MC!Login
    <2>3. place \in Labels /\ place # "relogin" /\ place \notin {"login", "login_again"}
      BY DEF Labels
    <2>4. mcLogins > 0 /\ mcLogins \in Nat
      BY <1>2, ToolsAssumption DEF ToolInv, OneLogin, ToolNumbers, MC!Nobody
    <2>5. ToolTypes' /\ ToolNumbers'
      BY <1>1, <2>1, <2>2, <2>a, <2>3, <2>4 DEF ToolInv, ToolTypes, ToolNumbers
    <2>6. OneLogin'
      BY <1>1, <1>2, <2>1, <2>3, ToolsAssumption DEF ToolInv, ToolTypes, ToolNumbers, OneLogin, MC!Nobody
    <2>7. TokensAreNewer'
      BY <1>1, <2>1, <2>2, <2>a DEF ToolInv, ToolTypes, ToolNumbers, TokensAreNewer, MC!At
    <2>8. Due' = 0
      BY <2>2, <2>4 DEF Due, MC!NoToken
    <2>9. LoginsCounted'
      <3>1. /\ mcLogins \in Nat /\ mcLapses \in Nat /\ mcRejected \in Nat /\ mcFailures \in Nat
            /\ Due \in Nat /\ Due <= 1 /\ Cardinality(Relogins) \in Nat
            /\ mcLogins + Cardinality(Relogins) + Due <= 1 + mcLapses + 2 * mcRejected + mcFailures
        BY ToolFacts
      <3>2. IsFiniteSet(Relogins') /\ Cardinality(Relogins') = Cardinality(Relogins)
        BY <1>1, <2>1, <2>2, <2>3, <2>8, ReloginsMove
      <3> QED
        BY <3>1, <3>2, <1>1, <2>1, <2>2, <2>3, <2>8 DEF LoginsCounted
    <2>x. ExpiredType'
      BY <2>2, ExpiredKeeps
    <2> QED
      BY <2>5, <2>6, <2>7, <2>9, <2>x DEF ToolInv
  <1>4. CASE MC!LoginFails(c)
    <2>1. /\ mcPc' = [mcPc EXCEPT ![c] = "idle"] /\ mcFailures' = mcFailures + 1
          /\ mcCached' = mcCached /\ mcExpired' = mcExpired /\ mcToken' = mcToken /\ mcAccepted' = mcAccepted
      BY <1>4 DEF MC!LoginFails, MC!Goto
    <2>2. "idle" \in Labels
      BY DEF Labels
    <2>3. ToolTypes' /\ ToolNumbers'
      BY <1>1, <2>1, <2>2 DEF ToolInv, ToolTypes, ToolNumbers
    <2>4. OneLogin'
      BY <1>1, <1>2, <2>1, ToolsAssumption DEF ToolInv, ToolTypes, ToolNumbers, OneLogin, MC!Nobody
    <2>5. TokensAreNewer'
      BY <1>1, <2>1 DEF ToolInv, ToolTypes, ToolNumbers, TokensAreNewer, MC!At
    <2>6. Due' \in Nat /\ Due' <= 1
      BY DEF Due
    <2>7. Due = 0
      BY <1>2, ToolsAssumption DEF Due, MC!Nobody
    <2>8. LoginsCounted'
      <3>1. /\ mcLogins \in Nat /\ mcLapses \in Nat /\ mcRejected \in Nat /\ mcFailures \in Nat
            /\ Due \in Nat /\ Due <= 1 /\ Cardinality(Relogins) \in Nat
            /\ mcLogins + Cardinality(Relogins) + Due <= 1 + mcLapses + 2 * mcRejected + mcFailures
        BY ToolFacts
      <3>2. IsFiniteSet(Relogins') /\ Cardinality(Relogins') = Cardinality(Relogins)
        BY <1>1, <2>1, <2>2, <2>6, <2>7, ReloginsMove
      <3> QED
        BY <3>1, <3>2, <1>1, <2>1, <2>2, <2>6, <2>7 DEF LoginsCounted
    <2>x. ExpiredType'
      BY <2>1, ExpiredKeeps
    <2> QED
      BY <2>3, <2>4, <2>5, <2>8, <2>x DEF ToolInv
  <1> QED
    BY <1>3, <1>4

\* The token is accepted or refused; a refused call drops it from the cache.
LEMMA AnswerKeeps == ASSUME ToolInv, NEW c \in Tools, MC!Answer(c) \/ MC!AnswerAgain(c) PROVE ToolInv'
  <1>1. /\ mcPc[c] \in {"send", "send_again"} /\ mcLock' = mcLock /\ mcToken' = mcToken /\ mcAccepted' = mcAccepted
        /\ mcLogins' = mcLogins /\ mcLapses' = mcLapses /\ mcFailures' = mcFailures
    BY DEF MC!Answer, MC!AnswerAgain, MC!At, MC!history
  <1>2. \/ /\ mcPc' = [mcPc EXCEPT ![c] = "idle"] /\ mcCached' = mcCached /\ mcExpired' = mcExpired
           /\ mcRejected' = mcRejected /\ mcSpent' = mcSpent
        \/ /\ mcPc' = [mcPc EXCEPT ![c] = "relogin"] /\ mcCached' = 0 /\ mcExpired' = FALSE
           /\ mcRejected' = mcRejected + 1 /\ mcSpent' = [mcSpent EXCEPT ![c] = mcToken[c]]
    BY DEF MC!Answer, MC!AnswerAgain, MC!Goto, MC!Discard, MC!NoToken, MC!history
  <1>3. "idle" \in Labels /\ "relogin" \in Labels
    BY DEF Labels
  <1>4. CASE mcPc' = [mcPc EXCEPT ![c] = "idle"] /\ mcCached' = mcCached /\ mcExpired' = mcExpired
             /\ mcRejected' = mcRejected /\ mcSpent' = mcSpent
    <2>1. ToolTypes' /\ ToolNumbers'
      BY <1>1, <1>3, <1>4 DEF ToolInv, ToolTypes, ToolNumbers
    <2>2. OneLogin'
      BY <1>1, <1>4 DEF ToolInv, ToolTypes, ToolNumbers, OneLogin
    <2>3. TokensAreNewer'
      BY <1>1, <1>4 DEF ToolInv, ToolTypes, ToolNumbers, TokensAreNewer, MC!At
    <2>4. Due' = Due
      BY <1>1, <1>4 DEF Due
    <2>5. LoginsCounted'
      <3>1. /\ mcLogins \in Nat /\ mcLapses \in Nat /\ mcRejected \in Nat /\ mcFailures \in Nat
            /\ Due \in Nat /\ Due <= 1 /\ Cardinality(Relogins) \in Nat
            /\ mcLogins + Cardinality(Relogins) + Due <= 1 + mcLapses + 2 * mcRejected + mcFailures
        BY ToolFacts
      <3>2. IsFiniteSet(Relogins') /\ Cardinality(Relogins') = Cardinality(Relogins)
        BY <1>1, <1>3, <1>4, <2>4, ReloginsMove
      <3> QED
        BY <3>1, <3>2, <1>1, <1>3, <1>4, <2>4 DEF LoginsCounted
    <2>x. ExpiredType'
      BY <1>4, ExpiredKeeps
    <2> QED
      BY <2>1, <2>2, <2>3, <2>5, <2>x DEF ToolInv
  <1>5. CASE mcPc' = [mcPc EXCEPT ![c] = "relogin"] /\ mcCached' = 0 /\ mcExpired' = FALSE
             /\ mcRejected' = mcRejected + 1 /\ mcSpent' = [mcSpent EXCEPT ![c] = mcToken[c]]
    <2>1. ToolTypes' /\ ToolNumbers'
      BY <1>1, <1>3, <1>5 DEF ToolInv, ToolTypes, ToolNumbers
    <2>2. OneLogin'
      BY <1>1, <1>5 DEF ToolInv, ToolTypes, ToolNumbers, OneLogin
    <2>3. TokensAreNewer'
      BY <1>1, <1>5 DEF ToolInv, ToolTypes, ToolNumbers, TokensAreNewer, MC!At
    <2>4. Due' \in Nat /\ Due' <= 1
      BY DEF Due
    <2>5. LoginsCounted'
      <3>1. /\ mcLogins \in Nat /\ mcLapses \in Nat /\ mcRejected \in Nat /\ mcFailures \in Nat
            /\ Due \in Nat /\ Due <= 1 /\ Cardinality(Relogins) \in Nat
            /\ mcLogins + Cardinality(Relogins) + Due <= 1 + mcLapses + 2 * mcRejected + mcFailures
        BY ToolFacts
      <3>2. IsFiniteSet(Relogins') /\ Cardinality(Relogins') = Cardinality(Relogins) + 1
        BY <1>1, <1>3, <1>5, <2>4, ReloginsMove
      <3> QED
        BY <3>1, <3>2, <1>1, <1>3, <1>5, <2>4 DEF LoginsCounted
    <2>x. ExpiredType'
      BY <1>5, ExpiredKeeps
    <2> QED
      BY <2>1, <2>2, <2>3, <2>5, <2>x DEF ToolInv
  <1> QED
    BY <1>2, <1>4, <1>5

\* Every step keeps the invariant.
LEMMA ToolNext == ASSUME ToolInv, [MC!Next]_(MC!vars) PROVE ToolInv'
  <1>1. CASE MC!DeadlinePasses \/ UNCHANGED MC!vars \/ \E t \in 1..MaxLogins : MC!Withdraw(t)
    <2>1. /\ mcPc' = mcPc /\ mcCached' = mcCached /\ mcLock' = mcLock /\ mcToken' = mcToken /\ mcLogins' = mcLogins
          /\ mcRejected' = mcRejected /\ mcSpent' = mcSpent /\ mcFailures' = mcFailures
          /\ mcAccepted' \subseteq mcAccepted
      BY <1>1 DEF MC!DeadlinePasses, MC!Withdraw, MC!vars, MC!history
    <2>2. \/ mcExpired' = TRUE /\ mcLapses' = mcLapses + 1
          \/ mcExpired' = mcExpired /\ mcLapses' = mcLapses
      BY <1>1 DEF MC!DeadlinePasses, MC!Withdraw, MC!vars
    <2>3. ToolTypes' /\ ToolNumbers'
      BY <2>1, <2>2 DEF ToolInv, ToolTypes, ToolNumbers
    <2>4. OneLogin' /\ TokensAreNewer'
      BY <2>1 DEF ToolInv, OneLogin, TokensAreNewer, MC!At
    <2>5. Due' \in Nat /\ Due' <= 1 /\ (mcExpired' = mcExpired => Due' = Due)
      BY <2>1 DEF Due
    <2>6. Relogins' = Relogins
      BY <2>1 DEF Relogins, MC!At
    <2>7. /\ mcLogins \in Nat /\ mcLapses \in Nat /\ mcRejected \in Nat /\ mcFailures \in Nat
          /\ Cardinality(Relogins) \in Nat /\ Due \in {0, 1} /\ IsFiniteSet(Relogins)
          /\ mcLogins + Cardinality(Relogins) + Due <= 1 + mcLapses + 2 * mcRejected + mcFailures
      BY FS_CardinalityType DEF ToolInv, ToolTypes, ToolNumbers, LoginsCounted, Due
    <2>8. LoginsCounted'
      <3>1. CASE mcExpired' = TRUE /\ mcLapses' = mcLapses + 1
        BY <2>1, <2>5, <2>6, <2>7, <3>1 DEF LoginsCounted
      <3>2. CASE mcExpired' = mcExpired /\ mcLapses' = mcLapses
        BY <2>1, <2>5, <2>6, <2>7, <3>2 DEF LoginsCounted
      <3> QED
        BY <2>2, <3>1, <3>2
    <2>x. ExpiredType'
      BY <2>2, ExpiredKeeps
    <2> QED
      BY <2>3, <2>4, <2>8, <2>x DEF ToolInv
  <1>2. CASE \E c \in Tools : MC!CallStep(c)
    BY <1>2, BeginKeeps, AcquireKeeps, LoginKeeps, AnswerKeeps DEF MC!CallStep
  <1> QED
    BY <1>1, <1>2 DEF MC!Next

\* What the invariant says of the properties.
LEMMA ToolImplies == ASSUME ToolInv PROVE MC!TypeOK /\ MC!LoginsAreNeeded
  <1>1. MC!TypeOK
    BY DEF ToolInv, ToolTypes, ToolNumbers, MC!TypeOK
  <1>2. mcLogins <= 1 + mcLapses + 2 * mcRejected + mcFailures
    BY FS_CardinalityType DEF ToolInv, ToolTypes, ToolNumbers, LoginsCounted, Due
  <1>3. PICK busy : busy = {c \in Tools : mcPc[c] \in {"login", "login_again"}}
    OBVIOUS
  <1>4. Cardinality(busy) <= 1
    <2>1. CASE busy = {}
      BY <2>1, FS_EmptySet
    <2>2. CASE busy # {}
      <3>1. busy = {mcLock}
        BY <1>3, <2>2 DEF ToolInv, OneLogin
      <3>2. Cardinality({mcLock}) = 1
        BY FS_Singleton, Zenon
      <3> QED
        BY <3>1, <3>2
    <2> QED
      BY <2>1, <2>2
  <1>5. \A c \in Tools : MC!At(c, "send_again") => mcToken[c] > mcSpent[c]
    BY DEF ToolInv, ToolTypes, ToolNumbers, TokensAreNewer
  <1> QED
    BY <1>1, <1>2, <1>3, <1>4, <1>5, FiniteIsFinite DEF MC!LoginsAreNeeded

\* For any number of tools: every login has a cause, which is the first one, a passed
\* deadline, a failed login, or a refused request, which causes two at most
\* (auth_client.py get_valid_token and force_relogin).
THEOREM LoginsHaveCauses == MC!Spec => []MC!LoginsAreNeeded
  <1>1. ToolInv => MC!LoginsAreNeeded
    BY ToolImplies
  <1>2. ToolInv /\ [MC!Next]_(MC!vars) => ToolInv'
    BY ToolNext
  <1> QED
    BY <1>1, <1>2, ToolInit, PTL DEF MC!Spec

-----------------------------------------------------------------------------
(* All parts side by side.                                                  *)

\* A step of the composition is a step of one part, or leaves a part as it is.
LEMMA StepsBeside ==
  ASSUME [MCNext]_allVars
  PROVE  /\ [Next]_vars /\ [RE!Next]_(RE!resilienceVars) /\ [JQ!Next]_(JQ!vars)
         /\ [FE!Next]_(FE!fetchVars) /\ [MC!Next]_(MC!vars) /\ part' = part
  <1>1. [Next]_vars /\ part' = part
    BY DEF MCNext, allVars
  <1>2. [RE!Next]_(RE!resilienceVars)
    BY DEF MCNext, allVars, callVars, RE!resilienceVars, RE!bulkheadVars, RE!budgetVars, RE!breaker
  <1>3. [JQ!Next]_(JQ!vars)
    BY DEF MCNext, allVars, queueVars, JQ!vars
  <1>4. [FE!Next]_(FE!fetchVars)
    <2>1. CASE FE!DedupStep \/ FE!ScrapeStep
      BY <2>1 DEF FE!Next
    <2>2. CASE UNCHANGED fetchVars
      BY <2>2 DEF fetchVars, FE!fetchVars, FE!dedupVars, FE!scraperVars
    <2>3. FE!DedupStep \/ FE!ScrapeStep \/ UNCHANGED fetchVars
      BY DEF MCNext, allVars
    <2> QED
      BY <2>1, <2>2, <2>3
  <1>5. [MC!Next]_(MC!vars)
    BY DEF MCNext, allVars, toolVars, MC!vars
  <1> QED
    BY <1>1, <1>2, <1>3, <1>4, <1>5

\* The invariants of all parts.
PartsInv == Inv /\ CallInv /\ QueueInv /\ FetchInv /\ ToolInv

\* Every part keeps its invariant while the others take their steps.
LEMMA PartsKeepInv == MCSpec => []PartsInv
  <1>1. MCInit => PartsInv
    BY InvInit, CallInit, QueueInit, FetchInit, ToolInit DEF MCInit, PartsInv
  <1>2. PartsInv /\ [MCNext]_allVars => PartsInv'
    <2> SUFFICES ASSUME PartsInv, [MCNext]_allVars PROVE PartsInv'
      OBVIOUS
    <2>1. /\ [Next]_vars /\ [RE!Next]_(RE!resilienceVars) /\ [JQ!Next]_(JQ!vars)
          /\ [FE!Next]_(FE!fetchVars) /\ [MC!Next]_(MC!vars)
      BY StepsBeside
    <2>2. Inv' /\ CallInv' /\ QueueInv' /\ FetchInv' /\ ToolInv'
      BY <2>1, InvStep, CallNext, QueueNext, FetchNext, ToolNext DEF PartsInv
    <2> QED
      BY <2>2 DEF PartsInv
  <1> QED
    BY <1>1, <1>2, PTL DEF MCSpec

\* The budget and the bulkhead are kept, and no login is without its cause
\* (CallsAreBounded, LoginsHaveCauses).
THEOREM BudgetHoldsBeside == MCSpec => []BudgetHolds
  <1>1. PartsInv => BudgetHolds
    BY CallImplies, ToolImplies DEF PartsInv, BudgetHolds
  <1> QED
    BY <1>1, PartsKeepInv, PTL

\* The queue runs the most urgent command (UrgentFirst).
THEOREM UrgentFirstBeside == MCSpec => []MostUrgentFirst
  <1>1. PartsInv => MostUrgentFirst
    BY QueueImplies DEF PartsInv, MostUrgentFirst
  <1> QED
    BY <1>1, PartsKeepInv, PTL

\* What is skipped as seen was fetched, what was marked was returned or lost to a
\* failure or the browser's limit (FetchesAreSound).
THEOREM FetchesAreSoundBeside == MCSpec => []SeenIsFetched
  <1>1. PartsInv => SeenIsFetched
    BY FetchImplies DEF PartsInv, SeenIsFetched
  <1> QED
    BY <1>1, PartsKeepInv, PTL

\* Circuits open and close only as earned (TransitionsEarned).
THEOREM TransitionsEarnedBeside == MCSpec => TransitionsAreEarned
  <1>1. PartsInv /\ [MCNext]_allVars => [Trip]_vars /\ [Close]_vars /\ [Shut]_vars
    BY StepsBeside, InvStep DEF PartsInv, Earned
  <1>2. PartsInv => OpenAdmitsNobody
    BY DEF PartsInv, Inv
  <1>3. MCSpec => [][Trip]_vars /\ [][Close]_vars /\ [][Shut]_vars /\ []OpenAdmitsNobody
    BY <1>1, <1>2, PartsKeepInv, PTL DEF MCSpec
  <1> QED
    BY <1>3 DEF TransitionsAreEarned, TripsOnConsecutiveFailures, ClosesOnHalfOpenSuccesses,
                ClosesOnSuccess, Trip, Close, Shut
=============================================================================
