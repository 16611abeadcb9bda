--------------------------- MODULE DeliveryLifecycle ---------------------------
(***************************************************************************)
(* What the delivery rows promise to everyone who reads them (the delivery *)
(* log, the dead-letter topic, the operator): a row is created once, is    *)
(* attempted at most MaxAttempts times, every scheduled retry still has an *)
(* attempt left, and a delivered or dead-lettered row never changes again. *)
(* Who works on a row, under which lease, is not visible here.             *)
(***************************************************************************)
EXTENDS Naturals

CONSTANTS Deliveries, MaxAttempts

VARIABLES status, attempts

vars == <<status, attempts>>

Unattempted == {"pending", "retry_scheduled"}

Init ==
  /\ status = [d \in Deliveries |-> "absent"]
  /\ attempts = [d \in Deliveries |-> 0]

\* The rows of a request appear together.
Create(S) ==
  /\ \A d \in S : status[d] = "absent"
  /\ status' = [d \in Deliveries |-> IF d \in S THEN "pending" ELSE status[d]]
  /\ UNCHANGED attempts

\* A batch of rows is attempted; each attempt is counted before it is made.
Attempt(S) ==
  /\ \A d \in S : status[d] \in Unattempted /\ attempts[d] < MaxAttempts
  /\ status' = [d \in Deliveries |-> IF d \in S THEN "processing" ELSE status[d]]
  /\ attempts' = [d \in Deliveries |-> IF d \in S THEN attempts[d] + 1 ELSE attempts[d]]

Retry(d) ==
  /\ status[d] = "processing"
  /\ attempts[d] < MaxAttempts
  /\ status' = [status EXCEPT ![d] = "retry_scheduled"]
  /\ UNCHANGED attempts

Settle(d) ==
  /\ status[d] = "processing"
  /\ \E s \in {"delivered", "dead_letter"} : status' = [status EXCEPT ![d] = s]
  /\ UNCHANGED attempts

Next ==
  \/ \E S \in SUBSET Deliveries : Create(S) \/ Attempt(S)
  \/ \E d \in Deliveries : Retry(d) \/ Settle(d)

Spec == Init /\ [][Next]_vars
=============================================================================
