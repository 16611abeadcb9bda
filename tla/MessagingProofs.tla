-------------------------- MODULE MessagingProofs --------------------------
(***************************************************************************)
(* Proofs about the parts of MCMessaging beside the outbox: the table of   *)
(* consumed events and the stream of events to WebSocket clients.          *)
(*                                                                         *)
(* The claims of consumed events hold no lease and mark_event_processing   *)
(* reads any row without a lock, so the first argument is about what a     *)
(* status excludes and about what only an overlap can change.              *)
(***************************************************************************)
EXTENDS MCMessaging, FiniteSetTheorems, SequenceTheorems, TLAPS

EventStatuses == PE!Stored \cup {"absent"}
Reads == [key : Keys \cup {"none"}, status : EventStatuses, attempts : Nat]

\* The types of all variables; TypeOK has the ones that the table enforces.
EventsTyped ==
  /\ peStatus \in [Keys -> EventStatuses]
  /\ peAttempts \in [Keys -> Nat]
  /\ peDlq \subseteq Keys
  /\ peHeld \in [Consumers -> SUBSET Keys]
  /\ peRead \in [Consumers -> Reads]
  /\ peStarts \in [Keys -> Nat]
  /\ peRaced \subseteq Keys
  /\ peCrashed \subseteq Keys
  /\ peClaims \in [Keys -> Nat]

\* What a consumer has read of a counter has been counted.
ReadsAreBehind ==
  \A c \in Consumers : peRead[c] # PE!Nothing =>
    peRead[c].key \in Keys /\ peRead[c].attempts <= peStarts[peRead[c].key]

CountersHold == \A k \in Keys : peAttempts[k] <= peStarts[k] /\ peClaims[k] <= 1

\* Nobody has an event that is absent or pending, and who reads a pending event
\* reads just that.
Untouched ==
  \A k \in Keys : peStatus[k] \in {"absent", "pending"} =>
    /\ peClaims[k] = 0
    /\ \A c \in Consumers :
         /\ k \notin peHeld[c]
         /\ peRead[c].key = k => peStatus[k] = "pending" /\ peRead[c].status = "pending"

\* What a consumer has read of an event is still so when it commits, and nobody
\* else has the event.
ReadIsCurrent(k) ==
  \A c \in Consumers : peRead[c].key = k =>
    /\ peRead[c].status = peStatus[k]
    /\ peRead[c].attempts = peAttempts[k]
    /\ \A d \in Consumers : k \in peHeld[d] \/ peRead[d].key = k => d = c

OneOwner(k) ==
  \A c \in Consumers : k \in peHeld[c] =>
    /\ peStatus[k] = "processing"
    /\ \A d \in Consumers : k \in peHeld[d] => d = c

HasOwner(k) ==
  peStatus[k] = "processing" /\ k \notin peCrashed => \E c \in Consumers : k \in peHeld[c]

Undisturbed(k) ==
  /\ peAttempts[k] = peStarts[k]
  /\ ReadIsCurrent(k)
  /\ OneOwner(k)
  /\ HasOwner(k)

EventsInv ==
  /\ EventsTyped
  /\ ReadsAreBehind
  /\ CountersHold
  /\ Untouched
  /\ \A k \in Keys \ peRaced : Undisturbed(k)

-----------------------------------------------------------------------------
\* Initially nothing has been stored.
LEMMA EventsInit ==
  ASSUME "none" \notin Keys
  PROVE  PE!Init => EventsInv
<1> SUFFICES ASSUME PE!Init PROVE EventsInv
  OBVIOUS
<1> USE DEF PE!Init, PE!Nothing
<1>1. EventsTyped
  BY DEF EventsTyped, EventStatuses, Reads
<1>2. ReadsAreBehind
  BY DEF ReadsAreBehind
<1>3. CountersHold
  BY DEF CountersHold
<1>4. Untouched
  BY DEF Untouched
<1>5. ASSUME NEW k \in Keys PROVE Undisturbed(k)
  BY DEF Undisturbed, ReadIsCurrent, OneOwner, HasOwner
<1> QED
  BY <1>1, <1>2, <1>3, <1>4, <1>5 DEF EventsInv

\* Both inserts (create_processed_event, batch_create_processed_events) turn
\* absent rows into pending ones.
LEMMA InsertKeepsInv ==
  ASSUME "none" \notin Keys, EventsInv,
         NEW picked \in SUBSET Keys,
         \A k \in picked : peStatus[k] = "absent",
         peStatus' = [k \in Keys |-> IF k \in picked THEN "pending" ELSE peStatus[k]],
         UNCHANGED <<peAttempts, peDlq, peHeld, peRead, peStarts, peRaced, peClaims, peCrashed>>
  PROVE  EventsInv'
<1>1. EventsTyped'
  BY DEF EventsInv, EventsTyped, EventStatuses, PE!Stored
<1>2. ReadsAreBehind'
  BY DEF EventsInv, ReadsAreBehind
<1>3. CountersHold'
  BY DEF EventsInv, CountersHold
<1>4. \A k \in picked : peClaims[k] = 0 /\ \A c \in Consumers : k \notin peHeld[c] /\ peRead[c].key # k
  BY DEF EventsInv, Untouched
<1>5. Untouched'
  BY <1>4 DEF EventsInv, Untouched
<1>6. ASSUME NEW k \in Keys \ peRaced' PROVE Undisturbed(k)'
  <2>1. Undisturbed(k)
    BY DEF EventsInv
  <2> QED
    BY <1>4, <2>1 DEF Undisturbed, ReadIsCurrent, OneOwner, HasOwner
<1> QED
  BY <1>1, <1>2, <1>3, <1>5, <1>6 DEF EventsInv

\* claim_pending_events.
LEMMA ClaimKeepsInv ==
  ASSUME "none" \notin Keys, EventsInv,
         NEW c \in Consumers, PE!ClaimPendingEvents(c)
  PROVE  EventsInv'
<1>1. PICK picked \in SUBSET {k \in Keys : PE!Claimable(k)} :
        /\ peStatus' = [k \in Keys |-> IF k \in picked THEN "processing" ELSE peStatus[k]]
        /\ peAttempts' = [k \in Keys |-> IF k \in picked THEN peAttempts[k] + 1 ELSE peAttempts[k]]
        /\ peStarts' = [k \in Keys |-> IF k \in picked THEN peStarts[k] + 1 ELSE peStarts[k]]
        /\ peClaims' = [k \in Keys |-> IF k \in picked THEN peClaims[k] + 1 ELSE peClaims[k]]
        /\ peHeld' = [peHeld EXCEPT ![c] = @ \cup picked]
        /\ peRaced' = peRaced \cup {k \in picked : PE!BeingRead(k)}
        /\ UNCHANGED <<peDlq, peRead, peCrashed>>
  BY DEF PE!ClaimPendingEvents
<1>2. \A k \in picked : k \in Keys /\ peStatus[k] = "pending"
  BY <1>1 DEF PE!Claimable
<1>3. \A k \in picked : peClaims[k] = 0 /\ \A d \in Consumers : k \notin peHeld[d]
  BY <1>2 DEF EventsInv, Untouched
<1>4. EventsTyped'
  <2>1. peStatus' \in [Keys -> EventStatuses]
    BY <1>1 DEF EventsInv, EventsTyped, EventStatuses, PE!Stored
  <2>2. peAttempts' \in [Keys -> Nat] /\ peStarts' \in [Keys -> Nat] /\ peClaims' \in [Keys -> Nat]
    BY <1>1 DEF EventsInv, EventsTyped
  <2>3. peHeld' \in [Consumers -> SUBSET Keys]
    BY <1>1, <1>2 DEF EventsInv, EventsTyped
  <2>4. peRaced' \subseteq Keys
    BY <1>1, <1>2 DEF EventsInv, EventsTyped
  <2> QED
    BY <1>1, <2>1, <2>2, <2>3, <2>4 DEF EventsInv, EventsTyped
<1>5. \A k \in Keys : peStarts'[k] \in Nat /\ peStarts[k] <= peStarts'[k]
  BY <1>1 DEF EventsInv, EventsTyped
<1>6. ReadsAreBehind'
  BY <1>1, <1>5 DEF EventsInv, EventsTyped, Reads, ReadsAreBehind
<1>7. CountersHold'
  BY <1>1, <1>3 DEF EventsInv, EventsTyped, CountersHold
<1>8. Untouched'
  BY <1>1, <1>2 DEF EventsInv, EventsTyped, Untouched
<1>9. ASSUME NEW k \in Keys \ peRaced' PROVE Undisturbed(k)'
  <2>1. Undisturbed(k) /\ k \notin peRaced
    BY <1>1 DEF EventsInv
  <2>2. k \in picked => \A d \in Consumers : peRead[d].key # k
    BY <1>1 DEF PE!BeingRead
  <2>3. \A d \in Consumers : k \in peHeld'[d] <=> k \in peHeld[d] \/ (d = c /\ k \in picked)
    BY <1>1 DEF EventsInv, EventsTyped
  <2>4. peAttempts'[k] = peStarts'[k]
    BY <1>1, <2>1 DEF Undisturbed
  <2>5. ReadIsCurrent(k)'
    BY <1>1, <2>1, <2>2, <2>3 DEF Undisturbed, ReadIsCurrent
  <2>6. OneOwner(k)'
    BY <1>1, <1>3, <2>1, <2>3 DEF Undisturbed, OneOwner
  <2>7. HasOwner(k)'
    BY <1>1, <2>1, <2>3 DEF Undisturbed, HasOwner
  <2> QED
    BY <2>4, <2>5, <2>6, <2>7 DEF Undisturbed
<1> QED
  BY <1>4, <1>6, <1>7, <1>8, <1>9 DEF EventsInv

\* The read of mark_event_processing.
LEMMA MarkProcessingKeepsInv ==
  ASSUME "none" \notin Keys, EventsInv,
         NEW c \in Consumers, NEW k \in Keys, PE!MarkEventProcessing(c, k)
  PROVE  EventsInv'
<1> DEFINE new == [key |-> k, status |-> peStatus[k], attempts |-> peAttempts[k]]
<1>1. /\ peRead[c] = PE!Nothing
      /\ peStatus[k] \in PE!Stored
      /\ peRead' = [peRead EXCEPT ![c] = new]
      /\ peRaced' = IF PE!BeingRead(k) \/ \E d \in Consumers \ {c} : k \in peHeld[d]
                    THEN peRaced \cup {k} ELSE peRaced
      /\ UNCHANGED <<peStatus, peAttempts, peDlq, peHeld, peStarts, peClaims, peCrashed>>
  BY DEF PE!MarkEventProcessing, PE!Idle
<1>2. /\ new \in Reads /\ new.key = k /\ new.status = peStatus[k] /\ new.attempts = peAttempts[k]
  BY DEF EventsInv, EventsTyped, Reads
<1>3. \A d \in Consumers : peRead'[d] = IF d = c THEN new ELSE peRead[d]
  BY <1>1 DEF EventsInv, EventsTyped
<1> HIDE DEF new
<1>4. EventsTyped'
  <2>1. peRead' \in [Consumers -> Reads]
    BY <1>1, <1>2 DEF EventsInv, EventsTyped
  <2>2. peRaced' \subseteq Keys
    BY <1>1 DEF EventsInv, EventsTyped
  <2> QED
    BY <1>1, <2>1, <2>2 DEF EventsInv, EventsTyped
<1>5. ReadsAreBehind'
  BY <1>1, <1>2, <1>3 DEF EventsInv, ReadsAreBehind, CountersHold
<1>6. CountersHold'
  BY <1>1 DEF EventsInv, CountersHold
<1>7. Untouched'
  BY <1>1, <1>2, <1>3 DEF EventsInv, Untouched, PE!Stored
<1>8. ASSUME NEW j \in Keys \ peRaced' PROVE Undisturbed(j)'
  <2>1. Undisturbed(j) /\ j \notin peRaced
    BY <1>1 DEF EventsInv
  <2>2. j = k => \A d \in Consumers : peRead[d].key # k /\ (k \in peHeld[d] => d = c)
    BY <1>1 DEF PE!BeingRead
  <2>3. ReadIsCurrent(j)'
    BY <1>1, <1>2, <1>3, <2>1, <2>2 DEF Undisturbed, ReadIsCurrent
  <2> QED
    BY <1>1, <2>1, <2>3 DEF Undisturbed, OneOwner, HasOwner
<1> QED
  BY <1>4, <1>5, <1>6, <1>7, <1>8 DEF EventsInv

\* The commit of mark_event_processing.
LEMMA CommitKeepsInv ==
  ASSUME "none" \notin Keys, EventsInv,
         NEW c \in Consumers, PE!CommitProcessing(c)
  PROVE  EventsInv'
<1> DEFINE k == peRead[c].key
<1>1. /\ peRead[c] # PE!Nothing
      /\ peStatus' = IF peRead[c].status = "processing" THEN peStatus
                     ELSE [peStatus EXCEPT ![k] = "processing"]
      /\ peAttempts' = [peAttempts EXCEPT ![k] = peRead[c].attempts + 1]
      /\ peStarts' = [peStarts EXCEPT ![k] = @ + 1]
      /\ peHeld' = [peHeld EXCEPT ![c] = @ \cup {k}]
      /\ peRead' = [peRead EXCEPT ![c] = PE!Nothing]
      /\ UNCHANGED <<peDlq, peRaced, peClaims, peCrashed>>
  BY DEF PE!CommitProcessing
<1>2. k \in Keys /\ peRead[c].attempts <= peStarts[k]
  BY <1>1 DEF EventsInv, ReadsAreBehind
<1>3. peRead[c].attempts \in Nat
  BY DEF EventsInv, EventsTyped, Reads
<1>4. PE!Nothing \in Reads /\ PE!Nothing.key = "none"
  BY DEF PE!Nothing, Reads, EventStatuses
<1>5. \A d \in Consumers : peRead'[d] = IF d = c THEN PE!Nothing ELSE peRead[d]
  BY <1>1 DEF EventsInv, EventsTyped
<1>6. \A d \in Consumers : peHeld'[d] = IF d = c THEN peHeld[c] \cup {k} ELSE peHeld[d]
  BY <1>1 DEF EventsInv, EventsTyped
<1>7. \A j \in Keys : peStatus'[j] = IF j = k /\ peRead[c].status # "processing"
                                     THEN "processing" ELSE peStatus[j]
  BY <1>1 DEF EventsInv, EventsTyped
<1>8. peStatus'[k] \notin {"absent", "pending"}
  BY <1>2, <1>7 DEF EventsInv, Untouched
<1>9. EventsTyped'
  <2>1. peStatus' \in [Keys -> EventStatuses]
    BY <1>1 DEF EventsInv, EventsTyped, EventStatuses, PE!Stored
  <2>2. peAttempts' \in [Keys -> Nat] /\ peStarts' \in [Keys -> Nat]
    BY <1>1, <1>2, <1>3 DEF EventsInv, EventsTyped
  <2>3. peHeld' \in [Consumers -> SUBSET Keys]
    BY <1>1, <1>2 DEF EventsInv, EventsTyped
  <2>4. peRead' \in [Consumers -> Reads]
    BY <1>1, <1>4 DEF EventsInv, EventsTyped
  <2> QED
    BY <1>1, <2>1, <2>2, <2>3, <2>4 DEF EventsInv, EventsTyped
<1>10. \A j \in Keys : /\ peStarts'[j] = IF j = k THEN peStarts[j] + 1 ELSE peStarts[j]
                       /\ peAttempts'[j] = IF j = k THEN peRead[c].attempts + 1 ELSE peAttempts[j]
                       /\ peStarts[j] \in Nat /\ peAttempts[j] \in Nat
  BY <1>1 DEF EventsInv, EventsTyped
<1>11. ReadsAreBehind'
  BY <1>4, <1>5, <1>10 DEF EventsInv, EventsTyped, Reads, ReadsAreBehind
<1>12. CountersHold'
  BY <1>1, <1>2, <1>3, <1>10 DEF EventsInv, CountersHold
<1>13. Untouched'
  <2> SUFFICES ASSUME NEW j \in Keys, peStatus'[j] \in {"absent", "pending"}
               PROVE  /\ peClaims'[j] = 0
                      /\ \A d \in Consumers :
                           /\ j \notin peHeld'[d]
                           /\ peRead'[d].key = j => peStatus'[j] = "pending" /\ peRead'[d].status = "pending"
    BY DEF Untouched
  <2>1. j # k /\ peStatus[j] = peStatus'[j]
    BY <1>7, <1>8
  <2>2. /\ peClaims[j] = 0
        /\ \A d \in Consumers :
             /\ j \notin peHeld[d]
             /\ peRead[d].key = j => peStatus[j] = "pending" /\ peRead[d].status = "pending"
    BY <2>1 DEF EventsInv, Untouched
  <2> QED
    BY <1>1, <1>4, <1>5, <1>6, <2>1, <2>2
<1>14. ASSUME NEW j \in Keys \ peRaced' PROVE Undisturbed(j)'
  <2>1. Undisturbed(j) /\ j \notin peRaced
    BY <1>1 DEF EventsInv
  <2>2. CASE j = k
    <3>1. /\ peRead[c].attempts = peAttempts[k] /\ peRead[c].status = peStatus[k]
          /\ \A d \in Consumers : k \in peHeld[d] \/ peRead[d].key = k => d = c
      BY <2>1, <2>2 DEF Undisturbed, ReadIsCurrent
    <3>2. peAttempts'[j] = peStarts'[j]
      BY <1>10, <2>1, <2>2, <3>1 DEF Undisturbed
    <3>3. ReadIsCurrent(j)'
      BY <1>2, <1>4, <1>5, <2>2, <3>1 DEF ReadIsCurrent
    <3>4. OneOwner(j)'
      BY <1>2, <1>6, <1>7, <2>2, <3>1 DEF OneOwner
    <3>5. HasOwner(j)'
      BY <1>6, <2>2 DEF HasOwner
    <3> QED
      BY <3>2, <3>3, <3>4, <3>5 DEF Undisturbed
  <2>3. CASE j # k
    <3>1. /\ peStatus'[j] = peStatus[j] /\ peAttempts'[j] = peAttempts[j] /\ peStarts'[j] = peStarts[j]
          /\ \A d \in Consumers : j \in peHeld'[d] <=> j \in peHeld[d]
          /\ \A d \in Consumers : peRead'[d].key = j => d # c /\ peRead'[d] = peRead[d]
      BY <1>2, <1>4, <1>5, <1>6, <1>7, <1>10, <2>3
    <3>2. \A d \in Consumers : peRead'[d].key = j => peRead[d].key = j
      BY <3>1
    <3>3. peAttempts'[j] = peStarts'[j]
      BY <2>1, <3>1 DEF Undisturbed
    <3>4. ReadIsCurrent(j)'
      BY <2>1, <3>1, <3>2 DEF Undisturbed, ReadIsCurrent
    <3>5. OneOwner(j)'
      BY <2>1, <3>1 DEF Undisturbed, OneOwner
    <3>6. HasOwner(j)'
      BY <1>1, <2>1, <3>1 DEF Undisturbed, HasOwner
    <3> QED
      BY <3>3, <3>4, <3>5, <3>6 DEF Undisturbed
  <2> QED
    BY <2>2, <2>3
<1> QED
  BY <1>9, <1>11, <1>12, <1>13, <1>14 DEF EventsInv

\* mark_event_completed, mark_event_failed and mark_event_dlq.
LEMMA MarkKeepsInv ==
  ASSUME "none" \notin Keys, EventsInv,
         NEW c \in Consumers, NEW k \in Keys,
         NEW final \in {"completed", "failed", "dead_letter"}, PE!Mark(c, k, final),
         peDlq' \subseteq Keys
  PROVE  EventsInv'
<1>1. /\ k \in peHeld[c] /\ peRead[c] = PE!Nothing
      /\ peStatus' = [peStatus EXCEPT ![k] = final]
      /\ peHeld' = [peHeld EXCEPT ![c] = @ \ {k}]
      /\ UNCHANGED <<peAttempts, peRead, peStarts, peRaced, peClaims, peCrashed>>
  BY DEF PE!Mark, PE!Idle
<1>2. \A d \in Consumers : peHeld'[d] = IF d = c THEN peHeld[c] \ {k} ELSE peHeld[d]
  BY <1>1 DEF EventsInv, EventsTyped
<1>3. \A j \in Keys : peStatus'[j] = IF j = k THEN final ELSE peStatus[j]
  BY <1>1 DEF EventsInv, EventsTyped
<1>4. EventsTyped'
  <2>1. peStatus' \in [Keys -> EventStatuses]
    BY <1>1 DEF EventsInv, EventsTyped, EventStatuses, PE!Stored
  <2>2. peHeld' \in [Consumers -> SUBSET Keys]
    BY <1>1 DEF EventsInv, EventsTyped
  <2> QED
    BY <1>1, <2>1, <2>2 DEF EventsInv, EventsTyped
<1>5. ReadsAreBehind'
  BY <1>1 DEF EventsInv, ReadsAreBehind
<1>6. CountersHold'
  BY <1>1 DEF EventsInv, CountersHold
<1>7. Untouched'
  BY <1>1, <1>2, <1>3 DEF EventsInv, Untouched
<1>8. ASSUME NEW j \in Keys \ peRaced' PROVE Undisturbed(j)'
  <2>1. Undisturbed(j) /\ j \notin peRaced
    BY <1>1 DEF EventsInv
  <2>2. \A d \in Consumers : j = k => peRead[d].key # j
    BY <1>1, <2>1 DEF Undisturbed, ReadIsCurrent, PE!Nothing
  <2>3. ReadIsCurrent(j)'
    BY <1>1, <1>2, <1>3, <2>1, <2>2 DEF Undisturbed, ReadIsCurrent
  <2>4. OneOwner(j)'
    BY <1>1, <1>2, <1>3, <2>1 DEF Undisturbed, OneOwner
  <2>5. HasOwner(j)'
    BY <1>1, <1>2, <1>3, <2>1 DEF Undisturbed, HasOwner
  <2> QED
    BY <1>1, <2>1, <2>3, <2>4, <2>5 DEF Undisturbed
<1> QED
  BY <1>4, <1>5, <1>6, <1>7, <1>8 DEF EventsInv

\* A consumer dies with what it held.
LEMMA CrashKeepsInv ==
  ASSUME "none" \notin Keys, EventsInv,
         NEW c \in Consumers, PE!ConsumerCrashes(c)
  PROVE  EventsInv'
<1>1. /\ peHeld' = [peHeld EXCEPT ![c] = {}]
      /\ peRead' = [peRead EXCEPT ![c] = PE!Nothing]
      /\ peCrashed' = peCrashed \cup peHeld[c]
      /\ UNCHANGED <<peStatus, peAttempts, peDlq, peStarts, peRaced, peClaims>>
  BY DEF PE!ConsumerCrashes
<1>2. PE!Nothing \in Reads /\ PE!Nothing.key = "none"
  BY DEF PE!Nothing, Reads, EventStatuses
<1>3. \A d \in Consumers : peHeld'[d] = IF d = c THEN {} ELSE peHeld[d]
  BY <1>1 DEF EventsInv, EventsTyped
<1>4. \A d \in Consumers : peRead'[d] = IF d = c THEN PE!Nothing ELSE peRead[d]
  BY <1>1 DEF EventsInv, EventsTyped
<1>5. EventsTyped'
  <2>1. peHeld' \in [Consumers -> SUBSET Keys] /\ peCrashed' \subseteq Keys
    BY <1>1 DEF EventsInv, EventsTyped
  <2>2. peRead' \in [Consumers -> Reads]
    BY <1>1, <1>2 DEF EventsInv, EventsTyped
  <2> QED
    BY <1>1, <2>1, <2>2 DEF EventsInv, EventsTyped
<1>6. ReadsAreBehind'
  BY <1>1, <1>4 DEF EventsInv, ReadsAreBehind
<1>7. CountersHold'
  BY <1>1 DEF EventsInv, CountersHold
<1>8. Untouched'
  BY <1>1, <1>2, <1>3, <1>4 DEF EventsInv, Untouched
<1>9. ASSUME NEW j \in Keys \ peRaced' PROVE Undisturbed(j)'
  <2>1. Undisturbed(j) /\ j \notin peRaced
    BY <1>1 DEF EventsInv
  <2>2. \A d \in Consumers : peRead'[d].key = j => d # c /\ peRead'[d] = peRead[d]
    BY <1>2, <1>4
  <2>3. ReadIsCurrent(j)'
    <3>1. \A d \in Consumers : peRead'[d].key = j => peRead[d].key = j
      BY <2>2
    <3> QED
      BY <1>1, <1>3, <2>1, <2>2, <3>1 DEF Undisturbed, ReadIsCurrent
  <2>4. OneOwner(j)'
    BY <1>1, <1>3, <2>1 DEF Undisturbed, OneOwner
  <2>5. HasOwner(j)'
    BY <1>1, <1>3, <2>1 DEF Undisturbed, HasOwner
  <2> QED
    BY <1>1, <2>1, <2>3, <2>4, <2>5 DEF Undisturbed
<1> QED
  BY <1>5, <1>6, <1>7, <1>8, <1>9 DEF EventsInv

\* Every step keeps the invariant.
LEMMA EventsNext ==
  ASSUME "none" \notin Keys
  PROVE  EventsInv /\ [PE!Next]_(PE!eventVars) => EventsInv'
<1> SUFFICES ASSUME EventsInv, [PE!Next]_(PE!eventVars) PROVE EventsInv'
  OBVIOUS
<1>1. ASSUME NEW k \in Keys, PE!CreateProcessedEvent(k) PROVE EventsInv'
  <2>1. peStatus' = [j \in Keys |-> IF j \in {k} THEN "pending" ELSE peStatus[j]]
    BY <1>1 DEF PE!CreateProcessedEvent, EventsInv, EventsTyped
  <2>2. {k} \in SUBSET Keys /\ \A j \in {k} : peStatus[j] = "absent"
    BY <1>1 DEF PE!CreateProcessedEvent
  <2>3. UNCHANGED <<peAttempts, peDlq, peHeld, peRead, peStarts, peRaced, peClaims, peCrashed>>
    BY <1>1 DEF PE!CreateProcessedEvent
  <2> QED
    BY <2>1, <2>2, <2>3, InsertKeepsInv
<1>2. ASSUME NEW picked \in SUBSET Keys, PE!BatchCreateProcessedEvents(picked) PROVE EventsInv'
  BY <1>2, InsertKeepsInv DEF PE!BatchCreateProcessedEvents
<1>3. ASSUME NEW c \in Consumers, PE!ClaimPendingEvents(c) PROVE EventsInv'
  BY <1>3, ClaimKeepsInv
<1>4. ASSUME NEW c \in Consumers, PE!CommitProcessing(c) PROVE EventsInv'
  BY <1>4, CommitKeepsInv
<1>5. ASSUME NEW c \in Consumers, PE!ConsumerCrashes(c) PROVE EventsInv'
  BY <1>5, CrashKeepsInv
<1>6. ASSUME NEW c \in Consumers, NEW k \in Keys, PE!MarkEventProcessing(c, k) PROVE EventsInv'
  BY <1>6, MarkProcessingKeepsInv
<1>7. ASSUME NEW c \in Consumers, NEW k \in Keys,
             PE!MarkEventCompleted(c, k) \/ PE!MarkEventFailed(c, k) \/ PE!MarkEventDlq(c, k)
      PROVE  EventsInv'
  <2>1. peDlq' \subseteq Keys
    BY <1>7 DEF PE!MarkEventCompleted, PE!MarkEventFailed, PE!MarkEventDlq, EventsInv, EventsTyped
  <2>2. \E final \in {"completed", "failed", "dead_letter"} : PE!Mark(c, k, final)
    BY <1>7 DEF PE!MarkEventCompleted, PE!MarkEventFailed, PE!MarkEventDlq
  <2> QED
    BY <2>1, <2>2, MarkKeepsInv
<1>8. CASE UNCHANGED PE!eventVars
  BY <1>8 DEF PE!eventVars, EventsInv, EventsTyped, ReadsAreBehind, Untouched, CountersHold,
              Undisturbed, ReadIsCurrent, OneOwner, HasOwner
<1> QED
  BY <1>1, <1>2, <1>3, <1>4, <1>5, <1>6, <1>7, <1>8 DEF PE!Next

\* A set whose members are all equal has at most one.
LEMMA AtMostOne ==
  ASSUME NEW S, \A c, d \in S : c = d
  PROVE  Cardinality(S) <= 1
<1>1. CASE S = {}
  BY <1>1, FS_EmptySet
<1>2. CASE S # {}
  <2>1. PICK c \in S : TRUE
    BY <1>2
  <2>2. S = {c}
    BY <2>1
  <2>3. Cardinality({c}) = 1
    BY FS_Singleton
  <2> QED
    BY <2>2, <2>3
<1> QED
  BY <1>1, <1>2

\* The cardinality that the component takes from FiniteSets is the one of the
\* library's theorems.
LEMMA EventsCardinality == \A S : PE!Cardinality(S) = Cardinality(S)
  BY DEF PE!Cardinality, Cardinality

\* The invariant has the property that the messaging run checks.
LEMMA EventsImply ==
  ASSUME EventsInv
  PROVE  PE!TypeOK /\ PE!ProcessingHasOwner
<1>1. PE!TypeOK
  BY DEF EventsInv, EventsTyped, PE!TypeOK, EventStatuses, Reads
<1>2. ASSUME NEW k \in Keys
      PROVE  LET owners == {c \in Consumers : k \in peHeld[c]} IN
             /\ peClaims[k] <= 1
             /\ peAttempts[k] <= peStarts[k]
             /\ k \notin peRaced => Cardinality(owners) <= 1 /\ peAttempts[k] = peStarts[k]
             /\ peStatus[k] = "processing" /\ owners = {} => k \in peCrashed \cup peRaced
  <2> DEFINE owners == {c \in Consumers : k \in peHeld[c]}
  <2>1. peClaims[k] <= 1 /\ peAttempts[k] <= peStarts[k]
    BY DEF EventsInv, CountersHold
  <2>2. k \notin peRaced => Undisturbed(k)
    BY DEF EventsInv
  <2>3. k \notin peRaced => \A c, d \in owners : c = d
    BY <2>2 DEF Undisturbed, OneOwner
  <2>4. k \notin peRaced => peAttempts[k] = peStarts[k]
    BY <2>2 DEF Undisturbed
  <2>5. peStatus[k] = "processing" /\ owners = {} => k \in peCrashed \cup peRaced
    BY <2>2 DEF Undisturbed, HasOwner
  <2>6. k \notin peRaced => Cardinality(owners) <= 1
    <3> HIDE DEF owners
    <3> QED
      BY <2>3, AtMostOne
  <2> QED
    BY <2>1, <2>4, <2>5, <2>6
<1> QED
  BY <1>1, <1>2, EventsCardinality DEF PE!ProcessingHasOwner

-----------------------------------------------------------------------------
\* For any keys, consumers, batch size and bounds: the rows keep their types, an
\* event is claimed once and its counter never exceeds the starts; unless a
\* mark_event_processing overlapped another consumer's use of it, it has at most
\* one owner and its counter is true; and it is left in processing only by a crash
\* or such an overlap (storage/events.py claim_pending_events,
\* mark_event_processing).
THEOREM EventsHaveOwners == PE!Spec => [](PE!TypeOK /\ PE!ProcessingHasOwner)
<1>1. PE!Init => EventsInv
  BY EventsInit, ConsumerAssumption
<1>2. EventsInv /\ [PE!Next]_(PE!eventVars) => EventsInv'
  BY EventsNext, ConsumerAssumption
<1>3. EventsInv => PE!TypeOK /\ PE!ProcessingHasOwner
  BY EventsImply, ConsumerAssumption
<1> QED
  BY <1>1, <1>2, <1>3, PTL DEF PE!Spec

\* The same of the consumed events beside the other parts.
THEOREM EventsHaveOwnersBeside == MCSpec => []ProcessingHasOwner
<1>1. MCInit => EventsInv
  BY EventsInit, ConsumerAssumption DEF MCInit
<1>2. EventsInv /\ [MCNext]_allVars => EventsInv'
  <2> SUFFICES ASSUME EventsInv, [MCNext]_allVars PROVE EventsInv'
    OBVIOUS
  <2>1. [PE!Next]_(PE!eventVars)
    BY DEF MCNext, allVars, consumerVars, PE!eventVars
  <2> QED
    BY <2>1, EventsNext, ConsumerAssumption
<1>3. EventsInv => ProcessingHasOwner
  BY EventsImply, ConsumerAssumption DEF ProcessingHasOwner
<1> QED
  BY <1>1, <1>2, <1>3, PTL DEF MCSpec

-----------------------------------------------------------------------------
(* The stream of events.                                                    *)

Places == {"none", "accepted", "streaming", "idling", "abandoned", "closed"}

\* The types of the variables that the argument is about.
StreamTyped ==
  /\ esWs \in [Clients -> Places]
  /\ esActive \subseteq Clients /\ esGone \subseteq Clients
  /\ esKafka \subseteq 1..MaxEvents /\ esPublishing \in 0..MaxEvents /\ esMade \in 0..MaxEvents
  /\ esChannel \in Seq(Nat)
  /\ esQueue \in [Clients -> Seq(Nat)] /\ esGot \in [Clients -> Seq(Nat)]
  /\ esJoined \in [Clients -> Nat]

JoinedInChannel == \A w \in Clients : esJoined[w] <= Len(esChannel)

\* Nothing was sent to a client before its subscription.
NothingBefore == \A w \in Clients : esWs[w] \in {"none", "accepted"} => esGot[w] = <<>>

StreamInv ==
  /\ StreamTyped /\ JoinedInChannel /\ NothingBefore
  /\ ES!StreamHasNoGaps /\ ES!RegistryIsExact

-----------------------------------------------------------------------------
\* What is appended to the end of a queue is the end of what the client gets.
LEMMA ConcatAppend ==
  ASSUME NEW s \in Seq(Nat), NEW t \in Seq(Nat), NEW e \in Nat
  PROVE  s \o Append(t, e) = Append(s \o t, e)
<1>1. s \o Append(t, e) \in Seq(Nat) /\ Append(s \o t, e) \in Seq(Nat)
  OBVIOUS
<1>2. Len(s \o Append(t, e)) = Len(Append(s \o t, e))
  OBVIOUS
<1>3. ASSUME NEW i \in 1..Len(s \o Append(t, e))
      PROVE  (s \o Append(t, e))[i] = Append(s \o t, e)[i]
  OBVIOUS
<1> QED
  BY <1>1, <1>2, <1>3, SeqEqual

\* Sending the first message of the queue moves it, and changes nothing else.
LEMMA MoveHead ==
  ASSUME NEW s \in Seq(Nat), NEW t \in Seq(Nat), t # <<>>
  PROVE  Append(s, Head(t)) \o Tail(t) = s \o t
<1>0. Len(t) \in Nat /\ Len(t) > 0 /\ Head(t) \in Nat /\ Tail(t) \in Seq(Nat)
      /\ Len(Tail(t)) = Len(t) - 1
  OBVIOUS
<1>1. Append(s, Head(t)) \o Tail(t) \in Seq(Nat) /\ s \o t \in Seq(Nat)
  BY <1>0
<1>2. Len(Append(s, Head(t)) \o Tail(t)) = Len(s \o t)
  BY <1>0
<1>3. ASSUME NEW i \in 1..Len(s \o t)
      PROVE  (Append(s, Head(t)) \o Tail(t))[i] = (s \o t)[i]
  <2>1. CASE i <= Len(s)
    BY <2>1, <1>0
  <2>2. CASE i = Len(s) + 1
    BY <2>2, <1>0
  <2>3. CASE i > Len(s) + 1
    <3>1. (Append(s, Head(t)) \o Tail(t))[i] = Tail(t)[i - Len(s) - 1]
      <4> DEFINE u == Append(s, Head(t))
                 v == Tail(t)
                 l == Len(u)
      <4>1. u \in Seq(Nat) /\ v \in Seq(Nat) /\ l = Len(s) + 1 /\ Len(s) \in Nat /\ Len(v) \in Nat
        BY <1>0
      <4> HIDE DEF u, v, l
      <4>2. Len(u \o v) = l + Len(v)
        BY <4>1, ConcatProperties DEF l
      <4>3. \A j \in 1..l + Len(v) : (u \o v)[j] = IF j <= l THEN u[j] ELSE v[j - l]
        BY <4>1, ConcatProperties DEF l
      <4>4. i \in 1..Len(u \o v)
        BY <1>2 DEF u, v
      <4>5. i \in 1..l + Len(v) /\ ~(i <= l)
        BY <2>3, <4>1, <4>2, <4>4
      <4>6. (u \o v)[i] = v[i - l]
        BY <4>3, <4>5
      <4>7. i - l = i - Len(s) - 1
        BY <4>1, <4>5
      <4> QED
        BY <4>6, <4>7 DEF u, v
    <3>2. Tail(t)[i - Len(s) - 1] = t[i - Len(s)]
      <4>1. i - Len(s) - 1 \in 1..Len(Tail(t)) /\ (i - Len(s) - 1) + 1 = i - Len(s)
        BY <2>3, <1>0
      <4>2. \A j \in 1..Len(Tail(t)) : Tail(t)[j] = t[j + 1]
        BY <1>0
      <4> QED
        BY <4>1, <4>2
    <3>3. (s \o t)[i] = t[i - Len(s)]
      BY <2>3, <1>0
    <3> QED
      BY <3>1, <3>2, <3>3
  <2> QED
    BY <2>1, <2>2, <2>3
<1> QED
  BY <1>1, <1>2, <1>3, SeqEqual

\* The part of the channel since a position grows with the channel.
LEMMA SinceAppend ==
  ASSUME NEW s \in Seq(Nat), NEW e \in Nat, NEW m \in 0..Len(s)
  PROVE  SubSeq(Append(s, e), m + 1, Len(s) + 1) = Append(SubSeq(s, m + 1, Len(s)), e)
<1>0. Len(s) \in Nat /\ SubSeq(s, m + 1, Len(s)) \in Seq(Nat)
      /\ Len(SubSeq(s, m + 1, Len(s))) = Len(s) - m
  OBVIOUS
<1>1. /\ SubSeq(Append(s, e), m + 1, Len(s) + 1) \in Seq(Nat)
      /\ Append(SubSeq(s, m + 1, Len(s)), e) \in Seq(Nat)
  <2>1. /\ Append(s, e) \in Seq(Nat) /\ Len(Append(s, e)) = Len(s) + 1
        /\ m + 1 \in 1..Len(s) + 1
    BY <1>0
  <2>2. SubSeq(Append(s, e), m + 1, Len(s) + 1) \in Seq(Nat)
    BY <2>1
  <2>3. Append(SubSeq(s, m + 1, Len(s)), e) \in Seq(Nat)
    BY <1>0
  <2> QED
    BY <2>2, <2>3
<1>2. Len(SubSeq(Append(s, e), m + 1, Len(s) + 1)) = Len(s) + 1 - m
  BY <1>0
<1>3. Len(Append(SubSeq(s, m + 1, Len(s)), e)) = Len(s) + 1 - m
  BY <1>0
<1>4. ASSUME NEW i \in 1..(Len(s) + 1 - m)
      PROVE  SubSeq(Append(s, e), m + 1, Len(s) + 1)[i]
               = Append(SubSeq(s, m + 1, Len(s)), e)[i]
  <2>0. Append(s, e) \in Seq(Nat) /\ Len(Append(s, e)) = Len(s) + 1
        /\ m + i \in 1..Len(s) + 1 /\ (m + 1) + i - 1 = m + i
    BY <1>0
  <2>1. SubSeq(Append(s, e), m + 1, Len(s) + 1)[i] = Append(s, e)[m + i]
    <3> DEFINE t == Append(s, e)
    <3> HIDE DEF t
    <3>1. t \in Seq(Nat) /\ Len(t) = Len(s) + 1
      BY <2>0 DEF t
    <3>2. SubSeq(t, m + 1, Len(s) + 1)[i] = t[(m + 1) + i - 1]
      BY <3>1, <1>0
    <3> QED
      BY <3>2, <2>0 DEF t
  <2>2. CASE i = Len(s) + 1 - m
    BY <2>1, <2>2, <1>0
  <2>3. CASE i < Len(s) + 1 - m
    <3>1. Append(s, e)[m + i] = s[m + i]
      BY <2>3, <2>0, <1>0
    <3>2. Append(SubSeq(s, m + 1, Len(s)), e)[i] = SubSeq(s, m + 1, Len(s))[i]
      BY <2>3, <1>0
    <3>3. SubSeq(s, m + 1, Len(s))[i] = s[m + i]
      BY <2>3, <1>0
    <3> QED
      BY <2>1, <3>1, <3>2, <3>3
  <2> QED
    BY <2>2, <2>3
<1> QED
  BY <1>1, <1>2, <1>3, <1>4, SeqEqual

-----------------------------------------------------------------------------
\* No connection is open at first.
LEMMA StreamInit ==
  ASSUME MaxEvents \in Nat
  PROVE  ES!Init => StreamInv
<1> SUFFICES ASSUME ES!Init PROVE StreamInv
  OBVIOUS
<1> USE DEF ES!Init
<1>1. StreamTyped
  BY DEF StreamTyped, Places
<1>2. JoinedInChannel
  BY DEF JoinedInChannel
<1>3. NothingBefore /\ ES!StreamHasNoGaps /\ ES!RegistryIsExact
  BY DEF NothingBefore, ES!StreamHasNoGaps, ES!RegistryIsExact
<1> QED
  BY <1>1, <1>2, <1>3 DEF StreamInv

\* PUBLISH: the channel and the queue of every subscription grow together.
LEMMA DeliverKeepsInv ==
  ASSUME StreamInv, NEW event \in Nat, ES!Deliver(event), UNCHANGED ES!clientVars,
         MaxEvents \in Nat, esKafka' = esKafka, esPublishing' \in 0..MaxEvents,
         esMade' \in 0..MaxEvents
  PROVE  StreamInv'
<1> USE DEF ES!clientVars
<1>0. /\ esChannel \in Seq(Nat) /\ esQueue \in [Clients -> Seq(Nat)]
      /\ esJoined \in [Clients -> Nat] /\ esGot \in [Clients -> Seq(Nat)]
      /\ esWs \in [Clients -> Places]
      /\ \A w \in Clients : esJoined[w] <= Len(esChannel)
  BY DEF StreamInv, StreamTyped, JoinedInChannel
<1>1. esChannel' \in Seq(Nat) /\ Len(esChannel') = Len(esChannel) + 1
  BY <1>0 DEF ES!Deliver
<1>2. esQueue' \in [Clients -> Seq(Nat)]
  BY <1>0 DEF ES!Deliver
<1>3. StreamTyped'
  BY <1>1, <1>2 DEF StreamInv, StreamTyped
<1>4. JoinedInChannel'
  BY <1>0, <1>1 DEF JoinedInChannel
<1>5. NothingBefore'
  BY DEF StreamInv, NothingBefore
<1>6. ES!StreamHasNoGaps'
  <2> SUFFICES ASSUME NEW w \in Clients, esWs[w] = "streaming"
               PROVE  esGot[w] \o esQueue'[w] = SubSeq(esChannel', esJoined[w] + 1, Len(esChannel'))
    BY DEF ES!StreamHasNoGaps
  <2>1. esQueue'[w] = Append(esQueue[w], event)
    BY <1>0 DEF ES!Deliver, ES!Subscribed
  <2>2. esGot[w] \o esQueue[w] = SubSeq(esChannel, esJoined[w] + 1, Len(esChannel))
    BY DEF StreamInv, ES!StreamHasNoGaps
  <2>3. esGot[w] \o Append(esQueue[w], event) = Append(esGot[w] \o esQueue[w], event)
    <3>1. esGot[w] \in Seq(Nat) /\ esQueue[w] \in Seq(Nat)
      BY <1>0
    <3> QED
      BY <3>1, ConcatAppend
  <2>4. esJoined[w] \in 0..Len(esChannel)
    BY <1>0
  <2>5. SubSeq(Append(esChannel, event), esJoined[w] + 1, Len(esChannel) + 1)
          = Append(SubSeq(esChannel, esJoined[w] + 1, Len(esChannel)), event)
    BY <1>0, <2>4, SinceAppend
  <2>6. esChannel' = Append(esChannel, event)
    BY DEF ES!Deliver
  <2> QED
    BY <1>1, <2>1, <2>2, <2>3, <2>5, <2>6
<1>7. ES!RegistryIsExact'
  <2> SUFFICES ASSUME NEW w \in Clients
               PROVE  /\ w \in esActive <=> esWs[w] \in {"accepted", "streaming", "idling"}
                      /\ esQueue'[w] # <<>> => esWs[w] \in {"streaming", "abandoned"}
    BY DEF ES!RegistryIsExact
  <2>1. w \notin ES!Subscribed => esQueue'[w] = esQueue[w]
    BY <1>0 DEF ES!Deliver
  <2> QED
    BY <2>1 DEF StreamInv, ES!RegistryIsExact, ES!Subscribed
<1> QED
  BY <1>3, <1>4, <1>5, <1>6, <1>7 DEF StreamInv

\* A step that touches neither the channel nor the queues and handlers.
LEMMA ElsewhereKeepsInv ==
  ASSUME StreamInv, UNCHANGED <<esChannel, esQueue, esWs, esActive, esGot, esJoined>>,
         esGone' \subseteq Clients, esKafka' \subseteq 1..MaxEvents,
         esPublishing' \in 0..MaxEvents, esMade' \in 0..MaxEvents
  PROVE  StreamInv'
<1>1. StreamTyped'
  BY DEF StreamInv, StreamTyped
<1>2. JoinedInChannel' /\ NothingBefore'
  BY DEF StreamInv, JoinedInChannel, NothingBefore
<1>3. ES!StreamHasNoGaps'
  BY DEF StreamInv, ES!StreamHasNoGaps
<1>4. ES!RegistryIsExact'
  BY DEF StreamInv, ES!RegistryIsExact
<1> QED
  BY <1>1, <1>2, <1>3, <1>4 DEF StreamInv

\* A handler moves on: only what concerns its own client changes, and the facts
\* about that client have to hold again.
LEMMA ClientKeepsInv ==
  ASSUME StreamInv, NEW w \in Clients, NEW place \in Places,
         esWs' = [esWs EXCEPT ![w] = place],
         UNCHANGED <<ES!producerVars, esGone>>,
         esActive' \subseteq Clients, \A v \in Clients \ {w} : v \in esActive' <=> v \in esActive,
         w \in esActive' <=> place \in {"accepted", "streaming", "idling"},
         NEW q \in Seq(Nat), esQueue' = [esQueue EXCEPT ![w] = q],
         q # <<>> => place \in {"streaming", "abandoned"},
         NEW g \in Seq(Nat), esGot' = [esGot EXCEPT ![w] = g],
         place \in {"none", "accepted"} => g = <<>>,
         NEW j \in Nat, esJoined' = [esJoined EXCEPT ![w] = j], j <= Len(esChannel),
         place = "streaming" => g \o q = SubSeq(esChannel, j + 1, Len(esChannel))
  PROVE  StreamInv'
<1> USE DEF ES!producerVars
<1>1. StreamTyped'
  BY DEF StreamInv, StreamTyped
<1>2. /\ esWs \in [Clients -> Places] /\ esQueue \in [Clients -> Seq(Nat)]
      /\ esGot \in [Clients -> Seq(Nat)] /\ esJoined \in [Clients -> Nat]
  BY DEF StreamInv, StreamTyped
<1>3. /\ esWs'[w] = place /\ esQueue'[w] = q /\ esGot'[w] = g /\ esJoined'[w] = j
      /\ \A v \in Clients \ {w} : /\ esWs'[v] = esWs[v] /\ esQueue'[v] = esQueue[v]
                                  /\ esGot'[v] = esGot[v] /\ esJoined'[v] = esJoined[v]
  BY <1>2
<1>4. esChannel' = esChannel
  OBVIOUS
<1>5. JoinedInChannel' /\ NothingBefore'
  BY <1>3, <1>4 DEF StreamInv, JoinedInChannel, NothingBefore
<1>6. ES!StreamHasNoGaps'
  BY <1>3, <1>4 DEF StreamInv, ES!StreamHasNoGaps
<1>7. ES!RegistryIsExact'
  BY <1>3, <1>4 DEF StreamInv, ES!RegistryIsExact
<1> QED
  BY <1>1, <1>5, <1>6, <1>7 DEF StreamInv

\* Every step keeps the invariant.
LEMMA StreamNext ==
  ASSUME MaxEvents \in Nat
  PROVE  StreamInv /\ [ES!Next]_(ES!streamVars) => StreamInv'
<1> SUFFICES ASSUME StreamInv, [ES!Next]_(ES!streamVars) PROVE StreamInv'
  OBVIOUS
<1> USE DEF ES!producerVars, ES!clientVars
<1>0. /\ esWs \in [Clients -> Places] /\ esQueue \in [Clients -> Seq(Nat)]
      /\ esGot \in [Clients -> Seq(Nat)] /\ esJoined \in [Clients -> Nat]
      /\ esActive \subseteq Clients /\ esGone \subseteq Clients
      /\ esChannel \in Seq(Nat) /\ Len(esChannel) \in Nat
      /\ esKafka \subseteq 1..MaxEvents /\ esPublishing \in 0..MaxEvents
      /\ esMade \in 0..MaxEvents
  BY DEF StreamInv, StreamTyped
<1>a. \A w \in Clients : esJoined[w] <= Len(esChannel)
  BY DEF StreamInv, JoinedInChannel
<1>b. \A w \in Clients :
        /\ w \in esActive <=> esWs[w] \in {"accepted", "streaming", "idling"}
        /\ esQueue[w] # <<>> => esWs[w] \in {"streaming", "abandoned"}
  BY DEF StreamInv, ES!RegistryIsExact
<1>c. <<>> \in Seq(Nat) /\ \A w \in Clients : esJoined[w] \in Nat /\ esGot[w] \in Seq(Nat)
  BY <1>0
<1>1. CASE ES!DisconnectProducer \/ ES!ConnectPubsub \/ ES!DisconnectPubsub
  BY <1>1, <1>0, ElsewhereKeepsInv DEF ES!DisconnectProducer, ES!ConnectPubsub, ES!DisconnectPubsub
<1>2. CASE ES!PublishObservationCreated
  <2>1. esMade' \in 0..MaxEvents /\ esMade' \in 1..MaxEvents
    BY <1>2, <1>0 DEF ES!PublishObservationCreated
  <2>2. esKafka' \subseteq 1..MaxEvents /\ esPublishing' \in 0..MaxEvents
    BY <1>2, <1>0, <2>1 DEF ES!PublishObservationCreated
  <2> QED
    BY <1>2, <1>0, <2>1, <2>2, ElsewhereKeepsInv DEF ES!PublishObservationCreated
<1>3. CASE ES!PublishDocScraped
  <2>1. esMade' \in 0..MaxEvents /\ esMade' \in 1..MaxEvents
    BY <1>3, <1>0 DEF ES!PublishDocScraped
  <2>2. esKafka' \subseteq 1..MaxEvents
    BY <1>3, <1>0, <2>1 DEF ES!PublishDocScraped
  <2> QED
    BY <1>3, <1>0, <2>1, <2>2, ElsewhereKeepsInv DEF ES!PublishDocScraped
<1>4. CASE ES!PublishEvent
  <2>1. CASE ES!Deliver(esPublishing)
    <3>1. esPublishing \in Nat /\ esPublishing' \in 0..MaxEvents
      BY <1>4, <1>0 DEF ES!PublishEvent
    <3> QED
      BY <1>4, <2>1, <3>1, <1>0, DeliverKeepsInv DEF ES!PublishEvent
  <2>2. CASE UNCHANGED <<esChannel, esQueue>>
    BY <1>4, <2>2, <1>0, ElsewhereKeepsInv DEF ES!PublishEvent
  <2> QED
    BY <1>4, <2>1, <2>2 DEF ES!PublishEvent
<1>5. CASE ES!PublishDirect
  <2>1. esMade' \in 0..MaxEvents /\ esMade' \in Nat
    BY <1>5, <1>0 DEF ES!PublishDirect
  <2>2. ES!Deliver(esMade')
    BY <1>5 DEF ES!PublishDirect
  <2>3. UNCHANGED <<esKafka, esPublishing, ES!clientVars>>
    BY <1>5 DEF ES!PublishDirect
  <2>4. esChannel' = Append(esChannel, esMade')
        /\ esQueue' = [w \in Clients |->
                       IF w \in ES!Subscribed THEN Append(esQueue[w], esMade') ELSE esQueue[w]]
    BY <2>2 DEF ES!Deliver
  <2>5. PICK e \in Nat : e = esMade'
    BY <2>1
  <2>6. ES!Deliver(e)
    BY <2>4, <2>5 DEF ES!Deliver
  <2> QED
    BY <2>1, <2>3, <2>6, <1>0, DeliverKeepsInv
<1>6. ASSUME NEW w \in Clients, NEW token \in {"none", "invalid", "valid"}, ES!Connect(w, token)
      PROVE  StreamInv'
  <2>1. esGot[w] = <<>> /\ esQueue[w] = <<>> /\ w \notin esActive
    BY <1>6, <1>b DEF ES!Connect, StreamInv, NothingBefore
  <2>2. esQueue' = [esQueue EXCEPT ![w] = <<>>] /\ esGot' = [esGot EXCEPT ![w] = <<>>]
        /\ esJoined' = [esJoined EXCEPT ![w] = esJoined[w]]
    BY <1>6, <1>0, <2>1 DEF ES!Connect
  <2>3. CASE ES!Accepts(token)
    <3>1. PICK place \in {"accepted", "idling"} : esWs' = [esWs EXCEPT ![w] = place]
      BY <1>6, <2>3 DEF ES!Connect
    <3>2. esActive' = esActive \cup {w}
      BY <1>6, <2>3 DEF ES!Connect
    <3> QED
      <4>1. /\ UNCHANGED <<ES!producerVars, esGone>> /\ esActive' \subseteq Clients
            /\ \A v \in Clients \ {w} : v \in esActive' <=> v \in esActive
            /\ w \in esActive' /\ place \in Places
        BY <1>6, <1>0, <3>1, <3>2 DEF ES!Connect, Places
      <4> QED
        BY <1>a, <1>c, <2>2, <3>1, <4>1, ClientKeepsInv
  <2>4. CASE ~ES!Accepts(token)
    <3>1. esWs' = [esWs EXCEPT ![w] = "closed"] /\ esActive' = esActive
      BY <1>6, <2>4 DEF ES!Connect
    <3> QED
      <4>1. UNCHANGED <<ES!producerVars, esGone>> /\ "closed" \in Places
        BY <1>6 DEF ES!Connect, Places
      <4> QED
        BY <1>0, <1>a, <1>c, <2>1, <2>2, <3>1, <4>1, ClientKeepsInv
  <2> QED
    BY <2>3, <2>4
<1>7. ASSUME NEW w \in Clients, ES!SubscribeEvents(w) PROVE StreamInv'
  <2>1. esGot[w] = <<>> /\ esQueue[w] = <<>> /\ w \in esActive
    BY <1>7, <1>b DEF ES!SubscribeEvents, StreamInv, NothingBefore
  <2>2. esQueue' = [esQueue EXCEPT ![w] = esQueue[w]] /\ esGot' = [esGot EXCEPT ![w] = esGot[w]]
        /\ esJoined' = [esJoined EXCEPT ![w] = Len(esChannel)]
        /\ esWs' = [esWs EXCEPT ![w] = "streaming"] /\ esActive' = esActive
        /\ UNCHANGED <<ES!producerVars, esGone>> /\ "streaming" \in Places
    BY <1>7, <1>0 DEF ES!SubscribeEvents, Places
  <2>3. esGot[w] \o esQueue[w] = SubSeq(esChannel, Len(esChannel) + 1, Len(esChannel))
    BY <1>0, <2>1
  <2>4. /\ esQueue[w] \in Seq(Nat) /\ esGot[w] \in Seq(Nat) /\ Len(esChannel) <= Len(esChannel)
        /\ esActive' \subseteq Clients /\ w \in esActive'
        /\ \A v \in Clients \ {w} : v \in esActive' <=> v \in esActive
    BY <1>0, <2>1, <2>2
  <2> HIDE DEF ES!producerVars, ES!clientVars
  <2> QED
    BY <1>0, <2>2, <2>3, <2>4, ClientKeepsInv
<1>8. ASSUME NEW w \in Clients, ES!Reader(w) PROVE StreamInv'
  <2>1. /\ esWs[w] = "streaming" /\ esQueue[w] # <<>> /\ esQueue[w] \in Seq(Nat)
        /\ w \in esActive /\ esGot[w] \in Seq(Nat)
        /\ esGot[w] \o esQueue[w] = SubSeq(esChannel, esJoined[w] + 1, Len(esChannel))
    BY <1>8, <1>0, <1>b DEF ES!Reader, StreamInv, ES!StreamHasNoGaps
  <2>2. Head(esQueue[w]) \in Nat /\ Tail(esQueue[w]) \in Seq(Nat)
    BY <2>1
  <2>3. esQueue' = [esQueue EXCEPT ![w] = Tail(esQueue[w])]
        /\ esJoined' = [esJoined EXCEPT ![w] = esJoined[w]]
    BY <1>8, <1>0 DEF ES!Reader
  <2>4. CASE ES!SendFails(w)
    <3>1. /\ esWs' = [esWs EXCEPT ![w] = "abandoned"] /\ esActive' = esActive \ {w}
          /\ esGot' = [esGot EXCEPT ![w] = esGot[w]]
      BY <2>4, <1>0 DEF ES!SendFails, ES!Leave
    <3> QED
      BY <1>8, <1>0, <1>a, <2>1, <2>2, <2>3, <3>1, ClientKeepsInv DEF ES!Reader, Places
  <2>5. CASE /\ esGot' = [esGot EXCEPT ![w] = Append(@, Head(esQueue[w]))]
             /\ UNCHANGED <<esWs, esActive>>
    <3> DEFINE g == Append(esGot[w], Head(esQueue[w]))
    <3>1. g \in Seq(Nat) /\ g \o Tail(esQueue[w]) = esGot[w] \o esQueue[w]
      <4>1. Append(esGot[w], Head(esQueue[w])) \in Seq(Nat)
        BY <2>1, <2>2
      <4> QED
        BY <2>1, <4>1, MoveHead
    <3>2. esGot' = [esGot EXCEPT ![w] = g] /\ esWs' = [esWs EXCEPT ![w] = "streaming"]
          /\ esActive' = esActive
      BY <2>5, <2>1, <1>0
    <3> HIDE DEF g
    <3> QED
      <4>1. UNCHANGED <<ES!producerVars, esGone>> /\ "streaming" \in Places
        BY <1>8 DEF ES!Reader, Places
      <4> QED
        BY <1>0, <1>a, <1>c, <2>1, <2>2, <2>3, <3>1, <3>2, <4>1, ClientKeepsInv
  <2> QED
    BY <1>8, <2>4, <2>5 DEF ES!Reader
<1>9. ASSUME NEW w \in Clients, ES!PingFails(w) \/ ES!ListenFails(w) PROVE StreamInv'
  <2>1. /\ esWs' = [esWs EXCEPT ![w] = "closed"] /\ esActive' = esActive \ {w}
        /\ esQueue' = [esQueue EXCEPT ![w] = <<>>]
        /\ esJoined' = [esJoined EXCEPT ![w] = esJoined[w]] /\ esGot' = [esGot EXCEPT ![w] = esGot[w]]
        /\ UNCHANGED <<ES!producerVars, esGone>>
    BY <1>9, <1>0 DEF ES!PingFails, ES!ListenFails, ES!Leave
  <2> QED
    BY <1>0, <1>a, <1>c, <2>1, ClientKeepsInv DEF Places
<1>10. ASSUME NEW w \in Clients, ES!Unsubscribe(w) PROVE StreamInv'
  <2>1. /\ esWs' = [esWs EXCEPT ![w] = "closed"] /\ esActive' = esActive /\ w \notin esActive
        /\ esQueue' = [esQueue EXCEPT ![w] = <<>>]
        /\ esJoined' = [esJoined EXCEPT ![w] = esJoined[w]] /\ esGot' = [esGot EXCEPT ![w] = esGot[w]]
        /\ UNCHANGED <<ES!producerVars, esGone>>
    BY <1>10, <1>0, <1>b DEF ES!Unsubscribe
  <2> QED
    BY <1>0, <1>a, <1>c, <2>1, ClientKeepsInv DEF Places
<1>11. ASSUME NEW w \in Clients, ES!ClientCloses(w) PROVE StreamInv'
  BY <1>11, <1>0, ElsewhereKeepsInv DEF ES!ClientCloses
<1>12. CASE UNCHANGED ES!streamVars
  BY <1>12, <1>0, ElsewhereKeepsInv DEF ES!streamVars
<1> QED
  BY <1>1, <1>2, <1>3, <1>4, <1>5, <1>6, <1>7, <1>8, <1>9, <1>10, <1>11, <1>12 DEF ES!Next

\* The invariant has the property that the messaging run checks.
LEMMA StreamImplies ==
  ASSUME StreamInv
  PROVE  ES!TypeOK /\ ES!StreamHasNoGaps /\ ES!RegistryIsExact
  BY DEF StreamInv, StreamTyped, JoinedInChannel, Places, ES!TypeOK

-----------------------------------------------------------------------------
\* For any clients and any number of events: what a connected client received and
\* what waits for it are the events of the channel since its subscription, in
\* order, and the registry of connections is the handlers that still run
\* (pubsub.py subscribe_events, api/routes/ws.py).
THEOREM StreamIsComplete ==
  ES!Spec => [](ES!TypeOK /\ ES!StreamHasNoGaps /\ ES!RegistryIsExact)
<1>1. ES!Init => StreamInv
  BY StreamInit, StreamAssumption
<1>2. StreamInv /\ [ES!Next]_(ES!streamVars) => StreamInv'
  BY StreamNext, StreamAssumption
<1>3. StreamInv => ES!TypeOK /\ ES!StreamHasNoGaps /\ ES!RegistryIsExact
  BY StreamImplies
<1> QED
  BY <1>1, <1>2, <1>3, PTL DEF ES!Spec

\* The same of the stream beside the other parts.
THEOREM StreamIsCompleteBeside == MCSpec => []StreamHasNoGaps
<1>1. MCInit => StreamInv
  BY StreamInit, StreamAssumption DEF MCInit
<1>2. StreamInv /\ [MCNext]_allVars => StreamInv'
  <2> SUFFICES ASSUME StreamInv, [MCNext]_allVars PROVE StreamInv'
    OBVIOUS
  <2>1. [ES!Next]_(ES!streamVars)
    BY DEF MCNext, allVars, streamVars, ES!streamVars, ES!producerVars, ES!clientVars
  <2> QED
    BY <2>1, StreamNext, StreamAssumption
<1>3. StreamInv => StreamHasNoGaps
  BY StreamImplies DEF StreamHasNoGaps
<1> QED
  BY <1>1, <1>2, <1>3, PTL DEF MCSpec
=============================================================================
