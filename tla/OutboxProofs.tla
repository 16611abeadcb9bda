---------------------------- MODULE OutboxProofs ----------------------------
(***************************************************************************)
(* Proofs about Outbox for any number of events, publishers and faults: a  *)
(* published event was stored by the broker, and stays published, and each *)
(* duplicate in the topic is paid for by a fault.                          *)
(***************************************************************************)
EXTENDS Outbox, FiniteSetTheorems, TLAPS

Rows == {x \in Events : Inserted(x)}

\* Primary keys are handed out in order and never twice.
KeysInOrder ==
  /\ \A e \in Events : rank[e] <= Cardinality(Rows)
  /\ \A e, x \in Events : Inserted(e) /\ rank[e] = rank[x] => e = x

BatchInserted == \A p \in Publishers : \A e \in batch[p] : Inserted(e)

\* A publisher about to mark its event as sent has seen the broker store it.
SentIsStored ==
  \A p \in Publishers, e \in Events :
    pc[p] \in {"mark", "commit"} /\ outcome[p] = "sent" /\ IsHead(p, e) => topic[e] > 0

Inv == TypeOK /\ KeysInOrder /\ BatchInserted /\ SentIsStored /\ PublishedWasSent

\* The table holds finitely many rows, so the next primary key is a number.
LEMMA RowsFinite == IsFiniteSet(Rows) /\ Cardinality(Rows) \in Nat
  BY LimitsAssumption, FS_Subset, FS_CardinalityType DEF Rows

\* The batch has one head: primary keys are unique.
LEMMA HeadUnique ==
  ASSUME Inv, NEW p \in Publishers, NEW e \in Events, NEW x \in Events,
         IsHead(p, e), IsHead(p, x)
  PROVE  e = x
  <1>1. rank[e] <= rank[x] /\ rank[x] <= rank[e] /\ Inserted(e)
    BY DEF IsHead, Inv, BatchInserted
  <1>2. rank[e] \in Nat /\ rank[x] \in Nat
    BY DEF Inv, TypeOK
  <1> QED
    BY <1>1, <1>2 DEF Inv, KeysInOrder

\* The inductive invariant holds for an empty outbox.
LEMMA InvInit == Init => Inv
  <1> SUFFICES ASSUME Init PROVE Inv
    OBVIOUS
  <1>1. TypeOK
    BY LimitsAssumption DEF Init, TypeOK, Lease
  <1>2. KeysInOrder
    BY RowsFinite DEF Init, KeysInOrder, Inserted
  <1> QED
    BY <1>1, <1>2 DEF Init, Inv, BatchInserted, SentIsStored, PublishedWasSent

\* Steps that keep the keys and put only inserted rows in batches.
LEMMA KeysKept ==
  ASSUME Inv, UNCHANGED rank,
         \A p \in Publishers : \A e \in batch'[p] : Inserted(e)
  PROVE  KeysInOrder' /\ BatchInserted'
  BY DEF Inv, KeysInOrder, BatchInserted, Inserted, Rows

\* Storing a record never lowers the count of any event.
LEMMA StoredGrows ==
  ASSUME TypeOK, NEW e \in Events, Stored(e)
  PROVE  /\ topic' \in [Events -> 0..MaxSends]
         /\ topic'[e] > 0
         /\ \A x \in Events : topic[x] > 0 => topic'[x] > 0
  BY LimitsAssumption DEF TypeOK, Stored

\* Every step keeps the inductive invariant.
LEMMA InvStep == Inv /\ [Next]_vars => Inv'
  <1> SUFFICES ASSUME Inv, [Next]_vars PROVE Inv'
    OBVIOUS
  <1> USE LimitsAssumption, PublishersAssumption
  <1>1. ASSUME NEW e \in Events, AddOutboxEvent(e) PROVE Inv'
    <2>1. rank' = [rank EXCEPT ![e] = 1 + Cardinality(Rows)] /\ rank[e] = 0
      <3>1. ~Inserted(e) /\ rank' = [rank EXCEPT ![e] = 1 + Cardinality(Rows)]
        BY <1>1 DEF AddOutboxEvent, Rows
      <3>2. rank[e] \in Nat
        BY DEF Inv, TypeOK
      <3> QED
        BY <3>1, <3>2 DEF Inserted
    <2>2. UNCHANGED <<published, owner, lease, next, pc, batch, outcome, topic, faults>>
      BY <1>1 DEF AddOutboxEvent
    <2>3. TypeOK'
      BY <2>1, <2>2, RowsFinite DEF Inv, TypeOK
    <2>4. \A x \in Events : Inserted(x) => rank'[x] = rank[x] /\ x # e
      BY <2>1 DEF Inv, TypeOK, Inserted
    <2>5. Rows' = Rows \cup {e} /\ e \notin Rows
      <3>1. \A x \in Events : rank'[x] = IF x = e THEN 1 + Cardinality(Rows) ELSE rank[x]
        BY <2>1 DEF Inv, TypeOK
      <3>2. rank'[e] > 0
        BY <3>1, RowsFinite
      <3>3. \A x \in Events : Inserted(x)' <=> (x = e \/ Inserted(x))
        BY <3>1, <3>2 DEF Inserted
      <3> QED
        BY <2>1, <3>3 DEF Rows, Inserted
    <2>6. Cardinality(Rows') = Cardinality(Rows) + 1
      BY <2>5, RowsFinite, FS_AddElement
    <2>7. KeysInOrder'
      <3>1. \A x \in Events : x # e => rank'[x] = rank[x] /\ rank[x] <= Cardinality(Rows) /\ rank[x] \in Nat
        BY <2>1 DEF Inv, TypeOK, KeysInOrder
      <3>2. rank'[e] = 1 + Cardinality(Rows)
        BY <2>1 DEF Inv, TypeOK
      <3>3. \A x \in Events : rank'[x] <= Cardinality(Rows')
        BY <2>6, <3>1, <3>2, RowsFinite
      <3>4. ASSUME NEW x \in Events, NEW y \in Events, rank'[x] > 0, rank'[x] = rank'[y] PROVE x = y
        <4>1. CASE x # e /\ y # e
          BY <3>1, <3>4, <4>1 DEF Inv, KeysInOrder, Inserted
        <4>2. CASE x = e \/ y = e
          BY <3>1, <3>2, <3>4, <4>2, RowsFinite
        <4> QED
          BY <4>1, <4>2
      <3> QED
        BY <3>3, <3>4 DEF KeysInOrder, Inserted
    <2>8. BatchInserted'
      BY <2>2, <2>4 DEF Inv, BatchInserted, Inserted, TypeOK
    <2>9. SentIsStored'
      <3> SUFFICES ASSUME NEW p \in Publishers, NEW x \in Events, pc'[p] \in {"mark", "commit"},
                          outcome'[p] = "sent", IsHead(p, x)'
                   PROVE  topic'[x] > 0
        BY DEF SentIsStored
      <3>1. \A y \in batch[p] : y \in Events /\ Inserted(y)
        BY DEF Inv, BatchInserted, TypeOK
      <3>2. IsHead(p, x)
        BY <2>2, <2>4, <3>1 DEF IsHead
      <3> QED
        BY <2>2, <3>2 DEF Inv, SentIsStored
    <2> QED
      BY <2>2, <2>3, <2>7, <2>8, <2>9 DEF Inv, PublishedWasSent
  <1>2. ASSUME NEW e \in Events, LeaseExpires(e) \/ RetryFallsDue(e) PROVE Inv'
    <2>1. TypeOK'
      BY <1>2 DEF LeaseExpires, RetryFallsDue, Fault, Inv, TypeOK, Lease
    <2>2. UNCHANGED <<rank, published, pc, batch, outcome, topic>>
      BY <1>2 DEF LeaseExpires, RetryFallsDue
    <2> QED
      BY <2>1, <2>2 DEF Inv, KeysInOrder, BatchInserted, Inserted, Rows, SentIsStored, IsHead,
                        PublishedWasSent
  <1>3. ASSUME NEW p \in Publishers, ClaimPendingOutboxEvents(p) PROVE Inv'
    <2> DEFINE rows == FirstRows(Claimable)
    <2>1. \A e \in rows : e \in Events /\ Inserted(e)
      BY DEF FirstRows, Claimable
    <2>2. /\ owner' = [e \in Events |-> IF e \in rows THEN p ELSE owner[e]]
          /\ lease' = [e \in Events |-> IF e \in rows THEN "live" ELSE lease[e]]
          /\ batch' = [batch EXCEPT ![p] = rows]
          /\ pc' = [pc EXCEPT ![p] = "publish"]
          /\ UNCHANGED <<rank, published, next, outcome, topic, faults>>
      BY <1>3 DEF ClaimPendingOutboxEvents
    <2> HIDE DEF rows
    <2>3. TypeOK'
      BY <2>1, <2>2 DEF Inv, TypeOK, Lease
    <2>4. KeysInOrder' /\ BatchInserted'
      BY <2>1, <2>2, KeysKept DEF Inv, TypeOK, BatchInserted
    <2>5. SentIsStored' /\ PublishedWasSent'
      BY <2>2 DEF Inv, SentIsStored, PublishedWasSent, IsHead, TypeOK
    <2> QED
      BY <2>3, <2>4, <2>5 DEF Inv
  <1>4. ASSUME NEW p \in Publishers, NEW e \in Events, Publish(p, e) PROVE Inv'
    <2>1. /\ IsHead(p, e)
          /\ pc' = [pc EXCEPT ![p] = "mark"]
          /\ UNCHANGED <<rank, published, owner, lease, next, batch>>
      BY <1>4 DEF Publish, rowVars
    <2>2. /\ topic' \in [Events -> 0..MaxSends]
          /\ \A x \in Events : topic[x] > 0 => topic'[x] > 0
      BY <1>4, StoredGrows DEF Publish, Inv, TypeOK
    <2>3. \/ outcome' = [outcome EXCEPT ![p] = "sent"] /\ topic'[e] > 0 /\ UNCHANGED faults
          \/ outcome' = [outcome EXCEPT ![p] = "failed"] /\ Fault
      BY <1>4, StoredGrows DEF Publish, Inv
    <2>4. TypeOK'
      BY <2>1, <2>2, <2>3 DEF Inv, TypeOK, Fault
    <2>5. KeysInOrder' /\ BatchInserted'
      BY <2>1, KeysKept DEF Inv, BatchInserted
    <2>6. SentIsStored'
      <3> SUFFICES ASSUME NEW q \in Publishers, NEW x \in Events, pc'[q] \in {"mark", "commit"},
                          outcome'[q] = "sent", IsHead(q, x)'
                   PROVE  topic'[x] > 0
        BY DEF SentIsStored
      <3>1. IsHead(q, x)
        BY <2>1 DEF IsHead
      <3>2. CASE q = p
        <4>1. x = e
          BY <2>1, <3>1, <3>2, HeadUnique
        <4> QED
          BY <2>3, <3>2, <4>1 DEF Inv, TypeOK
      <3>3. CASE q # p
        <4>1. pc'[q] = pc[q] /\ outcome'[q] = outcome[q]
          BY <2>1, <2>3, <3>3 DEF Inv, TypeOK
        <4> QED
          BY <2>2, <3>1, <4>1 DEF Inv, SentIsStored
      <3> QED
        BY <3>2, <3>3
    <2>7. PublishedWasSent'
      BY <2>1, <2>2 DEF Inv, PublishedWasSent
    <2> QED
      BY <2>4, <2>5, <2>6, <2>7 DEF Inv
  <1>5. ASSUME NEW p \in Publishers, NEW e \in Events, MarkRead(p, e) PROVE Inv'
    <2>1. UNCHANGED <<rank, published, owner, lease, next, topic, faults>>
      BY <1>5 DEF MarkRead, rowVars
    <2>2. \/ pc' = [pc EXCEPT ![p] = "commit"] /\ pc[p] = "mark" /\ UNCHANGED <<batch, outcome>>
          \/ Done(p, e)
      BY <1>5 DEF MarkRead
    <2>3. TypeOK'
      BY <2>1, <2>2 DEF Inv, TypeOK, Done
    <2>4. KeysInOrder' /\ BatchInserted'
      BY <2>1, <2>2, KeysKept DEF Inv, TypeOK, BatchInserted, Done
    <2>5. SentIsStored'
      BY <2>1, <2>2 DEF Inv, SentIsStored, IsHead, TypeOK, Done
    <2> QED
      BY <2>1, <2>3, <2>4, <2>5 DEF Inv, PublishedWasSent
  <1>6. ASSUME NEW p \in Publishers, NEW e \in Events, MarkCommit(p, e) PROVE Inv'
    <2>1. /\ pc[p] = "commit" /\ IsHead(p, e)
          /\ owner' = [owner EXCEPT ![e] = None]
          /\ lease' = [lease EXCEPT ![e] = "none"]
          /\ Done(p, e)
          /\ UNCHANGED <<rank, topic, faults>>
      BY <1>6 DEF MarkCommit
    <2>2. \/ /\ outcome[p] = "sent"
             /\ published' = [published EXCEPT ![e] = TRUE]
             /\ next' = [next EXCEPT ![e] = "none"]
          \/ next' = [next EXCEPT ![e] = "later"] /\ UNCHANGED published
      BY <1>6 DEF MarkCommit
    <2>3. TypeOK'
      BY <2>1, <2>2 DEF Inv, TypeOK, Done, Lease
    <2>4. KeysInOrder' /\ BatchInserted'
      BY <2>1, KeysKept DEF Inv, TypeOK, BatchInserted, Done
    <2>5. SentIsStored'
      BY <2>1 DEF Inv, SentIsStored, IsHead, TypeOK, Done
    <2>6. PublishedWasSent'
      BY <2>1, <2>2 DEF Inv, PublishedWasSent, SentIsStored, TypeOK
    <2> QED
      BY <2>3, <2>4, <2>5, <2>6 DEF Inv
  <1>7. ASSUME NEW p \in Publishers, Abort(p) PROVE Inv'
    <2>1. /\ pc' = [pc EXCEPT ![p] = "idle"]
          /\ batch' = [batch EXCEPT ![p] = {}]
          /\ outcome' = [outcome EXCEPT ![p] = "failed"]
          /\ UNCHANGED <<rank, published, owner, lease, next, topic>>
      BY <1>7 DEF Abort, rowVars
    <2>2. TypeOK'
      BY <1>7, <2>1 DEF Abort, Fault, Inv, TypeOK
    <2>3. KeysInOrder' /\ BatchInserted'
      BY <2>1, KeysKept DEF Inv, TypeOK, BatchInserted
    <2>4. SentIsStored' /\ PublishedWasSent'
      BY <2>1 DEF Inv, SentIsStored, PublishedWasSent, IsHead, TypeOK
    <2> QED
      BY <2>2, <2>3, <2>4 DEF Inv
  <1>8. CASE UNCHANGED vars
    BY <1>8 DEF vars, rowVars, Inv, TypeOK, KeysInOrder, BatchInserted, Inserted, Rows,
                SentIsStored, IsHead, PublishedWasSent
  <1> QED
    BY <1>1, <1>2, <1>3, <1>4, <1>5, <1>6, <1>7, <1>8 DEF Next, Step

\* The inductive invariant holds in every reachable state of the publishers.
THEOREM Invariance == Spec => []Inv
  BY InvInit, InvStep, PTL DEF Spec

\* For any number of publishers, an event marked published was stored by the
\* broker (publish_notification_outbox_batch marks only what it sent, under
\* whatever interleaving of unlocked marks).
THEOREM NothingIsLost == Spec => []PublishedWasSent
  <1>1. Inv => PublishedWasSent
    BY DEF Inv
  <1> QED
    BY <1>1, Invariance, PTL

\* A row never becomes unpublished, although mark_outbox_publish_failed writes
\* rows it has not locked.
THEOREM PublicationIsFinal == Spec => PublishedIsFinal
  <1> DEFINE A == \A e \in Events : published[e] => published'[e]
  <1>1. ASSUME Inv, [Next]_vars PROVE A
    <2>1. ASSUME NEW p \in Publishers, NEW e \in Events, MarkCommit(p, e) PROVE A
      <3>1. UNCHANGED published \/ published' = [published EXCEPT ![e] = TRUE]
        BY <2>1 DEF MarkCommit
      <3> QED
        BY <1>1, <3>1 DEF Inv, TypeOK
    <2>2. ASSUME NEW e \in Events, AddOutboxEvent(e) \/ LeaseExpires(e) \/ RetryFallsDue(e)
          PROVE  UNCHANGED published
      BY <2>2 DEF AddOutboxEvent, LeaseExpires, RetryFallsDue
    <2>3. ASSUME NEW p \in Publishers, ClaimPendingOutboxEvents(p) \/ Abort(p)
          PROVE  UNCHANGED published
      BY <2>3 DEF ClaimPendingOutboxEvents, Abort, rowVars
    <2>4. ASSUME NEW p \in Publishers, NEW e \in Events, Publish(p, e) \/ MarkRead(p, e)
          PROVE  UNCHANGED published
      BY <2>4 DEF Publish, MarkRead, rowVars
    <2>5. CASE UNCHANGED vars
      BY <2>5 DEF vars, rowVars
    <2> QED
      BY <1>1, <2>1, <2>2, <2>3, <2>4, <2>5 DEF Next, Step
  <1>2. Inv /\ [Next]_vars => [A]_vars
    BY <1>1
  <1> QED
    BY <1>2, Invariance, PTL DEF Spec, PublishedIsFinal

-----------------------------------------------------------------------------
(* Duplicates.  A record in the topic is owed by someone: each publisher     *)
(* whose batch holds the event and has not seen its send succeed may store   *)
(* it once more, and so may whoever claims the row next.                     *)

Pending(e) ==
  {p \in Publishers : e \in batch[p] /\ ~(IsHead(p, e) /\ outcome[p] = "sent")}

\* The row can be claimed again without another fault.
Reopened(e) == ~published[e] /\ ~(lease[e] = "live" /\ Handled(e))

Owed(e) == Cardinality(Pending(e)) + (IF Reopened(e) THEN 1 ELSE 0)

SendsArePaidFor == \A e \in Events : topic[e] + Owed(e) <= 1 + faults

\* A loop that has not sent anything has neither a batch nor an outcome to mark.
FreshBatch ==
  \A p \in Publishers :
    /\ pc[p] = "idle" => batch[p] = {}
    /\ pc[p] \in {"idle", "publish"} => outcome[p] = "failed"

PaidInv == Inv /\ FreshBatch /\ SendsArePaidFor

\* Sets of publishers are finite, so that what is owed is a number.
LEMMA PublisherSets ==
  ASSUME NEW S \in SUBSET Publishers, NEW T \in SUBSET Publishers
  PROVE  /\ Cardinality(S) \in Nat
         /\ S \subseteq T => Cardinality(S) <= Cardinality(T)
         /\ \A p : p \in S /\ T = S \ {p} => Cardinality(T) = Cardinality(S) - 1
         /\ \A p : T = S \cup {p} => Cardinality(T) <= Cardinality(S) + 1
  <1>1. IsFiniteSet(S) /\ IsFiniteSet(T)
    BY PublishersAssumption, FS_Subset
  <1>2. Cardinality(S) \in Nat
    BY <1>1, FS_CardinalityType
  <1>3. S \subseteq T => Cardinality(S) <= Cardinality(T)
    BY <1>1, FS_Subset
  <1>4. \A p : Cardinality(S \ {p}) = IF p \in S THEN Cardinality(S) - 1 ELSE Cardinality(S)
    BY <1>1, FS_RemoveElement
  <1>5. \A p : Cardinality(S \cup {p}) = IF p \in S THEN Cardinality(S) ELSE Cardinality(S) + 1
    BY <1>1, FS_AddElement
  <1> QED
    BY <1>2, <1>3, <1>4, <1>5

\* What an event owes is the pending senders and at most one more.
LEMMA OwedType ==
  ASSUME NEW e \in Events
  PROVE  /\ Cardinality(Pending(e)) \in Nat
         /\ Owed(e) = Cardinality(Pending(e)) + 1 \/ Owed(e) = Cardinality(Pending(e))
         /\ Reopened(e) => Owed(e) = Cardinality(Pending(e)) + 1
         /\ ~Reopened(e) => Owed(e) = Cardinality(Pending(e))
  <1>1. Pending(e) \in SUBSET Publishers
    BY DEF Pending
  <1> QED
    BY <1>1, PublisherSets DEF Owed

\* The bound survives a step after which nobody new may send the event and its
\* row is not newly open to a claim.
LEMMA OwedKept ==
  ASSUME PaidInv, Inv', NEW e \in Events, Pending(e)' \subseteq Pending(e),
         Reopened(e)' => Reopened(e), topic'[e] = topic[e], faults' >= faults
  PROVE  (topic[e] + Owed(e) <= 1 + faults)'
  <1>1. Pending(e) \in SUBSET Publishers /\ Pending(e)' \in SUBSET Publishers
    BY DEF Pending
  <1>2. Cardinality(Pending(e)') <= Cardinality(Pending(e)) /\ Cardinality(Pending(e)') \in Nat
    BY <1>1, PublisherSets
  <1>3. Owed(e)' <= Owed(e) /\ Owed(e)' \in Nat /\ Owed(e) \in Nat
    BY <1>2, OwedType DEF Owed
  <1>4. topic[e] \in Nat /\ faults \in Nat /\ faults' \in Nat
    BY DEF PaidInv, Inv, TypeOK
  <1> QED
    BY <1>3, <1>4 DEF PaidInv, SendsArePaidFor

\* A new chance to send the event is paid for by a fault or by a publisher that
\* gives up its own.
LEMMA OwedMoved ==
  ASSUME PaidInv, Inv', NEW e \in Events, topic'[e] = topic[e], faults' >= faults,
         \/ Pending(e)' \subseteq Pending(e) /\ faults' = faults + 1
         \/ \E p \in Pending(e) : Pending(e)' = Pending(e) \ {p}
         \/ Reopened(e) /\ ~Reopened(e)' /\ \E p : Pending(e)' = Pending(e) \cup {p}
  PROVE  (topic[e] + Owed(e) <= 1 + faults)'
  <1>1. Pending(e) \in SUBSET Publishers /\ Pending(e)' \in SUBSET Publishers
    BY DEF Pending
  <1>2. topic[e] \in Nat /\ faults \in Nat /\ faults' \in Nat /\ topic[e] + Owed(e) <= 1 + faults
    BY DEF PaidInv, Inv, TypeOK, SendsArePaidFor
  <1>3. Cardinality(Pending(e)') \in Nat /\ Cardinality(Pending(e)) \in Nat
    BY <1>1, PublisherSets
  <1>4. Owed(e)' = Cardinality(Pending(e)') + (IF Reopened(e)' THEN 1 ELSE 0)
    BY DEF Owed
  <1>5. Owed(e) = Cardinality(Pending(e)) + (IF Reopened(e) THEN 1 ELSE 0)
    BY DEF Owed
  <1>6. CASE Pending(e)' \subseteq Pending(e) /\ faults' = faults + 1
    <2>1. Cardinality(Pending(e)') <= Cardinality(Pending(e))
      BY <1>1, <1>6, PublisherSets
    <2> QED
      BY <1>2, <1>3, <1>4, <1>5, <1>6, <2>1
  <1>7. CASE \E p \in Pending(e) : Pending(e)' = Pending(e) \ {p}
    <2>1. Cardinality(Pending(e)') = Cardinality(Pending(e)) - 1
      BY <1>1, <1>7, PublisherSets
    <2> QED
      BY <1>2, <1>3, <1>4, <1>5, <2>1
  <1>8. CASE Reopened(e) /\ ~Reopened(e)' /\ \E p : Pending(e)' = Pending(e) \cup {p}
    <2>1. Cardinality(Pending(e)') <= Cardinality(Pending(e)) + 1
      BY <1>1, <1>8, PublisherSets
    <2> QED
      BY <1>2, <1>3, <1>4, <1>5, <1>8, <2>1
  <1> QED
    BY <1>6, <1>7, <1>8

\* After an event is dealt with, the rest of the batch is still to be sent.
LEMMA DonePending ==
  ASSUME Inv, NEW p \in Publishers, NEW e \in Events, IsHead(p, e), Done(p, e), UNCHANGED rank,
         NEW x \in Events
  PROVE  /\ Pending(x)' = IF x = e THEN Pending(x) \ {p} ELSE Pending(x)
         /\ x # e /\ UNCHANGED <<owner, lease, published>> => Reopened(x)' = Reopened(x)
         /\ \A q \in Publishers : (x # e \/ q # p) => (x \in batch'[q] <=> x \in batch[q])
  <1>1. /\ batch' = [batch EXCEPT ![p] = @ \ {e}]
        /\ outcome' = [outcome EXCEPT ![p] = "failed"]
    BY DEF Done
  <1>2. /\ \A q \in Publishers : q # p => batch'[q] = batch[q] /\ outcome'[q] = outcome[q]
        /\ batch'[p] = batch[p] \ {e} /\ outcome'[p] = "failed"
    BY <1>1 DEF Inv, TypeOK
  <1>3. \A q \in Publishers : q # p => (IsHead(q, x)' <=> IsHead(q, x))
    BY <1>2 DEF IsHead
  <1>4. x # e => ~IsHead(p, x)
    BY HeadUnique
  <1>5. \A q \in Publishers : (x # e \/ q # p) => (x \in batch'[q] <=> x \in batch[q])
    BY <1>2
  <1>6. Pending(x)' = IF x = e THEN Pending(x) \ {p} ELSE Pending(x)
    BY <1>2, <1>3, <1>4, <1>5 DEF Pending
  <1>7. x # e /\ UNCHANGED <<owner, lease, published>> => Reopened(x)' = Reopened(x)
    BY <1>5 DEF Reopened, Handled
  <1> QED
    BY <1>5, <1>6, <1>7

\* Every step pays for the sends it makes possible.
LEMMA PaidStep == PaidInv /\ Inv' /\ [Next]_vars => PaidInv'
  <1> SUFFICES ASSUME PaidInv, Inv', [Next]_vars PROVE FreshBatch' /\ SendsArePaidFor'
    BY DEF PaidInv
  <1> DEFINE Bound(x) == topic[x] + Owed(x) <= 1 + faults
  <1>a. Inv /\ FreshBatch /\ faults \in Nat
    BY DEF PaidInv, Inv, TypeOK
  <1>b. ASSUME \A x \in Events : Bound(x)' PROVE SendsArePaidFor'
    BY <1>b DEF SendsArePaidFor
  <1>1. ASSUME NEW e \in Events, AddOutboxEvent(e) PROVE FreshBatch' /\ SendsArePaidFor'
    <2>1. /\ rank' = [rank EXCEPT ![e] = 1 + Cardinality({x \in Events : Inserted(x)})]
          /\ ~Inserted(e)
          /\ UNCHANGED <<published, owner, lease, next, pc, batch, outcome, topic, faults>>
      BY <1>1 DEF AddOutboxEvent
    <2>2. \A q \in Publishers : \A y \in batch[q] : y \in Events /\ rank'[y] = rank[y]
      BY <1>a, <2>1 DEF Inv, TypeOK, BatchInserted
    <2>3. ASSUME NEW x \in Events PROVE Bound(x)'
      <3>1. \A q \in Publishers : IsHead(q, x)' <=> IsHead(q, x)
        BY <2>1, <2>2 DEF IsHead
      <3>2. Pending(x)' = Pending(x) /\ Reopened(x)' = Reopened(x)
        BY <2>1, <3>1 DEF Pending, Reopened, Handled
      <3> QED
        BY <1>a, <2>1, <3>2, OwedKept
    <2> QED
      BY <1>a, <1>b, <2>1, <2>3 DEF FreshBatch
  <1>2. ASSUME NEW e \in Events, LeaseExpires(e) PROVE FreshBatch' /\ SendsArePaidFor'
    <2>1. /\ lease[e] = "live"
          /\ IF Handled(e) THEN faults' = faults + 1 ELSE UNCHANGED faults
          /\ lease' = [lease EXCEPT ![e] = "expired"]
          /\ UNCHANGED <<rank, published, owner, next, pc, batch, outcome, topic>>
      BY <1>2 DEF LeaseExpires, Fault
    <2>2. ASSUME NEW x \in Events PROVE Bound(x)'
      <3>1. Pending(x)' = Pending(x) /\ (Handled(x)' <=> Handled(x)) /\ faults' >= faults
        BY <1>a, <2>1 DEF Pending, Handled, IsHead
      <3>2. CASE Handled(e)
        BY <2>1, <3>1, <3>2, OwedMoved
      <3>3. CASE ~Handled(e)
        <4>1. Reopened(x)' => Reopened(x)
          BY <1>a, <2>1, <3>1, <3>3 DEF Reopened, Inv, TypeOK
        <4> QED
          BY <2>1, <3>1, <4>1, OwedKept
      <3> QED
        BY <3>2, <3>3
    <2> QED
      BY <1>a, <1>b, <2>1, <2>2 DEF FreshBatch
  <1>3. ASSUME NEW e \in Events, RetryFallsDue(e) PROVE FreshBatch' /\ SendsArePaidFor'
    <2>1. UNCHANGED <<rank, published, owner, lease, pc, batch, outcome, topic, faults>>
      BY <1>3 DEF RetryFallsDue
    <2>2. ASSUME NEW x \in Events PROVE Bound(x)'
      <3>1. Pending(x)' = Pending(x) /\ Reopened(x)' = Reopened(x)
        BY <2>1 DEF Pending, Reopened, Handled, IsHead
      <3> QED
        BY <1>a, <2>1, <3>1, OwedKept
    <2> QED
      BY <1>a, <1>b, <2>1, <2>2 DEF FreshBatch
  <1>4. ASSUME NEW p \in Publishers, ClaimPendingOutboxEvents(p)
        PROVE  FreshBatch' /\ SendsArePaidFor'
    <2> DEFINE rows == FirstRows(Claimable)
    <2>1. \A e \in rows : e \in Events /\ ~published[e] /\ lease[e] # "live"
      BY DEF FirstRows, Claimable
    <2>2. /\ owner' = [e \in Events |-> IF e \in rows THEN p ELSE owner[e]]
          /\ lease' = [e \in Events |-> IF e \in rows THEN "live" ELSE lease[e]]
          /\ batch' = [batch EXCEPT ![p] = rows]
          /\ pc[p] = "idle"
          /\ pc' = [pc EXCEPT ![p] = "publish"]
          /\ UNCHANGED <<rank, published, next, outcome, topic, faults>>
      BY <1>4 DEF ClaimPendingOutboxEvents
    <2> HIDE DEF rows
    <2>3. batch[p] = {} /\ outcome[p] = "failed"
      BY <1>a, <2>2 DEF FreshBatch
    <2>4. /\ batch'[p] = rows
          /\ \A q \in Publishers : q # p => batch'[q] = batch[q]
          /\ \A x \in Events : x \notin rows => owner'[x] = owner[x] /\ lease'[x] = lease[x]
          /\ \A x \in rows : owner'[x] = p /\ lease'[x] = "live"
      BY <1>a, <2>1, <2>2 DEF Inv, TypeOK
    <2>5. ASSUME NEW x \in Events PROVE Bound(x)'
      <3>1. \A q \in Publishers : q # p => (IsHead(q, x)' <=> IsHead(q, x))
        BY <2>2, <2>4 DEF IsHead
      <3>2. CASE x \in rows
        <4>1. Pending(x)' = Pending(x) \cup {p}
          BY <2>2, <2>3, <2>4, <3>1, <3>2 DEF Pending
        <4>2. Reopened(x) /\ ~Reopened(x)'
          BY <2>1, <2>4, <3>2 DEF Reopened, Handled
        <4> QED
          BY <1>a, <2>2, <4>1, <4>2, OwedMoved
      <3>3. CASE x \notin rows
        <4>1. Pending(x)' = Pending(x)
          BY <2>2, <2>3, <2>4, <3>1, <3>3 DEF Pending
        <4>2. Handled(x)' <=> Handled(x)
          BY <2>3, <2>4, <3>3 DEF Handled
        <4>3. Reopened(x)' => Reopened(x)
          BY <2>2, <2>4, <3>3, <4>2 DEF Reopened
        <4> QED
          BY <1>a, <2>2, <4>1, <4>3, OwedKept
      <3> QED
        BY <3>2, <3>3
    <2>6. FreshBatch'
      BY <1>a, <2>2, <2>3, <2>4 DEF FreshBatch, Inv, TypeOK
    <2> QED
      BY <1>b, <2>5, <2>6
  <1>5. ASSUME NEW p \in Publishers, NEW e \in Events, Publish(p, e)
        PROVE  FreshBatch' /\ SendsArePaidFor'
    <2>1. /\ pc[p] = "publish" /\ IsHead(p, e)
          /\ pc' = [pc EXCEPT ![p] = "mark"]
          /\ UNCHANGED <<rank, published, owner, lease, next, batch>>
      BY <1>5 DEF Publish, rowVars
    <2>2. outcome[p] = "failed" /\ e \in batch[p]
      BY <1>a, <2>1 DEF FreshBatch, IsHead
    <2>3. \/ Stored(e) /\ outcome' = [outcome EXCEPT ![p] = "sent"] /\ UNCHANGED faults
          \/ (Stored(e) \/ UNCHANGED topic) /\ outcome' = [outcome EXCEPT ![p] = "failed"]
             /\ faults' = faults + 1
      BY <1>5 DEF Publish, Fault
    <2>4. /\ \A q \in Publishers : q # p => outcome'[q] = outcome[q] /\ pc'[q] = pc[q]
          /\ pc'[p] = "mark"
      BY <1>a, <2>1, <2>3 DEF Inv, TypeOK
    <2>5. FreshBatch'
      BY <1>a, <2>1, <2>4 DEF FreshBatch, Inv, TypeOK
    <2>6. \A x \in Events : x # e => topic'[x] = topic[x]
      BY <1>a, <2>3 DEF Stored, Inv, TypeOK
    <2>7. topic[e] \in Nat /\ topic'[e] \in Nat /\ topic'[e] <= topic[e] + 1
      BY <1>a, <2>3 DEF Stored, Inv, TypeOK
    <2>8. faults' \in Nat /\ faults' >= faults
      BY <1>a, <2>3
    <2>9. ASSUME NEW x \in Events PROVE Bound(x)'
      <3>1. /\ \A q \in Publishers : IsHead(q, x)' <=> IsHead(q, x)
            /\ Handled(x)' <=> Handled(x)
            /\ Reopened(x)' <=> Reopened(x)
        BY <2>1 DEF IsHead, Handled, Reopened
      <3>2. CASE x # e
        <4>1. ~IsHead(p, x)
          BY <1>a, <2>1, <3>2, HeadUnique
        <4>2. Pending(x)' = Pending(x)
          BY <2>1, <2>4, <3>1, <4>1 DEF Pending
        <4> QED
          BY <2>6, <2>8, <3>1, <3>2, <4>2, OwedKept
      <3>3. CASE x = e
        <4>1. Pending(e) \in SUBSET Publishers /\ Pending(e)' \in SUBSET Publishers /\ p \in Pending(e)
          BY <2>2 DEF Pending
        <4>2. Owed(e) \in Nat /\ topic[e] + Owed(e) <= 1 + faults
          BY OwedType DEF PaidInv, SendsArePaidFor
        <4>3. CASE outcome' = [outcome EXCEPT ![p] = "sent"] /\ UNCHANGED faults
          <5>1. outcome'[p] = "sent"
            BY <1>a, <4>3 DEF Inv, TypeOK
          <5>2. Pending(e)' = Pending(e) \ {p}
            BY <2>1, <2>4, <3>1, <3>3, <5>1 DEF Pending
          <5>3. Cardinality(Pending(e)') = Cardinality(Pending(e)) - 1
            BY <4>1, <5>2, PublisherSets
          <5>4. Owed(e)' = Owed(e) - 1
            BY <3>1, <3>3, <4>1, <5>3, PublisherSets DEF Owed
          <5> QED
            BY <1>a, <2>7, <3>3, <4>2, <4>3, <5>4
        <4>4. CASE outcome' = [outcome EXCEPT ![p] = "failed"] /\ faults' = faults + 1
          <5>1. outcome'[p] = outcome[p]
            BY <1>a, <2>2, <4>4 DEF Inv, TypeOK
          <5>2. Pending(e)' = Pending(e)
            BY <2>1, <2>4, <3>1, <3>3, <5>1 DEF Pending
          <5>3. Owed(e)' = Owed(e)
            BY <3>1, <3>3, <5>2 DEF Owed
          <5> QED
            BY <1>a, <2>7, <3>3, <4>2, <4>4, <5>3
        <4> QED
          BY <2>3, <4>3, <4>4
      <3> QED
        BY <3>2, <3>3
    <2> QED
      BY <1>b, <2>5, <2>9
  <1>6. ASSUME NEW p \in Publishers, NEW e \in Events, MarkRead(p, e)
        PROVE  FreshBatch' /\ SendsArePaidFor'
    <2>1. UNCHANGED <<rank, published, owner, lease, next, topic, faults>> /\ IsHead(p, e)
      BY <1>6 DEF MarkRead, rowVars
    <2>2. CASE pc' = [pc EXCEPT ![p] = "commit"] /\ UNCHANGED <<batch, outcome>>
      <3>1. ASSUME NEW x \in Events PROVE Bound(x)'
        <4>1. Pending(x)' = Pending(x) /\ Reopened(x)' = Reopened(x)
          BY <2>1, <2>2 DEF Pending, Reopened, Handled, IsHead
        <4> QED
          BY <1>a, <2>1, <4>1, OwedKept
      <3>2. FreshBatch'
        BY <1>a, <2>2 DEF FreshBatch, Inv, TypeOK
      <3> QED
        BY <1>b, <3>1, <3>2
    <2>3. CASE owner[e] # p /\ Done(p, e)
      <3>1. ASSUME NEW x \in Events PROVE Bound(x)'
        <4>1. Pending(x)' \subseteq Pending(x)
          BY <1>a, <2>1, <2>3, DonePending
        <4>2. \A q \in Publishers : (x # e \/ q # p) => (x \in batch'[q] <=> x \in batch[q])
          BY <1>a, <2>1, <2>3, DonePending
        <4>3. Handled(x)' <=> Handled(x)
          BY <2>1, <2>3, <4>2 DEF Handled
        <4>4. Reopened(x)' => Reopened(x)
          BY <2>1, <4>3 DEF Reopened
        <4> QED
          BY <1>a, <2>1, <4>1, <4>4, OwedKept
      <3>2. FreshBatch'
        BY <1>a, <2>3 DEF FreshBatch, Done, Inv, TypeOK
      <3> QED
        BY <1>b, <3>1, <3>2
    <2> QED
      BY <1>6, <2>2, <2>3 DEF MarkRead
  <1>7. ASSUME NEW p \in Publishers, NEW e \in Events, MarkCommit(p, e)
        PROVE  FreshBatch' /\ SendsArePaidFor'
    <2>1. /\ pc[p] = "commit" /\ IsHead(p, e)
          /\ owner' = [owner EXCEPT ![e] = None]
          /\ lease' = [lease EXCEPT ![e] = "none"]
          /\ Done(p, e)
          /\ UNCHANGED <<rank, topic, faults>>
      BY <1>7 DEF MarkCommit
    <2>2. \/ published' = [published EXCEPT ![e] = TRUE]
          \/ outcome[p] = "failed" /\ UNCHANGED published
      BY <1>7 DEF MarkCommit
    <2>3. FreshBatch'
      BY <1>a, <2>1 DEF FreshBatch, Done, Inv, TypeOK
    <2>4. ASSUME NEW x \in Events PROVE Bound(x)'
      <3>1. /\ Pending(x)' = IF x = e THEN Pending(x) \ {p} ELSE Pending(x)
            /\ \A q \in Publishers : x # e => (x \in batch'[q] <=> x \in batch[q])
        BY <1>a, <2>1, DonePending
      <3>2. CASE x # e
        <4>1. owner'[x] = owner[x] /\ lease'[x] = lease[x] /\ published'[x] = published[x]
          BY <1>a, <2>1, <2>2, <3>2 DEF Inv, TypeOK
        <4>2. Reopened(x)' => Reopened(x)
          BY <3>1, <3>2, <4>1 DEF Reopened, Handled
        <4> QED
          BY <1>a, <2>1, <3>1, <3>2, <4>2, OwedKept
      <3>3. CASE x = e /\ published' = [published EXCEPT ![e] = TRUE]
        <4>1. ~Reopened(x)'
          BY <1>a, <3>3 DEF Reopened, Inv, TypeOK
        <4> QED
          BY <1>a, <2>1, <3>1, <3>3, <4>1, OwedKept
      <3>4. CASE x = e /\ outcome[p] = "failed"
        <4>1. p \in Pending(x)
          BY <2>1, <3>4 DEF Pending, IsHead
        <4> QED
          BY <1>a, <2>1, <3>1, <3>4, <4>1, OwedMoved
      <3> QED
        BY <2>2, <3>2, <3>3, <3>4
    <2> QED
      BY <1>b, <2>3, <2>4
  <1>8. ASSUME NEW p \in Publishers, Abort(p) PROVE FreshBatch' /\ SendsArePaidFor'
    <2>1. /\ pc' = [pc EXCEPT ![p] = "idle"]
          /\ batch' = [batch EXCEPT ![p] = {}]
          /\ outcome' = [outcome EXCEPT ![p] = "failed"]
          /\ faults' = faults + 1
          /\ UNCHANGED <<rank, published, owner, lease, next, topic>>
      BY <1>8 DEF Abort, Fault, rowVars
    <2>2. FreshBatch'
      BY <1>a, <2>1 DEF FreshBatch, Inv, TypeOK
    <2>3. ASSUME NEW x \in Events PROVE Bound(x)'
      <3>1. /\ \A q \in Publishers : q # p => batch'[q] = batch[q] /\ outcome'[q] = outcome[q]
            /\ batch'[p] = {}
        BY <1>a, <2>1 DEF Inv, TypeOK
      <3>2. Pending(x)' \subseteq Pending(x)
        BY <2>1, <3>1 DEF Pending, IsHead
      <3> QED
        BY <1>a, <2>1, <3>2, OwedMoved
    <2> QED
      BY <1>b, <2>2, <2>3
  <1>9. CASE UNCHANGED vars
    <2>1. UNCHANGED <<rank, published, owner, lease, pc, batch, outcome, topic, faults>>
      BY <1>9 DEF vars, rowVars
    <2>2. ASSUME NEW x \in Events PROVE Bound(x)'
      <3>1. Pending(x)' = Pending(x) /\ Reopened(x)' = Reopened(x)
        BY <2>1 DEF Pending, Reopened, Handled, IsHead
      <3> QED
        BY <1>a, <2>1, <3>1, OwedKept
    <2> QED
      BY <1>a, <1>b, <2>1, <2>2 DEF FreshBatch
  <1> QED
    BY <1>1, <1>2, <1>3, <1>4, <1>5, <1>6, <1>7, <1>8, <1>9 DEF Next, Step

\* An empty outbox owes each event once.
LEMMA PaidInit == Init => PaidInv
  <1> SUFFICES ASSUME Init PROVE PaidInv
    OBVIOUS
  <1>1. Inv
    BY InvInit
  <1>2. FreshBatch
    BY DEF Init, FreshBatch
  <1>3. ASSUME NEW e \in Events PROVE topic[e] + Owed(e) <= 1 + faults
    <2>1. Pending(e) = {}
      BY DEF Init, Pending
    <2>2. Cardinality(Pending(e)) = 0
      BY <2>1, FS_EmptySet
    <2>3. Owed(e) = 1 \/ Owed(e) = 0
      BY <2>2 DEF Owed
    <2> QED
      BY <2>3 DEF Init
  <1> QED
    BY <1>1, <1>2, <1>3 DEF PaidInv, SendsArePaidFor

\* However publishers overlap, the topic holds no more than one record of an
\* event plus one for each fault: the lease and the token of
\* claim_pending_outbox_events keep a second copy from being sent for free.
THEOREM DuplicatesArePaidFor == Spec => []DuplicatesNeedFaults
  <1>1. PaidInv => DuplicatesNeedFaults
    <2> SUFFICES ASSUME PaidInv, NEW e \in Events PROVE topic[e] <= 1 + faults
      BY DEF DuplicatesNeedFaults
    <2>1. Owed(e) \in Nat
      BY OwedType
    <2>2. topic[e] + Owed(e) <= 1 + faults /\ topic[e] \in Nat /\ faults \in Nat
      BY DEF PaidInv, SendsArePaidFor, Inv, TypeOK
    <2> QED
      BY <2>1, <2>2
  <1>2. Inv /\ PaidInv /\ Inv' /\ [Next]_vars => PaidInv'
    BY PaidStep
  <1> QED
    BY <1>1, <1>2, PaidInit, Invariance, PTL DEF Spec
=============================================================================
