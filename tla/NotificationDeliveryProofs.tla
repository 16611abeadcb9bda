--------------------- MODULE NotificationDeliveryProofs ---------------------
(***************************************************************************)
(* Proofs about NotificationDelivery for any number of messages, channels, *)
(* workers and faults: type correctness, the agreement of the inbox row    *)
(* with its deliveries, the atomicity of dead-lettering, that no row is    *)
(* stranded, that provider calls stay within attempts and faults, and that *)
(* the tables implement DeliveryLifecycle.                                 *)
(***************************************************************************)
EXTENDS NotificationDelivery, FiniteSetTheorems, TLAPS

USE DEF MAX_DELIVERY_ATTEMPTS

-----------------------------------------------------------------------------
\* The next arrival rank is a number: only finitely many messages have rows.
LEMMA ArrivalRank ==
  ASSUME TypeOK
  PROVE  1 + Cardinality({x \in Messages : arrival[x] > 0}) \in Nat
  <1>1. IsFiniteSet({x \in Messages : arrival[x] > 0})
    BY MessagesAssumption, FS_Subset
  <1> QED
    BY <1>1, FS_CardinalityType

\* Every step keeps every variable in its type.
LEMMA TypeStep == TypeOK /\ [Next]_vars => TypeOK'
  <1> SUFFICES ASSUME TypeOK, [Next]_vars PROVE TypeOK'
    OBVIOUS
  <1> USE ChannelAssumption, WorkersAssumption, BoundsAssumption
  <1>1. ASSUME NEW m \in Messages, Publish(m) PROVE TypeOK'
    BY <1>1 DEF Publish, TypeOK, inboxVars, rowVars, loopVars, batchVars
  <1>2. ASSUME NEW m \in Messages, InboxLeaseExpires(m) PROVE TypeOK'
    BY <1>2 DEF InboxLeaseExpires, TypeOK, brokerVars, rowVars, loopVars, batchVars, Lease
  <1>3. ASSUME NEW d \in Deliveries, LeaseExpires(d) PROVE TypeOK'
    BY <1>3 DEF LeaseExpires, TypeOK, brokerVars, inboxVars, loopVars, batchVars, Lease, Fault
  <1>4. ASSUME NEW d \in Deliveries, RetryFallsDue(d) PROVE TypeOK'
    BY <1>4 DEF RetryFallsDue, TypeOK, brokerVars, inboxVars, loopVars, batchVars
  <1>5. ASSUME NEW w \in Workers, Rebalance(w) PROVE TypeOK'
    <2>1. faults' \in 0..MaxFaults
      BY <1>5 DEF Rebalance, Fault, TypeOK
    <2>2. assigned' \in Workers \cup {None} /\ fetch' \in [Workers -> Nat]
      BY <1>5 DEF Rebalance, TypeOK
    <2> QED
      BY <1>5, <2>1, <2>2 DEF Rebalance, TypeOK, inboxVars, rowVars, batchVars
  <1>6. ASSUME NEW w \in Workers, Exit(w), faults' \in 0..MaxFaults PROVE TypeOK'
    BY <1>6 DEF Exit, TypeOK, inboxVars, rowVars, Control, Outcome, InboxStatus
  <1>7. ASSUME NEW w \in Workers, Crash(w) PROVE TypeOK'
    <2>1. faults' \in 0..MaxFaults
      BY <1>7 DEF Crash, Fault, TypeOK
    <2>2. Exit(w)
      BY <1>7 DEF Crash
    <2> QED
      BY <2>1, <2>2, <1>6
  <1>8. ASSUME NEW w \in Workers, Restart(w) PROVE TypeOK'
    BY <1>8 DEF Restart, TypeOK, brokerVars, inboxVars, rowVars, loopVars, batchVars, Control
  <1>9. ASSUME NEW w \in Workers, Step(w) PROVE TypeOK'
    <2>1. CASE Poll(w)
      <3>1. cur \in [Workers -> Nat] /\ last \in [Workers -> Nat] /\ fetch \in [Workers -> Nat]
        BY DEF TypeOK
      <3>2. PICK n \in 0..MaxRecords :
              /\ cur' = [cur EXCEPT ![w] = fetch[w]]
              /\ last' = [last EXCEPT ![w] = fetch[w] + n]
              /\ fetch' = [fetch EXCEPT ![w] = fetch[w] + n]
              /\ pc' = [pc EXCEPT ![w] = IF n > 0 THEN "accept" ELSE "claim"]
        BY <2>1 DEF Poll
      <3>3. /\ cur' \in [Workers -> Nat] /\ last' \in [Workers -> Nat]
            /\ fetch' \in [Workers -> Nat]
        BY <3>1, <3>2
      <3>4. pc' \in [Workers -> Control]
        BY <3>2 DEF TypeOK, Control
      <3>5. UNCHANGED <<brokerVars, inboxVars, rowVars, batchVars, calls, faults>>
        BY <2>1 DEF Poll
      <3> QED
        BY <3>3, <3>4, <3>5 DEF TypeOK, brokerVars, inboxVars, rowVars, batchVars
    <2>2. CASE RejectPoison(w)
      BY <2>2, <1>6 DEF RejectPoison, TypeOK
    <2>3. CASE ClaimNotificationRequest(w)
      BY <2>3 DEF ClaimNotificationRequest, TypeOK, brokerVars, inboxVars, rowVars,
                  loopVars, batchVars, Control, Lease, InboxStatus
    <2>4. CASE AddChannelDeliveries(w)
      BY <2>4, ArrivalRank DEF AddChannelDeliveries, TypeOK, brokerVars, inboxVars,
                  loopVars, batchVars, Control, DeliveryStatus
    <2>5. CASE ClaimDueDeliveries(w)
      <3> DEFINE rows == FirstRows(Claimable, IF cur[w] < last[w] THEN 1 ELSE MaxRecords)
      <3>1. rows \subseteq Deliveries
        BY DEF FirstRows, Claimable
      <3>2. \A d \in rows : status[d] # "processing" => attempts[d] < 3
        BY DEF FirstRows, Claimable, DueUnclaimedWork, AbandonedWork
      <3> HIDE DEF rows
      <3>3. /\ status' = [d \in Deliveries |-> IF d \in rows THEN "processing" ELSE status[d]]
            /\ attempts' = [d \in Deliveries |->
                              IF d \in rows /\ status[d] # "processing"
                              THEN attempts[d] + 1 ELSE attempts[d]]
            /\ owner' = [d \in Deliveries |-> IF d \in rows THEN w ELSE owner[d]]
            /\ lease' = [d \in Deliveries |-> IF d \in rows THEN "live" ELSE lease[d]]
            /\ next' = [d \in Deliveries |-> IF d \in rows THEN "none" ELSE next[d]]
            /\ SetBatch(w, rows)
        BY <2>5 DEF ClaimDueDeliveries, rows
      <3>4. attempts' \in [Deliveries -> 0..MAX_DELIVERY_ATTEMPTS]
        BY <3>2, <3>3 DEF TypeOK
      <3> QED
        BY <2>5, <3>1, <3>3, <3>4 DEF ClaimDueDeliveries, SetBatch, TypeOK, brokerVars, inboxVars,
           loopVars, Control, Lease, Outcome, InboxStatus, DeliveryStatus
    <2>6. CASE Deliver(w)
      <3>1. calls' \in [Deliveries -> 0..MaxCalls]
        <4>1. PICK d \in batch[w] :
                calls' = [calls EXCEPT ![d] = IF @ < MaxCalls THEN @ + 1 ELSE @]
          BY <2>6 DEF Deliver
        <4>2. d \in Deliveries
          BY DEF TypeOK
        <4> QED
          BY <4>1, <4>2 DEF TypeOK
      <3>2. outcome' \in [Workers -> Outcome]
        BY <2>6 DEF Deliver, TypeOK
      <3> QED
        BY <2>6, <3>1, <3>2 DEF Deliver, TypeOK, brokerVars, inboxVars, rowVars, loopVars, Control
    <2>7. ASSUME NEW d \in Deliveries, ClaimConflict(w, d) PROVE TypeOK'
      BY <2>7 DEF ClaimConflict, SetBatch, TypeOK, brokerVars, inboxVars, rowVars, loopVars,
                  Control, Outcome, InboxStatus
    <2>8. ASSUME NEW d \in Deliveries, ScheduleDeliveryRetry(w, d) PROVE TypeOK'
      BY <2>8 DEF ScheduleDeliveryRetry, SetBatch, TypeOK, brokerVars, inboxVars, loopVars,
                  Control, Outcome, InboxStatus, DeliveryStatus, Lease
    <2>9. ASSUME NEW d \in Deliveries, OpenSettlement(w, d) PROVE TypeOK'
      <3>1. RefreshInboxStatus(d, Settled(w)) \in InboxStatus
        BY DEF RefreshInboxStatus, InboxStatus, InboxTerminal
      <3> QED
        BY <2>9, <3>1 DEF OpenSettlement, TypeOK, brokerVars, inboxVars, rowVars, loopVars, Control
    <2>10. ASSUME NEW d \in Deliveries, CommitSettlement(w, d) PROVE TypeOK'
      <3>1. inbox' \in [Messages -> InboxStatus] /\ inboxLease' \in [Messages -> Lease]
        <4>1. CASE verdict[w] = "processing"
          BY <2>10, <4>1 DEF CommitSettlement, WriteInbox, inboxVars, TypeOK
        <4>2. CASE verdict[w] # "processing"
          <5>1. /\ inbox' = [inbox EXCEPT ![d[1]] = verdict[w]]
                /\ inboxLease' = [inboxLease EXCEPT ![d[1]] = "none"]
            BY <2>10, <4>2 DEF CommitSettlement, WriteInbox
          <5>2. verdict[w] \in InboxStatus
            BY DEF TypeOK
          <5> QED
            BY <5>1, <5>2 DEF TypeOK, Lease
        <4> QED
          BY <4>1, <4>2
      <3> QED
        BY <2>10, <3>1 DEF CommitSettlement, Settled, SetBatch, TypeOK, brokerVars, loopVars,
                    Control, Outcome, InboxStatus, DeliveryStatus, DeliveryTerminal, Lease
    <2>11. CASE CommitOffset(w)
      <3>1. CASE assigned = w
        <4>1. /\ committed' = cur[w] + 1
              /\ cur' = [cur EXCEPT ![w] = @ + 1]
              /\ pc' = [pc EXCEPT ![w] = IF cur[w] + 1 < last[w] THEN "accept" ELSE "claim"]
              /\ UNCHANGED <<log, assigned, inboxVars, rowVars, last, fetch, batchVars,
                             calls, faults>>
          BY <2>11, <3>1 DEF CommitOffset
        <4>2. committed' \in Nat /\ cur' \in [Workers -> Nat]
          BY <4>1 DEF TypeOK
        <4>3. pc' \in [Workers -> Control]
          BY <4>1 DEF TypeOK, Control
        <4> QED
          BY <4>1, <4>2, <4>3 DEF TypeOK, inboxVars, rowVars, batchVars
      <3>2. CASE assigned # w
        BY <2>11, <3>2, <1>6 DEF CommitOffset, TypeOK
      <3> QED
        BY <3>1, <3>2
    <2> QED
      BY <1>9, <2>1, <2>2, <2>3, <2>4, <2>5, <2>6, <2>7, <2>8, <2>9, <2>10, <2>11 DEF Step
  <1>10. CASE UNCHANGED vars
    BY <1>10 DEF vars, TypeOK, brokerVars, inboxVars, rowVars, loopVars, batchVars
  <1> QED
    BY <1>1, <1>2, <1>3, <1>4, <1>5, <1>7, <1>8, <1>9, <1>10 DEF Next

\* A specification step starts and stays in the types.
THEOREM TypeCorrect == Spec => []TypeOK
  <1>1. Init => TypeOK
    BY ChannelAssumption, BoundsAssumption
    DEF Init, TypeOK, InboxStatus, Lease, DeliveryStatus, Control, Outcome
  <1> QED
    BY <1>1, TypeStep, PTL DEF Spec

-----------------------------------------------------------------------------
(* The inductive invariant *)

\* The rows of a request are inserted by one transaction, which gives the request
\* its place in the primary-key order.
RowsTogether ==
  \A d, e \in Deliveries :
    d[1] = e[1] =>
      /\ status[d] = "absent" <=> status[e] = "absent"
      /\ status[d] # "absent" => arrival[d[1]] # 0

\* A row that is not inserted yet has the column defaults.
Defaults ==
  \A d \in Deliveries :
    status[d] = "absent" => attempts[d] = 0 /\ owner[d] = None /\ lease[d] = "none"

\* A batch holds existing rows.
BatchRowsExist == \A w \in Workers : \A d \in batch[w] : status[d] # "absent"

\* What an open settlement will write to the inbox is right for the rows as they
\* will be after its commit: the siblings it saw settled stay settled.
VerdictSound(w, d) ==
  verdict[w] \in InboxTerminal =>
    Reflects(verdict[w], [status EXCEPT ![d] = Settled(w)], d[1])

\* A settlement keeps, under its row lock, the claim it found when it opened.
LockInv ==
  \A w \in Workers, d \in Deliveries :
    pc[w] = "commit" /\ IsHead(w, d) =>
      GetClaimedDelivery(w, d) /\ VerdictSound(w, d)

VerdictType == \A w \in Workers : verdict[w] # "absent"

Inv ==
  /\ TypeOK
  /\ NoStrandedRow
  /\ DeadLetterHasOutbox
  /\ RowsTogether
  /\ Defaults
  /\ BatchRowsExist
  /\ LockInv
  /\ VerdictType
  /\ InboxAggregatesDeliveries

\* The inductive invariant holds before the first message.
LEMMA InvInit == Init => Inv
  <1> SUFFICES ASSUME Init PROVE Inv
    OBVIOUS
  <1>1. TypeOK
    BY ChannelAssumption, BoundsAssumption
    DEF Init, TypeOK, InboxStatus, Lease, DeliveryStatus, Control, Outcome
  <1>2. NoStrandedRow /\ DeadLetterHasOutbox /\ RowsTogether /\ Defaults
    BY DEF Init, NoStrandedRow, DeadLetterHasOutbox, RowsTogether, Defaults, Deliveries
  <1>3. BatchRowsExist /\ LockInv /\ VerdictType
    BY DEF Init, BatchRowsExist, LockInv, VerdictType
  <1>4. InboxAggregatesDeliveries
    BY DEF Init, InboxAggregatesDeliveries, InboxTerminal
  <1> QED
    BY <1>1, <1>2, <1>3, <1>4 DEF Inv

\* The batch has one head: primary keys are ordered.
LEMMA HeadUnique ==
  ASSUME TypeOK, NEW w \in Workers, NEW d \in Deliveries, NEW e \in Deliveries,
         IsHead(w, d), IsHead(w, e)
  PROVE  d = e
  <1>1. Before(d, e) /\ Before(e, d)
    BY DEF IsHead
  <1>2. /\ d[1] \in Messages /\ e[1] \in Messages
        /\ d[2] \in Nat /\ e[2] \in Nat
        /\ d = <<d[1], d[2]>> /\ e = <<e[1], e[2]>>
    BY ChannelAssumption DEF Deliveries, Channels
  <1>3. arrival[d[1]] \in Nat /\ arrival[e[1]] \in Nat
    BY <1>2 DEF TypeOK
  <1>4. d[1] = e[1] /\ d[2] = e[2]
    BY <1>1, <1>2, <1>3 DEF Before
  <1> QED
    BY <1>2, <1>4

\* Steps that leave the rows alone, or only let a lease run out or a retry fall
\* due, that reopen an inbox row at most, and after which every worker is where
\* it was or outside a settlement with a smaller batch.
QuietWorker(w) ==
  \/ pc'[w] = pc[w] /\ batch'[w] = batch[w] /\ verdict'[w] = verdict[w] /\ outcome'[w] = outcome[w]
  \/ /\ pc'[w] # "commit"
     /\ batch'[w] \subseteq batch[w]
     /\ verdict'[w] = verdict[w] \/ verdict'[w] = "processing"

QuietStep ==
  /\ UNCHANGED <<status, attempts, owner, arrival, dlq>>
  /\ \A d \in Deliveries : /\ lease'[d] = "none" <=> lease[d] = "none"
                           /\ next'[d] = "none" <=> next[d] = "none"
  /\ \A m \in Messages : inbox'[m] = inbox[m] \/ inbox'[m] = "processing"
  /\ \A w \in Workers : QuietWorker(w)

\* A step that leaves rows, inbox and open settlements alone keeps the invariant.
LEMMA QuietPreserves ==
  ASSUME Inv, TypeOK', QuietStep
  PROVE  Inv'
  <1> USE DEF QuietStep
  <1>1. NoStrandedRow'
    BY DEF Inv, NoStrandedRow
  <1>2. DeadLetterHasOutbox' /\ RowsTogether' /\ Defaults'
    BY DEF Inv, DeadLetterHasOutbox, RowsTogether, Defaults
  <1>3. BatchRowsExist'
    BY DEF Inv, BatchRowsExist, QuietWorker
  <1>4. VerdictType'
    BY DEF Inv, VerdictType, QuietWorker
  <1>5. LockInv'
    <2> SUFFICES ASSUME NEW w \in Workers, NEW d \in Deliveries, pc'[w] = "commit", IsHead(w, d)'
                 PROVE  GetClaimedDelivery(w, d)' /\ VerdictSound(w, d)'
      BY DEF LockInv
    <2>1. pc'[w] = pc[w] /\ batch'[w] = batch[w] /\ verdict'[w] = verdict[w] /\ outcome'[w] = outcome[w]
      BY DEF QuietWorker
    <2>2. IsHead(w, d)
      BY <2>1 DEF IsHead, Before
    <2>3. GetClaimedDelivery(w, d) /\ VerdictSound(w, d)
      BY <2>1, <2>2 DEF Inv, LockInv
    <2> QED
      BY <2>1, <2>3 DEF GetClaimedDelivery, VerdictSound, Settled
  <1>6. InboxAggregatesDeliveries'
    BY DEF Inv, InboxAggregatesDeliveries, InboxTerminal
  <1> QED
    BY <1>1, <1>2, <1>3, <1>4, <1>5, <1>6 DEF Inv

\* The aggregate computed by _refresh_inbox_status describes the rows as they
\* are after the settling transaction.
LEMMA RefreshSound ==
  ASSUME TypeOK, RowsTogether, NEW d \in Deliveries, status[d] = "processing",
         NEW new \in DeliveryTerminal, RefreshInboxStatus(d, new) \in InboxTerminal
  PROVE  Reflects(RefreshInboxStatus(d, new), [status EXCEPT ![d] = new], d[1])
  <1> DEFINE f == [status EXCEPT ![d] = new]
             S == {IF e = d THEN new ELSE status[e] :
                     e \in {x \in Deliveries : x[1] = d[1] /\ status[x] # "absent"}}
             v == RefreshInboxStatus(d, new)
  <1>1. \A e \in Siblings(d[1]) : e \in Deliveries /\ e[1] = d[1] /\ status[e] # "absent"
    BY DEF Siblings, RowsTogether
  <1>2. \A e \in Siblings(d[1]) : f[e] \in S
    BY <1>1 DEF TypeOK
  <1>3. \A s \in S : \E e \in Siblings(d[1]) : f[e] = s
    BY DEF Siblings, TypeOK
  <1>4. v = IF ~ (S \subseteq DeliveryTerminal) THEN "processing"
            ELSE IF S = {"delivered"} THEN "completed"
            ELSE IF S = {"dead_letter"} THEN "dead_letter"
            ELSE "completed_with_dead_letters"
    BY DEF RefreshInboxStatus
  <1> HIDE DEF f, S, v
  <1>5. S \subseteq DeliveryTerminal
    BY <1>4 DEF InboxTerminal, v
  <1>6. \A e \in Siblings(d[1]) : f[e] \in DeliveryTerminal
    BY <1>2, <1>5
  <1>7. v = "completed" => \A e \in Siblings(d[1]) : f[e] = "delivered"
    BY <1>2, <1>4, <1>5
  <1>8. v = "dead_letter" => \A e \in Siblings(d[1]) : f[e] = "dead_letter"
    BY <1>2, <1>4, <1>5
  <1>9. ASSUME v = "completed_with_dead_letters"
        PROVE  \E e, g \in Siblings(d[1]) : f[e] = "delivered" /\ f[g] = "dead_letter"
    <2>1. S # {"delivered"} /\ S # {"dead_letter"}
      BY <1>4, <1>5, <1>9
    <2>2. S # {}
      <3>1. d \in Siblings(d[1])
        BY DEF Siblings
      <3> QED
        BY <1>2, <3>1
    <2>3. "delivered" \in S /\ "dead_letter" \in S
      BY <1>5, <2>1, <2>2 DEF DeliveryTerminal
    <2> QED
      BY <1>3, <2>3
  <1> QED
    BY <1>6, <1>7, <1>8, <1>9 DEF Reflects, f, v

\* The rest of a settlement's invariant when some other row e changes: the locked
\* row keeps its claim, and siblings already settled are not e.
LEMMA OthersUndisturbed ==
  ASSUME Inv, NEW w \in Workers, NEW d \in Deliveries,
         pc[w] = "commit", IsHead(w, d),
         status' \in [Deliveries -> DeliveryStatus],
         status'[d] = status[d], owner'[d] = owner[d],
         \A e \in Deliveries : status[e] \in DeliveryTerminal => status'[e] = status[e],
         verdict'[w] = verdict[w], outcome'[w] = outcome[w]
  PROVE  GetClaimedDelivery(w, d)' /\ VerdictSound(w, d)'
  <1>1. GetClaimedDelivery(w, d) /\ VerdictSound(w, d)
    BY DEF Inv, LockInv
  <1>2. GetClaimedDelivery(w, d)'
    BY <1>1 DEF GetClaimedDelivery
  <1>3. ASSUME verdict[w] \in InboxTerminal
        PROVE  Reflects(verdict[w], [status' EXCEPT ![d] = Settled(w)], d[1])
    <2> DEFINE f == [status EXCEPT ![d] = Settled(w)]
               g == [status' EXCEPT ![d] = Settled(w)]
    <2>1. Reflects(verdict[w], f, d[1])
      BY <1>1, <1>3 DEF VerdictSound
    <2>2. \A e \in Siblings(d[1]) : e \in Deliveries /\ f[e] \in DeliveryTerminal
      BY <2>1 DEF Reflects, Siblings
    <2>3. \A e \in Siblings(d[1]) : g[e] = f[e]
      BY <2>2 DEF Inv, TypeOK
    <2> HIDE DEF f, g
    <2>4. Reflects(verdict[w], g, d[1])
      BY <2>1, <2>3 DEF Reflects
    <2> QED
      BY <2>4 DEF g
  <1> QED
    BY <1>2, <1>3 DEF VerdictSound, Settled

\* Rows that are not settled may change without disturbing any aggregate.
LEMMA AggregatesUndisturbed ==
  ASSUME Inv, UNCHANGED inbox,
         \A e \in Deliveries : status[e] \in DeliveryTerminal => status'[e] = status[e]
  PROVE  InboxAggregatesDeliveries'
  <1> SUFFICES ASSUME NEW m \in Messages, inbox[m] \in InboxTerminal
               PROVE  Reflects(inbox[m], status', m)
    BY DEF InboxAggregatesDeliveries
  <1>1. Reflects(inbox[m], status, m)
    BY DEF Inv, InboxAggregatesDeliveries
  <1>2. \A e \in Siblings(m) : status'[e] = status[e]
    BY <1>1 DEF Reflects, Siblings
  <1> QED
    BY <1>1, <1>2 DEF Reflects

\* Inserting the channel rows of a claimed request keeps the invariant.
LEMMA AddChannelDeliveriesInv ==
  ASSUME Inv, TypeOK', NEW w \in Workers, AddChannelDeliveries(w)
  PROVE  Inv'
  <1> DEFINE m == Record(w)
  <1>1. /\ status' = [d \in Deliveries |->
                        IF d[1] = m /\ status[d] = "absent" THEN "pending" ELSE status[d]]
        /\ pc' = [pc EXCEPT ![w] = "claim"]
        /\ UNCHANGED <<inbox, attempts, owner, lease, next, dlq, batch, outcome, verdict>>
    BY DEF AddChannelDeliveries, inboxVars, batchVars
  <1>2. arrival' = [arrival EXCEPT ![m] = IF @ = 0
                      THEN 1 + Cardinality({x \in Messages : arrival[x] > 0}) ELSE @]
    BY DEF AddChannelDeliveries
  <1> HIDE DEF m
  <1>3. Cardinality({x \in Messages : arrival[x] > 0}) \in Nat
    BY MessagesAssumption, FS_Subset, FS_CardinalityType
  <1>4. \A d \in Deliveries : status[d] \in DeliveryTerminal => status'[d] = status[d]
    BY <1>1 DEF DeliveryTerminal
  <1>5. \A d \in Deliveries : d[1] \in Messages
    BY DEF Deliveries
  <1>6. \A d \in Deliveries : status[d] # "absent" => arrival'[d[1]] = arrival[d[1]]
    BY <1>2, <1>5 DEF Inv, RowsTogether, TypeOK
  <1>7. NoStrandedRow'
    BY <1>1 DEF Inv, NoStrandedRow, Defaults
  <1>8. DeadLetterHasOutbox' /\ Defaults'
    BY <1>1 DEF Inv, DeadLetterHasOutbox, Defaults
  <1>9. RowsTogether'
    <2> SUFFICES ASSUME NEW d \in Deliveries, NEW e \in Deliveries, d[1] = e[1]
                 PROVE  /\ status'[d] = "absent" <=> status'[e] = "absent"
                        /\ status'[d] # "absent" => arrival'[d[1]] # 0
      BY DEF RowsTogether
    <2>1. status[d] = "absent" <=> status[e] = "absent"
      BY DEF Inv, RowsTogether
    <2>2. status'[d] = "absent" <=> status'[e] = "absent"
      BY <1>1, <2>1
    <2>3. CASE d[1] = m
      <3>1. m \in Messages /\ arrival[m] \in Nat
        BY <1>5, <2>3 DEF Inv, TypeOK
      <3>2. arrival'[m] = IF arrival[m] = 0
              THEN 1 + Cardinality({x \in Messages : arrival[x] > 0}) ELSE arrival[m]
        BY <1>2, <3>1 DEF Inv, TypeOK
      <3>3. arrival'[m] # 0
        BY <1>3, <3>1, <3>2
      <3> QED
        BY <2>3, <2>2, <3>3
    <2>4. CASE d[1] # m
      BY <1>1, <1>2, <1>5, <2>2, <2>4 DEF Inv, RowsTogether, TypeOK
    <2> QED
      BY <2>2, <2>3, <2>4
  <1>10. BatchRowsExist' /\ VerdictType'
    BY <1>1 DEF Inv, BatchRowsExist, VerdictType, TypeOK
  <1>11. LockInv'
    <2> SUFFICES ASSUME NEW v \in Workers, NEW d \in Deliveries, pc'[v] = "commit", IsHead(v, d)'
                 PROVE  GetClaimedDelivery(v, d)' /\ VerdictSound(v, d)'
      BY DEF LockInv
    <2>1. pc[v] = "commit"
      BY <1>1 DEF Inv, TypeOK
    <2>2. d \in batch[v] /\ \A e \in batch[v] : e \in Deliveries /\ status[e] # "absent" /\ Before(d, e)'
      BY <1>1 DEF Inv, BatchRowsExist, TypeOK, IsHead
    <2>3. IsHead(v, d)
      BY <1>6, <2>2 DEF IsHead, Before
    <2>4. status'[d] = status[d]
      BY <1>1, <2>2
    <2> QED
      BY <1>1, <1>4, <2>1, <2>3, <2>4, OthersUndisturbed DEF TypeOK
  <1>12. InboxAggregatesDeliveries'
    BY <1>1, <1>4, AggregatesUndisturbed
  <1> QED
    BY <1>7, <1>8, <1>9, <1>10, <1>11, <1>12 DEF Inv

\* Claiming a batch, abandoned rows included, keeps the invariant.
LEMMA ClaimDueDeliveriesInv ==
  ASSUME Inv, TypeOK', NEW w \in Workers, ClaimDueDeliveries(w)
  PROVE  Inv'
  <1> DEFINE rows == FirstRows(Claimable, IF cur[w] < last[w] THEN 1 ELSE MaxRecords)
  <1>1. \A d \in rows : d \in Deliveries /\ ~Locked(d) /\ (DueUnclaimedWork(d) \/ AbandonedWork(d))
    BY DEF FirstRows, Claimable
  <1>2. /\ pc[w] = "claim"
        /\ status' = [d \in Deliveries |-> IF d \in rows THEN "processing" ELSE status[d]]
        /\ attempts' = [d \in Deliveries |->
                          IF d \in rows /\ status[d] # "processing"
                          THEN attempts[d] + 1 ELSE attempts[d]]
        /\ owner' = [d \in Deliveries |-> IF d \in rows THEN w ELSE owner[d]]
        /\ lease' = [d \in Deliveries |-> IF d \in rows THEN "live" ELSE lease[d]]
        /\ next' = [d \in Deliveries |-> IF d \in rows THEN "none" ELSE next[d]]
        /\ batch' = [batch EXCEPT ![w] = rows]
        /\ outcome' = [outcome EXCEPT ![w] = "ok"]
        /\ verdict' = [verdict EXCEPT ![w] = "processing"]
        /\ UNCHANGED <<inbox, arrival, dlq>>
    BY DEF ClaimDueDeliveries, SetBatch, inboxVars
  <1>3. pc' = [pc EXCEPT ![w] = IF rows # {} THEN "deliver"
                                ELSE IF cur[w] < last[w] THEN "offset" ELSE "poll"]
    BY DEF ClaimDueDeliveries, SetBatch
  <1> HIDE DEF rows
  <1>4. pc'[w] # "commit" /\ \A v \in Workers : v # w => pc'[v] = pc[v]
    BY <1>3 DEF Inv, TypeOK
  <1>5. \A d \in rows : status[d] \in {"pending", "retry_scheduled", "processing"}
    BY <1>1 DEF DueUnclaimedWork, AbandonedWork
  <1>6. \A d \in Deliveries : status[d] \in DeliveryTerminal => status'[d] = status[d]
    BY <1>2, <1>5 DEF DeliveryTerminal
  <1>7. NoStrandedRow'
    <2> SUFFICES ASSUME NEW d \in Deliveries
                 PROVE /\ status'[d] \in {"pending", "retry_scheduled"} =>
                            attempts'[d] < MAX_DELIVERY_ATTEMPTS /\ owner'[d] = None /\ lease'[d] = "none"
                       /\ status'[d] = "retry_scheduled" => next'[d] # "none"
                       /\ status'[d] = "processing" =>
                            attempts'[d] > 0 /\ owner'[d] # None /\ lease'[d] # "none"
      BY DEF NoStrandedRow
    <2>1. CASE d \in rows
      <3>1. status'[d] = "processing" /\ owner'[d] = w /\ lease'[d] = "live"
        BY <1>2, <2>1
      <3>2. w # None
        BY WorkersAssumption
      <3>3. attempts[d] \in Nat /\ (status[d] = "processing" => attempts[d] > 0)
        <4>1. NoStrandedRow /\ attempts \in [Deliveries -> 0..3]
          BY DEF Inv, TypeOK
        <4> QED
          BY <4>1 DEF NoStrandedRow
      <3>4. attempts'[d] = IF status[d] # "processing" THEN attempts[d] + 1 ELSE attempts[d]
        BY <1>2, <2>1
      <3>5. attempts'[d] > 0
        BY <3>3, <3>4
      <3> QED
        BY <3>1, <3>2, <3>5
    <2>2. CASE d \notin rows
      BY <1>2, <2>2 DEF Inv, NoStrandedRow
    <2> QED
      BY <2>1, <2>2
  <1>8. DeadLetterHasOutbox'
    BY <1>2, <1>5 DEF Inv, DeadLetterHasOutbox
  <1>9. RowsTogether' /\ Defaults'
    BY <1>2, <1>5 DEF Inv, RowsTogether, Defaults
  <1>10. BatchRowsExist' /\ VerdictType'
    <2>1. /\ batch \in [Workers -> SUBSET Deliveries] /\ verdict \in [Workers -> InboxStatus]
          /\ status \in [Deliveries -> DeliveryStatus]
      BY DEF Inv, TypeOK
    <2>2. BatchRowsExist'
      BY <1>1, <1>2, <1>5, <2>1 DEF Inv, BatchRowsExist
    <2>3. VerdictType'
      BY <1>2, <2>1 DEF Inv, VerdictType
    <2> QED
      BY <2>2, <2>3
  <1>11. LockInv'
    <2> SUFFICES ASSUME NEW v \in Workers, NEW d \in Deliveries, pc'[v] = "commit", IsHead(v, d)'
                 PROVE  GetClaimedDelivery(v, d)' /\ VerdictSound(v, d)'
      BY DEF LockInv
    <2>1. v # w /\ pc[v] = "commit"
      BY <1>4
    <2>2. batch'[v] = batch[v] /\ verdict'[v] = verdict[v] /\ outcome'[v] = outcome[v]
      BY <1>2, <2>1 DEF Inv, TypeOK
    <2>3. IsHead(v, d)
      BY <1>2, <2>2 DEF IsHead, Before
    <2>4. d \notin rows
      BY <1>1, <2>1, <2>3 DEF Locked
    <2>5. status'[d] = status[d] /\ owner'[d] = owner[d]
      BY <1>2, <2>4
    <2> QED
      BY <1>6, <2>1, <2>2, <2>3, <2>5, OthersUndisturbed DEF TypeOK
  <1>12. InboxAggregatesDeliveries'
    BY <1>2, <1>6, AggregatesUndisturbed
  <1> QED
    BY <1>7, <1>8, <1>9, <1>10, <1>11, <1>12 DEF Inv

\* ScheduleDeliveryRetry and CommitSettlement change one row, the one their worker
\* holds; every other settlement is about another row.
LEMMA OtherLocksKept ==
  ASSUME Inv, TypeOK', NEW w \in Workers, NEW d \in Deliveries, GetClaimedDelivery(w, d),
         \A e \in Deliveries : e # d => status'[e] = status[e] /\ owner'[e] = owner[e],
         UNCHANGED arrival, pc'[w] # "commit",
         \A v \in Workers : v # w => /\ pc'[v] = pc[v] /\ batch'[v] = batch[v]
                                     /\ verdict'[v] = verdict[v] /\ outcome'[v] = outcome[v]
  PROVE  LockInv'
  <1> SUFFICES ASSUME NEW v \in Workers, NEW e \in Deliveries, pc'[v] = "commit", IsHead(v, e)'
               PROVE  GetClaimedDelivery(v, e)' /\ VerdictSound(v, e)'
    BY DEF LockInv
  <1>1. v # w /\ pc[v] = "commit" /\ batch'[v] = batch[v]
    OBVIOUS
  <1>2. IsHead(v, e)
    BY <1>1 DEF IsHead, Before
  <1>3. e # d
    BY <1>1, <1>2 DEF Inv, LockInv, GetClaimedDelivery
  <1>4. \A x \in Deliveries : status[x] \in DeliveryTerminal => status'[x] = status[x]
    BY DEF GetClaimedDelivery, DeliveryTerminal
  <1> QED
    BY <1>1, <1>2, <1>3, <1>4, OthersUndisturbed DEF TypeOK

\* Scheduling a retry under the claim token keeps the invariant.
LEMMA ScheduleDeliveryRetryInv ==
  ASSUME Inv, TypeOK', NEW w \in Workers, NEW d \in Deliveries, ScheduleDeliveryRetry(w, d)
  PROVE  Inv'
  <1>1. /\ GetClaimedDelivery(w, d) /\ attempts[d] < MAX_DELIVERY_ATTEMPTS
        /\ status' = [status EXCEPT ![d] = "retry_scheduled"]
        /\ next' = [next EXCEPT ![d] = "later"]
        /\ owner' = [owner EXCEPT ![d] = None]
        /\ lease' = [lease EXCEPT ![d] = "none"]
        /\ batch' = [batch EXCEPT ![w] = batch[w] \ {d}]
        /\ outcome' = [outcome EXCEPT ![w] = "ok"]
        /\ verdict' = [verdict EXCEPT ![w] = "processing"]
        /\ UNCHANGED <<inbox, attempts, arrival, dlq>>
    BY DEF ScheduleDeliveryRetry, Retries, SetBatch, inboxVars
  <1>2. pc'[w] # "commit" /\ \A v \in Workers : v # w => pc'[v] = pc[v]
    BY DEF ScheduleDeliveryRetry, SetBatch, Inv, TypeOK
  <1>3. status[d] = "processing"
    BY <1>1 DEF GetClaimedDelivery
  <1>4. NoStrandedRow' /\ Defaults'
    BY <1>1 DEF Inv, NoStrandedRow, Defaults, TypeOK
  <1>5. DeadLetterHasOutbox' /\ RowsTogether'
    <2>1. status \in [Deliveries -> DeliveryStatus]
      BY DEF Inv, TypeOK
    <2>2. DeadLetterHasOutbox'
      BY <1>1, <1>3, <2>1 DEF Inv, DeadLetterHasOutbox
    <2>3. RowsTogether'
      <3> USE <1>1, <1>3, <2>1
      <3>1. \A e \in Deliveries : status'[e] = "absent" <=> status[e] = "absent"
        OBVIOUS
      <3> QED
        BY <3>1 DEF Inv, RowsTogether
    <2> QED
      BY <2>2, <2>3
  <1>6. BatchRowsExist' /\ VerdictType'
    <2>1. /\ batch \in [Workers -> SUBSET Deliveries] /\ verdict \in [Workers -> InboxStatus]
          /\ status \in [Deliveries -> DeliveryStatus]
      BY DEF Inv, TypeOK
    <2>2. BatchRowsExist'
      BY <1>1, <2>1 DEF Inv, BatchRowsExist
    <2>3. VerdictType'
      BY <1>1, <2>1 DEF Inv, VerdictType
    <2> QED
      BY <2>2, <2>3
  <1>7. LockInv'
    <2>1. \A e \in Deliveries : e # d => status'[e] = status[e] /\ owner'[e] = owner[e]
      BY <1>1 DEF Inv, TypeOK
    <2>2. \A v \in Workers : v # w => /\ batch'[v] = batch[v] /\ verdict'[v] = verdict[v]
                                      /\ outcome'[v] = outcome[v]
      BY <1>1 DEF Inv, TypeOK
    <2> QED
      BY <1>1, <1>2, <2>1, <2>2, OtherLocksKept
  <1>8. InboxAggregatesDeliveries'
    <2>1. \A e \in Deliveries : status[e] \in DeliveryTerminal => status'[e] = status[e]
      BY <1>1, <1>3 DEF Inv, TypeOK, DeliveryTerminal
    <2> QED
      BY <1>1, <2>1, AggregatesUndisturbed
  <1> QED
    BY <1>4, <1>5, <1>6, <1>7, <1>8 DEF Inv

\* Locking a claimed row and reading its siblings keeps the invariant.
LEMMA OpenSettlementInv ==
  ASSUME Inv, TypeOK', NEW w \in Workers, NEW d \in Deliveries, OpenSettlement(w, d)
  PROVE  Inv'
  <1>1. /\ IsHead(w, d) /\ GetClaimedDelivery(w, d)
        /\ verdict' = [verdict EXCEPT ![w] = RefreshInboxStatus(d, Settled(w))]
        /\ pc' = [pc EXCEPT ![w] = "commit"]
        /\ UNCHANGED <<inbox, status, attempts, owner, lease, next, arrival, dlq, batch, outcome>>
    BY DEF OpenSettlement, inboxVars, rowVars
  <1>2. NoStrandedRow' /\ Defaults' /\ DeadLetterHasOutbox' /\ RowsTogether' /\ BatchRowsExist'
    BY <1>1 DEF Inv, NoStrandedRow, Defaults, DeadLetterHasOutbox, RowsTogether, BatchRowsExist
  <1>3. VerdictType'
    <2>1. RefreshInboxStatus(d, Settled(w)) # "absent"
      BY DEF RefreshInboxStatus
    <2> QED
      BY <1>1, <2>1 DEF Inv, VerdictType, TypeOK
  <1>4. InboxAggregatesDeliveries'
    BY <1>1 DEF Inv, InboxAggregatesDeliveries
  <1>5. LockInv'
    <2> SUFFICES ASSUME NEW v \in Workers, NEW e \in Deliveries, pc'[v] = "commit", IsHead(v, e)'
                 PROVE  GetClaimedDelivery(v, e)' /\ VerdictSound(v, e)'
      BY DEF LockInv
    <2>1. IsHead(v, e)
      BY <1>1 DEF IsHead, Before
    <2>2. CASE v # w
      <3>1. pc[v] = "commit" /\ verdict'[v] = verdict[v]
        BY <1>1, <2>2 DEF Inv, TypeOK
      <3> QED
        BY <1>1, <2>1, <3>1, OthersUndisturbed DEF TypeOK
    <2>3. CASE v = w
      <3>1. e = d
        BY <1>1, <2>1, <2>3, HeadUnique DEF Inv
      <3>2. Settled(w) \in DeliveryTerminal
        BY DEF Settled, DeliveryTerminal
      <3>3. status[d] = "processing"
        BY <1>1 DEF GetClaimedDelivery
      <3>4. verdict'[w] = RefreshInboxStatus(d, Settled(w))
        BY <1>1 DEF Inv, TypeOK
      <3>5. verdict'[w] \in InboxTerminal =>
              Reflects(verdict'[w], [status EXCEPT ![d] = Settled(w)], d[1])
        BY <3>2, <3>3, <3>4, RefreshSound DEF Inv
      <3> QED
        BY <1>1, <2>3, <3>1, <3>5 DEF GetClaimedDelivery, VerdictSound, Settled
    <2> QED
      BY <2>2, <2>3
  <1> QED
    BY <1>2, <1>3, <1>4, <1>5 DEF Inv

\* Committing a delivered or dead-lettered row with its aggregate keeps the
\* invariant.
LEMMA CommitSettlementInv ==
  ASSUME Inv, TypeOK', NEW w \in Workers, NEW d \in Deliveries, CommitSettlement(w, d)
  PROVE  Inv'
  <1>1. /\ status' = [status EXCEPT ![d] = Settled(w)]
        /\ next' = [next EXCEPT ![d] = "none"]
        /\ owner' = [owner EXCEPT ![d] = None]
        /\ lease' = [lease EXCEPT ![d] = "none"]
        /\ dlq' = IF Settled(w) = "dead_letter" THEN dlq \cup {d} ELSE dlq
        /\ batch' = [batch EXCEPT ![w] = batch[w] \ {d}]
        /\ outcome' = [outcome EXCEPT ![w] = "ok"]
        /\ verdict' = [verdict EXCEPT ![w] = "processing"]
        /\ UNCHANGED <<attempts, arrival>>
    BY DEF CommitSettlement, SetBatch
  <1>2. pc'[w] # "commit" /\ \A v \in Workers : v # w => pc'[v] = pc[v]
    BY DEF CommitSettlement, SetBatch, Inv, TypeOK
  <1>3. GetClaimedDelivery(w, d) /\ VerdictSound(w, d)
    BY DEF CommitSettlement, Inv, LockInv
  <1>4. status[d] = "processing"
    BY <1>3 DEF GetClaimedDelivery
  <1>5. Settled(w) \in {"delivered", "dead_letter"}
    BY DEF Settled
  <1>6. NoStrandedRow' /\ Defaults'
    BY <1>1, <1>5 DEF Inv, NoStrandedRow, Defaults, TypeOK
  <1>7. DeadLetterHasOutbox' /\ RowsTogether'
    <2>1. status \in [Deliveries -> DeliveryStatus]
      BY DEF Inv, TypeOK
    <2>2. DeadLetterHasOutbox'
      BY <1>1, <1>4, <1>5, <2>1 DEF Inv, DeadLetterHasOutbox
    <2>3. RowsTogether'
      <3> USE <1>1, <1>4, <1>5, <2>1
      <3>1. \A e \in Deliveries : status'[e] = "absent" <=> status[e] = "absent"
        OBVIOUS
      <3> QED
        BY <3>1 DEF Inv, RowsTogether
    <2> QED
      BY <2>2, <2>3
  <1>8. BatchRowsExist' /\ VerdictType'
    <2>1. /\ batch \in [Workers -> SUBSET Deliveries] /\ verdict \in [Workers -> InboxStatus]
          /\ status \in [Deliveries -> DeliveryStatus]
      BY DEF Inv, TypeOK
    <2>2. BatchRowsExist'
      BY <1>1, <1>5, <2>1 DEF Inv, BatchRowsExist
    <2>3. VerdictType'
      BY <1>1, <2>1 DEF Inv, VerdictType
    <2> QED
      BY <2>2, <2>3
  <1>9. LockInv'
    <2>1. \A e \in Deliveries : e # d => status'[e] = status[e] /\ owner'[e] = owner[e]
      BY <1>1 DEF Inv, TypeOK
    <2>2. \A v \in Workers : v # w => /\ batch'[v] = batch[v] /\ verdict'[v] = verdict[v]
                                      /\ outcome'[v] = outcome[v]
      BY <1>1 DEF Inv, TypeOK
    <2> QED
      BY <1>1, <1>2, <1>3, <2>1, <2>2, OtherLocksKept
  <1>10. InboxAggregatesDeliveries'
    <2>1. \A e \in Deliveries : status[e] \in DeliveryTerminal => status'[e] = status[e]
      BY <1>1, <1>4 DEF Inv, TypeOK, DeliveryTerminal
    <2>2. CASE verdict[w] = "processing"
      <3>1. UNCHANGED inbox
        BY <2>2 DEF CommitSettlement, WriteInbox, inboxVars
      <3> QED
        BY <2>1, <3>1, AggregatesUndisturbed
    <2>3. CASE verdict[w] # "processing"
      <3>1. inbox' = [inbox EXCEPT ![d[1]] = verdict[w]]
        BY <2>3 DEF CommitSettlement, WriteInbox
      <3>2. verdict[w] \in InboxTerminal
        BY <2>3 DEF Inv, VerdictType, TypeOK, InboxStatus
      <3>3. Reflects(verdict[w], status', d[1])
        BY <1>1, <1>3, <3>2 DEF VerdictSound
      <3> SUFFICES ASSUME NEW m \in Messages, inbox'[m] \in InboxTerminal
                   PROVE  Reflects(inbox'[m], status', m)
        BY DEF InboxAggregatesDeliveries
      <3>4. CASE m = d[1]
        BY <3>1, <3>3, <3>4 DEF Inv, TypeOK
      <3>5. CASE m # d[1]
        <4>1. inbox'[m] = inbox[m]
          BY <3>1, <3>5 DEF Inv, TypeOK
        <4>2. Reflects(inbox[m], status, m)
          BY <4>1 DEF Inv, InboxAggregatesDeliveries
        <4>3. \A e \in Siblings(m) : status'[e] = status[e]
          BY <2>1, <4>2 DEF Reflects, Siblings
        <4> QED
          BY <4>1, <4>2, <4>3 DEF Reflects
      <3> QED
        BY <3>4, <3>5
    <2> QED
      BY <2>2, <2>3
  <1> QED
    BY <1>6, <1>7, <1>8, <1>9, <1>10 DEF Inv

\* The steps that are quiet in the sense of QuietStep.
LEMMA ExitQuiet ==
  ASSUME Inv, NEW w \in Workers, Exit(w)
  PROVE  QuietStep
  <1>1. \A v \in Workers : QuietWorker(v)
    BY DEF Exit, QuietWorker, Inv, TypeOK
  <1> QED
    BY <1>1 DEF Exit, QuietStep, inboxVars, rowVars

\* Every step keeps the inductive invariant.
LEMMA InvStep == Inv /\ [Next]_vars => Inv'
  <1> SUFFICES ASSUME Inv, [Next]_vars PROVE Inv'
    OBVIOUS
  <1>t. TypeOK /\ TypeOK'
    BY TypeStep DEF Inv
  <1>1. ASSUME NEW m \in Messages, Publish(m) PROVE Inv'
    <2>1. QuietStep
      BY <1>1 DEF Publish, QuietStep, QuietWorker, inboxVars, rowVars, batchVars
    <2> QED
      BY <2>1, <1>t, QuietPreserves
  <1>2. ASSUME NEW m \in Messages, InboxLeaseExpires(m) PROVE Inv'
    <2>1. QuietStep
      BY <1>2 DEF InboxLeaseExpires, QuietStep, QuietWorker, rowVars, batchVars
    <2> QED
      BY <2>1, <1>t, QuietPreserves
  <1>3. ASSUME NEW d \in Deliveries, LeaseExpires(d) PROVE Inv'
    <2>1. QuietStep
      BY <1>3, <1>t DEF LeaseExpires, QuietStep, QuietWorker, inboxVars, batchVars, TypeOK
    <2> QED
      BY <2>1, <1>t, QuietPreserves
  <1>4. ASSUME NEW d \in Deliveries, RetryFallsDue(d) PROVE Inv'
    <2>1. QuietStep
      BY <1>4, <1>t DEF RetryFallsDue, QuietStep, QuietWorker, inboxVars, batchVars, TypeOK
    <2> QED
      BY <2>1, <1>t, QuietPreserves
  <1>5. ASSUME NEW w \in Workers, Rebalance(w) PROVE Inv'
    <2>1. QuietStep
      BY <1>5 DEF Rebalance, QuietStep, QuietWorker, inboxVars, rowVars, batchVars
    <2> QED
      BY <2>1, <1>t, QuietPreserves
  <1>6. ASSUME NEW w \in Workers, Crash(w) PROVE Inv'
    BY <1>6, <1>t, ExitQuiet, QuietPreserves DEF Crash
  <1>7. ASSUME NEW w \in Workers, Restart(w) PROVE Inv'
    <2>1. QuietStep
      BY <1>7, <1>t DEF Restart, QuietStep, QuietWorker, inboxVars, rowVars, batchVars, TypeOK
    <2> QED
      BY <2>1, <1>t, QuietPreserves
  <1>8. ASSUME NEW w \in Workers, Step(w) PROVE Inv'
    <2>1. CASE Poll(w)
      <3>1. QuietStep
        BY <2>1, <1>t DEF Poll, QuietStep, QuietWorker, inboxVars, rowVars, batchVars, TypeOK
      <3> QED
        BY <3>1, <1>t, QuietPreserves
    <2>2. CASE RejectPoison(w)
      BY <2>2, <1>t, ExitQuiet, QuietPreserves DEF RejectPoison
    <2>3. CASE ClaimNotificationRequest(w)
      <3>1. \A m \in Messages : inbox'[m] = inbox[m] \/ inbox'[m] = "processing"
        BY <2>3, <1>t DEF ClaimNotificationRequest, inboxVars, TypeOK
      <3>2. \A v \in Workers : QuietWorker(v)
        BY <2>3, <1>t DEF ClaimNotificationRequest, QuietWorker, batchVars, TypeOK
      <3>3. QuietStep
        BY <2>3, <3>1, <3>2 DEF ClaimNotificationRequest, QuietStep, rowVars
      <3> QED
        BY <3>3, <1>t, QuietPreserves
    <2>4. CASE AddChannelDeliveries(w)
      BY <2>4, <1>t, AddChannelDeliveriesInv
    <2>5. CASE ClaimDueDeliveries(w)
      BY <2>5, <1>t, ClaimDueDeliveriesInv
    <2>6. CASE Deliver(w)
      <3>1. \A v \in Workers : QuietWorker(v)
        BY <2>6, <1>t DEF Deliver, QuietWorker, TypeOK
      <3>2. QuietStep
        BY <2>6, <3>1 DEF Deliver, QuietStep, inboxVars, rowVars
      <3> QED
        BY <3>2, <1>t, QuietPreserves
    <2>7. ASSUME NEW d \in Deliveries, ClaimConflict(w, d) PROVE Inv'
      <3>1. \A v \in Workers : QuietWorker(v)
        BY <2>7, <1>t DEF ClaimConflict, SetBatch, QuietWorker, TypeOK
      <3>2. QuietStep
        BY <2>7, <3>1 DEF ClaimConflict, QuietStep, inboxVars, rowVars
      <3> QED
        BY <3>2, <1>t, QuietPreserves
    <2>8. ASSUME NEW d \in Deliveries, ScheduleDeliveryRetry(w, d) PROVE Inv'
      BY <2>8, <1>t, ScheduleDeliveryRetryInv
    <2>9. ASSUME NEW d \in Deliveries, OpenSettlement(w, d) PROVE Inv'
      BY <2>9, <1>t, OpenSettlementInv
    <2>10. ASSUME NEW d \in Deliveries, CommitSettlement(w, d) PROVE Inv'
      BY <2>10, <1>t, CommitSettlementInv
    <2>11. CASE CommitOffset(w)
      <3>1. CASE assigned = w
        <4>1. \A v \in Workers : QuietWorker(v)
          BY <2>11, <3>1, <1>t DEF CommitOffset, QuietWorker, batchVars, TypeOK
        <4>2. QuietStep
          BY <2>11, <3>1, <4>1 DEF CommitOffset, QuietStep, inboxVars, rowVars
        <4> QED
          BY <4>2, <1>t, QuietPreserves
      <3>2. CASE assigned # w
        BY <2>11, <3>2, <1>t, ExitQuiet, QuietPreserves DEF CommitOffset
      <3> QED
        BY <3>1, <3>2
    <2> QED
      BY <1>8, <2>1, <2>2, <2>3, <2>4, <2>5, <2>6, <2>7, <2>8, <2>9, <2>10, <2>11 DEF Step
  <1>9. CASE UNCHANGED vars
    <2>1. QuietStep
      BY <1>9 DEF vars, QuietStep, QuietWorker, inboxVars, rowVars, batchVars
    <2> QED
      BY <2>1, <1>t, QuietPreserves
  <1> QED
    BY <1>1, <1>2, <1>3, <1>4, <1>5, <1>6, <1>7, <1>8, <1>9 DEF Next

\* The inductive invariant holds in every reachable state of the delivery workers.
THEOREM Invariance == Spec => []Inv
  BY InvInit, InvStep, PTL DEF Spec

\* For any number of workers and channels, and any interleaving of settlements
\* that read each other's rows unlocked, a finished inbox row reports exactly what
\* happened to its deliveries (_refresh_inbox_status).
THEOREM InboxIsSound == Spec => []InboxAggregatesDeliveries
  <1>1. Inv => InboxAggregatesDeliveries
    BY DEF Inv
  <1> QED
    BY <1>1, Invariance, PTL

\* A dead-lettered delivery and its DLQ outbox intent always exist together
\* (dead_letter_delivery).
THEOREM DeadLetteringIsAtomic == Spec => []DeadLetterHasOutbox
  <1>1. Inv => DeadLetterHasOutbox
    BY DEF Inv
  <1> QED
    BY <1>1, Invariance, PTL

\* No reachable state leaves an unsettled delivery out of reach of
\* claim_due_deliveries.
THEOREM RowsStayClaimable == Spec => []NoStrandedRow
  <1>1. Inv => NoStrandedRow
    BY DEF Inv
  <1> QED
    BY <1>1, Invariance, PTL

-----------------------------------------------------------------------------
(* Steps *)

\* Every step either leaves the status and attempts of the rows alone or is one
\* of the four steps that work on rows.
LEMMA RowSteps ==
  ASSUME [Next]_vars
  PROVE  \/ UNCHANGED <<status, attempts>>
         \/ \E w \in Workers :
              \/ AddChannelDeliveries(w)
              \/ ClaimDueDeliveries(w)
              \/ \E d \in Deliveries : ScheduleDeliveryRetry(w, d) \/ CommitSettlement(w, d)
  <1> USE DEF rowVars
  <1>1. ASSUME NEW m \in Messages, Publish(m) \/ InboxLeaseExpires(m)
        PROVE  UNCHANGED <<status, attempts>>
    BY <1>1 DEF Publish, InboxLeaseExpires
  <1>2. ASSUME NEW d \in Deliveries, LeaseExpires(d) \/ RetryFallsDue(d)
        PROVE  UNCHANGED <<status, attempts>>
    BY <1>2 DEF LeaseExpires, RetryFallsDue
  <1>3. ASSUME NEW w \in Workers, Rebalance(w) \/ Crash(w) \/ Restart(w)
        PROVE  UNCHANGED <<status, attempts>>
    BY <1>3 DEF Rebalance, Crash, Exit, Restart
  <1>4. ASSUME NEW w \in Workers, Poll(w) \/ RejectPoison(w) \/ ClaimNotificationRequest(w)
                                  \/ Deliver(w) \/ CommitOffset(w)
        PROVE  UNCHANGED <<status, attempts>>
    BY <1>4 DEF Poll, RejectPoison, ClaimNotificationRequest, Deliver, CommitOffset, Exit
  <1>5. ASSUME NEW w \in Workers, NEW d \in Deliveries, ClaimConflict(w, d) \/ OpenSettlement(w, d)
        PROVE  UNCHANGED <<status, attempts>>
    BY <1>5 DEF ClaimConflict, OpenSettlement
  <1>6. CASE UNCHANGED vars
    BY <1>6 DEF vars
  <1> QED
    BY <1>1, <1>2, <1>3, <1>4, <1>5, <1>6 DEF Next, Step

\* A stale batch never writes: for any number of workers, a row in process changes
\* only through the worker that holds its claim token (_get_claimed_delivery).
THEOREM StaleBatchNeverWrites == Spec => OnlyHolderSettles
  <1> DEFINE A == \A d \in Deliveries :
                    status[d] = "processing" /\ status'[d] # "processing" =>
                      \E w \in Workers :
                        owner[d] = w /\ d \in batch[w] /\ d \notin batch'[w] /\ pc'[w] # "down"
  <1>1. ASSUME Inv, [Next]_vars PROVE A
    <2>1. CASE UNCHANGED <<status, attempts>>
      BY <2>1
    <2>2. ASSUME NEW w \in Workers, AddChannelDeliveries(w) PROVE A
      BY <2>2 DEF AddChannelDeliveries
    <2>3. ASSUME NEW w \in Workers, ClaimDueDeliveries(w) PROVE A
      BY <2>3 DEF ClaimDueDeliveries
    <2>4. ASSUME NEW w \in Workers, NEW d \in Deliveries,
                 ScheduleDeliveryRetry(w, d) \/ CommitSettlement(w, d)
          PROVE  A
      <3>1. IsHead(w, d) /\ SetBatch(w, batch[w] \ {d})
        BY <2>4 DEF ScheduleDeliveryRetry, CommitSettlement
      <3>2. GetClaimedDelivery(w, d)
        BY <1>1, <2>4 DEF ScheduleDeliveryRetry, CommitSettlement, Inv, LockInv
      <3>3. d \in batch[w] /\ d \notin batch'[w] /\ pc'[w] # "down"
        BY <1>1, <3>1 DEF IsHead, SetBatch, Inv, TypeOK
      <3>4. \A e \in Deliveries : e # d => status'[e] = status[e]
        BY <1>1, <2>4 DEF ScheduleDeliveryRetry, CommitSettlement, Inv, TypeOK
      <3> QED
        BY <3>2, <3>3, <3>4 DEF GetClaimedDelivery
    <2> QED
      BY <1>1, <2>1, <2>2, <2>3, <2>4, RowSteps
  <1>2. Inv /\ [Next]_vars => [A]_vars
    BY <1>1
  <1> QED
    BY <1>2, Invariance, PTL DEF Spec, OnlyHolderSettles

\* The delivery tables implement the lifecycle their readers rely on, for any
\* number of workers, channels, crashes and lost leases.
THEOREM ImplementsLifecycle == Spec => RefinesLifecycle
  <1>1. Init => Lifecycle!Init
    BY DEF Init, Lifecycle!Init
  <1>2. ASSUME Inv, [Next]_vars PROVE [Lifecycle!Next]_(Lifecycle!vars)
    <2>1. CASE UNCHANGED <<status, attempts>>
      BY <2>1 DEF Lifecycle!vars
    <2>2. ASSUME NEW w \in Workers, AddChannelDeliveries(w) PROVE Lifecycle!Next
      <3> DEFINE S == {d \in Deliveries : d[1] = Record(w) /\ status[d] = "absent"}
      <3>1. Lifecycle!Create(S)
        BY <2>2 DEF AddChannelDeliveries, Lifecycle!Create
      <3>2. S \in SUBSET Deliveries
        OBVIOUS
      <3> QED
        BY <3>1, <3>2 DEF Lifecycle!Next
    <2>3. ASSUME NEW w \in Workers, ClaimDueDeliveries(w) PROVE Lifecycle!Next
      <3> DEFINE rows == FirstRows(Claimable, IF cur[w] < last[w] THEN 1 ELSE MaxRecords)
                 S == {d \in rows : status[d] # "processing"}
      <3>1. \A d \in rows : d \in Deliveries /\ (DueUnclaimedWork(d) \/ AbandonedWork(d))
        BY DEF FirstRows, Claimable
      <3>2. /\ status' = [d \in Deliveries |-> IF d \in rows THEN "processing" ELSE status[d]]
            /\ attempts' = [d \in Deliveries |->
                              IF d \in rows /\ status[d] # "processing"
                              THEN attempts[d] + 1 ELSE attempts[d]]
        BY <2>3 DEF ClaimDueDeliveries
      <3> HIDE DEF rows
      <3>3. \A d \in S : status[d] \in Lifecycle!Unattempted /\ attempts[d] < 3
        BY <3>1 DEF DueUnclaimedWork, AbandonedWork, Lifecycle!Unattempted
      <3>4. status' = [d \in Deliveries |-> IF d \in S THEN "processing" ELSE status[d]]
        BY <3>2
      <3>5. attempts' = [d \in Deliveries |-> IF d \in S THEN attempts[d] + 1 ELSE attempts[d]]
        BY <3>2
      <3>6. S \in SUBSET Deliveries
        BY <3>1
      <3> HIDE DEF S
      <3>7. Lifecycle!Attempt(S)
        BY <3>3, <3>4, <3>5 DEF Lifecycle!Attempt
      <3> QED
        BY <3>6, <3>7 DEF Lifecycle!Next
    <2>4. ASSUME NEW w \in Workers, NEW d \in Deliveries, ScheduleDeliveryRetry(w, d)
          PROVE  Lifecycle!Next
      <3>1. Lifecycle!Retry(d)
        BY <2>4 DEF ScheduleDeliveryRetry, GetClaimedDelivery, Retries, Lifecycle!Retry
      <3> QED
        BY <3>1 DEF Lifecycle!Next
    <2>5. ASSUME NEW w \in Workers, NEW d \in Deliveries, CommitSettlement(w, d)
          PROVE  Lifecycle!Next
      <3>1. GetClaimedDelivery(w, d)
        BY <1>2, <2>5 DEF CommitSettlement, Inv, LockInv
      <3>2. Settled(w) \in {"delivered", "dead_letter"}
        BY DEF Settled
      <3>3. Lifecycle!Settle(d)
        BY <2>5, <3>1, <3>2 DEF CommitSettlement, GetClaimedDelivery, Lifecycle!Settle
      <3> QED
        BY <3>3 DEF Lifecycle!Next
    <2> QED
      BY <1>2, <2>1, <2>2, <2>3, <2>4, <2>5, RowSteps
  <1> QED
    BY <1>1, <1>2, Invariance, PTL DEF Spec, RefinesLifecycle, Lifecycle!Spec

-----------------------------------------------------------------------------
(* Provider calls.  A call is owed by someone: by each worker whose batch     *)
(* holds the row and has not called the provider for it yet, and by whoever   *)
(* takes the row over when its lease runs out.                                *)

Pending(d) ==
  {w \in Workers : d \in batch[w] /\ ~(pc[w] \in {"settle", "commit"} /\ IsHead(w, d))}

\* The row can be taken over without another fault.
Reopened(d) == status[d] = "processing" /\ ~(lease[d] = "live" /\ Handled(d))

Owed(d) == Cardinality(Pending(d)) + (IF Reopened(d) THEN 1 ELSE 0)

CallsArePaidFor == \A d \in Deliveries : calls[d] + Owed(d) <= attempts[d] + faults

\* Outside the delivery pass a worker holds no rows.
BatchInHand ==
  \A w \in Workers : pc[w] \notin {"deliver", "settle", "commit"} => batch[w] = {}

PaidInv == Inv /\ BatchInHand /\ CallsArePaidFor

\* Sets of workers are finite, so that what is owed is a number.
LEMMA WorkerSets ==
  ASSUME NEW S \in SUBSET Workers, NEW T \in SUBSET Workers
  PROVE  /\ Cardinality(S) \in Nat
         /\ S \subseteq T => Cardinality(S) <= Cardinality(T)
         /\ \A w : w \in S /\ T = S \ {w} => Cardinality(T) = Cardinality(S) - 1
         /\ \A w : T = S \cup {w} => Cardinality(T) <= Cardinality(S) + 1
  <1>1. IsFiniteSet(S) /\ IsFiniteSet(T)
    BY WorkersAssumption, FS_Subset
  <1>2. Cardinality(S) \in Nat
    BY <1>1, FS_CardinalityType
  <1>3. S \subseteq T => Cardinality(S) <= Cardinality(T)
    BY <1>1, FS_Subset
  <1>4. \A w : Cardinality(S \ {w}) = IF w \in S THEN Cardinality(S) - 1 ELSE Cardinality(S)
    BY <1>1, FS_RemoveElement
  <1>5. \A w : Cardinality(S \cup {w}) = IF w \in S THEN Cardinality(S) ELSE Cardinality(S) + 1
    BY <1>1, FS_AddElement
  <1> QED
    BY <1>2, <1>3, <1>4, <1>5

\* The counters of a row are numbers, in this state and in the next.
LEMMA CountersType ==
  ASSUME PaidInv, Inv', NEW d \in Deliveries
  PROVE  /\ calls[d] \in Nat /\ attempts[d] \in Nat /\ faults \in Nat
         /\ calls'[d] \in Nat /\ attempts'[d] \in Nat /\ faults' \in Nat
         /\ Cardinality(Pending(d)) \in Nat /\ Cardinality(Pending(d)') \in Nat
         /\ calls[d] + Owed(d) <= attempts[d] + faults
  <1>1. Pending(d) \in SUBSET Workers /\ Pending(d)' \in SUBSET Workers
    BY DEF Pending
  <1>2. /\ calls \in [Deliveries -> 0..MaxCalls] /\ faults \in 0..MaxFaults
        /\ attempts \in [Deliveries -> 0..MAX_DELIVERY_ATTEMPTS]
    BY DEF PaidInv, Inv, TypeOK
  <1>3. /\ calls' \in [Deliveries -> 0..MaxCalls] /\ faults' \in 0..MaxFaults
        /\ attempts' \in [Deliveries -> 0..MAX_DELIVERY_ATTEMPTS]
    BY DEF Inv, TypeOK
  <1> QED
    BY <1>1, <1>2, <1>3, WorkerSets DEF PaidInv, CallsArePaidFor

\* The bound survives a step after which nobody new may call the provider for the
\* row and the row is not newly open to a takeover.
LEMMA OwedKept ==
  ASSUME PaidInv, Inv', NEW d \in Deliveries, Pending(d)' \subseteq Pending(d),
         Reopened(d)' => Reopened(d), calls'[d] = calls[d], attempts'[d] = attempts[d],
         faults' >= faults
  PROVE  (calls[d] + Owed(d) <= attempts[d] + faults)'
  <1>1. Pending(d) \in SUBSET Workers /\ Pending(d)' \in SUBSET Workers
    BY DEF Pending
  <1>2. Cardinality(Pending(d)') <= Cardinality(Pending(d))
    BY <1>1, WorkerSets
  <1> QED
    BY <1>2, CountersType DEF Owed

\* A new chance to call the provider is paid for by a fault, by an attempt that
\* the claim counts, or by the takeover it was owed to.
LEMMA OwedMoved ==
  ASSUME PaidInv, Inv', NEW d \in Deliveries, calls'[d] = calls[d],
         \/ /\ Pending(d)' \subseteq Pending(d)
            /\ faults' = faults + 1 /\ attempts'[d] = attempts[d]
         \/ /\ \E w : Pending(d)' = Pending(d) \cup {w}
            /\ ~Reopened(d)' /\ faults' = faults
            /\ \/ Reopened(d) /\ attempts'[d] = attempts[d]
               \/ attempts'[d] = attempts[d] + 1
  PROVE  (calls[d] + Owed(d) <= attempts[d] + faults)'
  <1>1. Pending(d) \in SUBSET Workers /\ Pending(d)' \in SUBSET Workers
    BY DEF Pending
  <1>2. CASE Pending(d)' \subseteq Pending(d) /\ faults' = faults + 1 /\ attempts'[d] = attempts[d]
    <2>1. Cardinality(Pending(d)') <= Cardinality(Pending(d))
      BY <1>1, <1>2, WorkerSets
    <2> QED
      BY <1>2, <2>1, CountersType DEF Owed
  <1>3. CASE /\ \E w : Pending(d)' = Pending(d) \cup {w}
             /\ ~Reopened(d)' /\ faults' = faults
             /\ \/ Reopened(d) /\ attempts'[d] = attempts[d]
                \/ attempts'[d] = attempts[d] + 1
    <2>1. Cardinality(Pending(d)') <= Cardinality(Pending(d)) + 1
      BY <1>1, <1>3, WorkerSets
    <2>2. Owed(d)' = Cardinality(Pending(d)') + (IF Reopened(d)' THEN 1 ELSE 0)
      BY DEF Owed
    <2>3. Owed(d) = Cardinality(Pending(d)) + (IF Reopened(d) THEN 1 ELSE 0)
      BY DEF Owed
    <2>4. CASE Reopened(d) /\ attempts'[d] = attempts[d]
      <3>1. Owed(d)' <= Owed(d) /\ Owed(d) \in Nat /\ Owed(d)' \in Nat
        <4>1. Cardinality(Pending(d)) \in Nat /\ Cardinality(Pending(d)') \in Nat
          BY CountersType
        <4>2. Owed(d)' = Cardinality(Pending(d)')
          BY <1>3, <2>2, <4>1
        <4>3. Owed(d) = Cardinality(Pending(d)) + 1
          BY <2>3, <2>4, <4>1
        <4> QED
          BY <2>1, <4>1, <4>2, <4>3
      <3>2. calls[d] + Owed(d) <= attempts[d] + faults /\ faults' = faults
        BY <1>3, CountersType
      <3> QED
        BY <2>4, <3>1, <3>2, CountersType
    <2>5. CASE attempts'[d] = attempts[d] + 1
      BY <1>3, <2>1, <2>2, <2>3, <2>5, CountersType
    <2> QED
      BY <1>3, <2>4, <2>5
  <1> QED
    BY <1>2, <1>3

\* Steps of the loop, the broker and the clock that touch neither a batch nor the
\* claim of a row.
LEMMA QuietPaid ==
  ASSUME PaidInv, Inv', faults' >= faults,
         UNCHANGED <<status, attempts, owner, lease, arrival, calls, batch>>,
         \A w \in Workers : \/ pc'[w] = pc[w]
                            \/ batch[w] = {}
                            \/ pc[w] = "settle" /\ pc'[w] = "commit"
  PROVE  PaidInv'
  <1>1. BatchInHand'
    BY DEF PaidInv, BatchInHand
  <1>2. ASSUME NEW d \in Deliveries PROVE (calls[d] + Owed(d) <= attempts[d] + faults)'
    <2>1. \A w \in Workers : IsHead(w, d)' <=> IsHead(w, d)
      BY DEF IsHead, Before
    <2>2. Pending(d)' \subseteq Pending(d)
      BY <2>1 DEF Pending
    <2>3. Reopened(d)' => Reopened(d)
      BY DEF Reopened, Handled
    <2> QED
      BY <2>2, <2>3, OwedKept
  <1> QED
    BY <1>1, <1>2 DEF PaidInv, CallsArePaidFor

\* After a row is dealt with, the rest of the batch is still to be sent.
LEMMA RestPending ==
  ASSUME PaidInv, NEW w \in Workers, NEW d \in Deliveries, IsHead(w, d),
         SetBatch(w, batch[w] \ {d}), UNCHANGED arrival, NEW e \in Deliveries
  PROVE  /\ Pending(e)' \subseteq Pending(e)
         /\ \A v \in Workers : (e # d \/ v # w) => (e \in batch'[v] <=> e \in batch[v])
         /\ BatchInHand'
  <1>1. /\ batch' = [batch EXCEPT ![w] = batch[w] \ {d}]
        /\ pc' = [pc EXCEPT ![w] = IF batch[w] \ {d} # {} THEN "deliver"
                                   ELSE IF cur[w] < last[w] THEN "offset" ELSE "poll"]
    BY DEF SetBatch
  <1>2. /\ batch'[w] = batch[w] \ {d}
        /\ \A v \in Workers : v # w => batch'[v] = batch[v] /\ pc'[v] = pc[v]
        /\ batch[w] \ {d} # {} => pc'[w] = "deliver"
    BY <1>1 DEF PaidInv, Inv, TypeOK
  <1>3. \A v \in Workers : v # w => (IsHead(v, e)' <=> IsHead(v, e))
    BY <1>2 DEF IsHead, Before
  <1>4. e # d => ~IsHead(w, e)
    BY HeadUnique DEF PaidInv, Inv
  <1>5. Pending(e)' \subseteq Pending(e)
    BY <1>2, <1>3, <1>4 DEF Pending
  <1>6. BatchInHand'
    BY <1>2 DEF PaidInv, BatchInHand
  <1> QED
    BY <1>2, <1>5, <1>6

\* A claim counts an attempt, or takes over a row that a fault left behind.
LEMMA ClaimPaid ==
  ASSUME PaidInv, Inv', NEW w \in Workers, ClaimDueDeliveries(w)
  PROVE  PaidInv'
  <1> DEFINE rows == FirstRows(Claimable, IF cur[w] < last[w] THEN 1 ELSE MaxRecords)
  <1>1. /\ status' = [d \in Deliveries |-> IF d \in rows THEN "processing" ELSE status[d]]
        /\ attempts' = [d \in Deliveries |->
                          IF d \in rows /\ status[d] # "processing"
                          THEN attempts[d] + 1 ELSE attempts[d]]
        /\ owner' = [d \in Deliveries |-> IF d \in rows THEN w ELSE owner[d]]
        /\ lease' = [d \in Deliveries |-> IF d \in rows THEN "live" ELSE lease[d]]
        /\ batch' = [batch EXCEPT ![w] = rows]
        /\ pc[w] = "claim"
        /\ pc' = [pc EXCEPT ![w] = IF rows # {} THEN "deliver"
                                   ELSE IF cur[w] < last[w] THEN "offset" ELSE "poll"]
        /\ UNCHANGED <<arrival, calls, faults>>
    BY DEF ClaimDueDeliveries, SetBatch
  <1>2. \A d \in rows : d \in Deliveries /\ (status[d] = "processing" => lease[d] # "live")
    BY DEF FirstRows, Claimable, DueUnclaimedWork, AbandonedWork
  <1> HIDE DEF rows
  <1>3. batch[w] = {}
    BY <1>1 DEF PaidInv, BatchInHand
  <1>4. /\ batch'[w] = rows
        /\ \A v \in Workers : v # w => batch'[v] = batch[v] /\ pc'[v] = pc[v]
        /\ rows # {} => pc'[w] = "deliver"
    BY <1>1 DEF PaidInv, Inv, TypeOK
  <1>5. BatchInHand'
    BY <1>4 DEF PaidInv, BatchInHand
  <1>6. ASSUME NEW d \in Deliveries PROVE (calls[d] + Owed(d) <= attempts[d] + faults)'
    <2>1. \A v \in Workers : v # w => (IsHead(v, d)' <=> IsHead(v, d))
      BY <1>1, <1>4 DEF IsHead, Before
    <2>2. calls'[d] = calls[d] /\ faults' = faults /\ faults' >= faults
      BY <1>1, CountersType
    <2>3. CASE d \in rows
      <3>1. Pending(d)' = Pending(d) \cup {w}
        BY <1>3, <1>4, <2>1, <2>3 DEF Pending
      <3>2. ~Reopened(d)'
        BY <1>1, <1>4, <2>3 DEF Reopened, Handled
      <3>3. CASE status[d] = "processing"
        <4>1. Reopened(d) /\ attempts'[d] = attempts[d]
          BY <1>1, <1>2, <2>3, <3>3 DEF Reopened
        <4> QED
          BY <2>2, <3>1, <3>2, <4>1, OwedMoved
      <3>4. CASE status[d] # "processing"
        <4>1. attempts'[d] = attempts[d] + 1
          BY <1>1, <2>3, <3>4
        <4> QED
          BY <2>2, <3>1, <3>2, <4>1, OwedMoved
      <3> QED
        BY <3>3, <3>4
    <2>4. CASE d \notin rows
      <3>1. Pending(d)' \subseteq Pending(d)
        BY <1>4, <2>1, <2>4 DEF Pending
      <3>2. status'[d] = status[d] /\ lease'[d] = lease[d] /\ owner'[d] = owner[d]
            /\ attempts'[d] = attempts[d]
        BY <1>1, <2>4
      <3>3. Handled(d)' <=> Handled(d)
        BY <1>3, <1>4, <2>4, <3>2 DEF Handled
      <3>4. Reopened(d)' => Reopened(d)
        BY <3>2, <3>3 DEF Reopened
      <3> QED
        BY <2>2, <3>1, <3>2, <3>4, OwedKept
    <2> QED
      BY <2>3, <2>4
  <1> QED
    BY <1>5, <1>6 DEF PaidInv, CallsArePaidFor

\* The provider call is the one its worker owed.
LEMMA DeliverPaid ==
  ASSUME PaidInv, Inv', NEW w \in Workers, Deliver(w)
  PROVE  PaidInv'
  <1>1. PICK h \in batch[w] :
          IsHead(w, h) /\ calls' = [calls EXCEPT ![h] = IF @ < MaxCalls THEN @ + 1 ELSE @]
    BY DEF Deliver
  <1>2. /\ pc[w] = "deliver"
        /\ pc' = [pc EXCEPT ![w] = "settle"]
        /\ UNCHANGED <<status, attempts, owner, lease, arrival, batch, faults>>
    BY DEF Deliver, rowVars
  <1>3. /\ h \in Deliveries /\ pc'[w] = "settle"
        /\ \A v \in Workers : v # w => pc'[v] = pc[v]
    BY <1>2 DEF PaidInv, Inv, TypeOK
  <1>4. BatchInHand'
    BY <1>2, <1>3 DEF PaidInv, BatchInHand
  <1>5. ASSUME NEW d \in Deliveries PROVE (calls[d] + Owed(d) <= attempts[d] + faults)'
    <2>1. /\ \A v \in Workers : IsHead(v, d)' <=> IsHead(v, d)
          /\ Reopened(d)' <=> Reopened(d)
      BY <1>2 DEF IsHead, Before, Reopened, Handled
    <2>2. Pending(d)' \subseteq Pending(d)
      BY <1>2, <1>3, <2>1 DEF Pending
    <2>3. faults' = faults /\ faults' >= faults
      BY <1>2, CountersType
    <2>4. CASE d # h
      <3>1. calls'[d] = calls[d]
        BY <1>1, <1>3, <2>4 DEF PaidInv, Inv, TypeOK
      <3> QED
        BY <1>2, <2>1, <2>2, <2>3, <3>1, OwedKept
    <2>5. CASE d = h
      <3>1. calls'[d] <= calls[d] + 1
        <4>1. calls \in [Deliveries -> 0..MaxCalls]
          BY DEF PaidInv, Inv, TypeOK
        <4> QED
          BY <1>1, <2>5, <4>1, BoundsAssumption
      <3>2. w \in Pending(d) /\ Pending(d)' = Pending(d) \ {w}
        BY <1>1, <1>2, <1>3, <2>1, <2>5 DEF Pending
      <3>3. Pending(d) \in SUBSET Workers /\ Pending(d)' \in SUBSET Workers
        BY DEF Pending
      <3>4. Cardinality(Pending(d)') = Cardinality(Pending(d)) - 1
        BY <3>2, <3>3, WorkerSets
      <3>5. Owed(d)' = Owed(d) - 1 /\ Owed(d) \in Nat /\ Owed(d)' \in Nat
        BY <2>1, <3>4, CountersType DEF Owed
      <3>6. calls'[d] \in Nat /\ calls[d] \in Nat /\ attempts'[d] \in Nat
            /\ faults \in Nat /\ calls[d] + Owed(d) <= attempts[d] + faults
        BY CountersType
      <3> QED
        BY <1>2, <3>1, <3>5, <3>6
    <2> QED
      BY <2>4, <2>5
  <1> QED
    BY <1>4, <1>5 DEF PaidInv, CallsArePaidFor

\* A settled, rescheduled or lost row is nobody's any more; the others in the
\* batch are untouched.
LEMMA SettledPaid ==
  ASSUME PaidInv, Inv', NEW w \in Workers, NEW d \in Deliveries, IsHead(w, d),
         SetBatch(w, batch[w] \ {d}), UNCHANGED <<attempts, arrival, calls, faults>>,
         \/ UNCHANGED <<status, owner, lease>> /\ ~GetClaimedDelivery(w, d)
         \/ /\ \E s \in DeliveryStatus \ {"processing"} : status' = [status EXCEPT ![d] = s]
            /\ owner' = [owner EXCEPT ![d] = None]
            /\ lease' = [lease EXCEPT ![d] = "none"]
  PROVE  PaidInv'
  <1>1. BatchInHand'
    BY RestPending
  <1>2. ASSUME NEW e \in Deliveries PROVE (calls[e] + Owed(e) <= attempts[e] + faults)'
    <2>1. /\ Pending(e)' \subseteq Pending(e)
          /\ \A v \in Workers : (e # d \/ v # w) => (e \in batch'[v] <=> e \in batch[v])
      BY RestPending
    <2>2. faults' >= faults
      BY CountersType
    <2>3. Reopened(e)' => Reopened(e)
      <3>1. CASE e # d
        <4>1. status'[e] = status[e] /\ owner'[e] = owner[e] /\ lease'[e] = lease[e]
          BY <3>1 DEF PaidInv, Inv, TypeOK
        <4> QED
          BY <2>1, <3>1, <4>1 DEF Reopened, Handled
      <3>2. CASE e = d /\ UNCHANGED <<status, owner, lease>> /\ ~GetClaimedDelivery(w, d)
        BY <2>1, <3>2 DEF Reopened, Handled, GetClaimedDelivery
      <3>3. CASE e = d /\ \E s \in DeliveryStatus \ {"processing"} : status' = [status EXCEPT ![d] = s]
        <4>1. status'[e] # "processing"
          BY <3>3 DEF PaidInv, Inv, TypeOK
        <4> QED
          BY <4>1 DEF Reopened
      <3> QED
        BY <3>1, <3>2, <3>3
    <2> QED
      BY <2>1, <2>2, <2>3, OwedKept
  <1> QED
    BY <1>1, <1>2 DEF PaidInv, CallsArePaidFor

\* Every step pays for the calls it makes possible.
LEMMA PaidStep == PaidInv /\ Inv' /\ [Next]_vars => PaidInv'
  <1> SUFFICES ASSUME PaidInv, Inv', [Next]_vars PROVE PaidInv'
    OBVIOUS
  <1>a. faults \in Nat /\ pc \in [Workers -> Control] /\ batch \in [Workers -> SUBSET Deliveries]
    <2>1. TypeOK
      BY DEF PaidInv, Inv
    <2>2. pc \in [Workers -> Control] /\ batch \in [Workers -> SUBSET Deliveries]
      BY <2>1 DEF TypeOK
    <2>3. faults \in Nat
      BY <2>1, BoundsAssumption DEF TypeOK
    <2> QED
      BY <2>2, <2>3
  <1>1. ASSUME NEW m \in Messages, Publish(m) \/ InboxLeaseExpires(m) PROVE PaidInv'
    <2>1. UNCHANGED <<status, attempts, owner, lease, arrival, calls, batch, pc, faults>>
      BY <1>1 DEF Publish, InboxLeaseExpires, rowVars, batchVars
    <2> QED
      BY <1>a, <2>1, QuietPaid
  <1>2. ASSUME NEW d \in Deliveries, LeaseExpires(d) PROVE PaidInv'
    <2>1. /\ lease[d] = "live"
          /\ IF Handled(d) THEN faults' = faults + 1 ELSE UNCHANGED faults
          /\ lease' = [lease EXCEPT ![d] = "expired"]
          /\ UNCHANGED <<status, attempts, owner, arrival, calls, batch, pc>>
      BY <1>2 DEF LeaseExpires, Fault, batchVars
    <2>2. BatchInHand'
      BY <2>1 DEF PaidInv, BatchInHand
    <2>3. ASSUME NEW e \in Deliveries PROVE (calls[e] + Owed(e) <= attempts[e] + faults)'
      <3>1. Pending(e)' = Pending(e) /\ (Handled(e)' <=> Handled(e)) /\ faults' >= faults
        BY <1>a, <2>1 DEF Pending, Handled, IsHead, Before
      <3>2. CASE Handled(d)
        BY <2>1, <3>1, <3>2, OwedMoved
      <3>3. CASE ~Handled(d)
        <4>1. e # d => lease'[e] = lease[e]
          BY <2>1 DEF PaidInv, Inv, TypeOK
        <4>2. Reopened(e)' => Reopened(e)
          BY <2>1, <3>1, <3>3, <4>1 DEF Reopened
        <4> QED
          BY <2>1, <3>1, <4>2, OwedKept
      <3> QED
        BY <3>2, <3>3
    <2> QED
      BY <2>2, <2>3 DEF PaidInv, CallsArePaidFor
  <1>3. ASSUME NEW d \in Deliveries, RetryFallsDue(d) PROVE PaidInv'
    <2>1. UNCHANGED <<status, attempts, owner, lease, arrival, calls, batch, pc, faults>>
      BY <1>3 DEF RetryFallsDue, batchVars
    <2> QED
      BY <1>a, <2>1, QuietPaid
  <1>4. ASSUME NEW w \in Workers, Rebalance(w) PROVE PaidInv'
    <2>1. /\ UNCHANGED <<status, attempts, owner, lease, arrival, calls, batch, pc>>
          /\ faults' = faults \/ faults' = faults + 1
      BY <1>4 DEF Rebalance, Fault, rowVars, batchVars
    <2> QED
      BY <1>a, <2>1, QuietPaid
  <1>5. ASSUME NEW w \in Workers, Crash(w) PROVE PaidInv'
    <2>1. /\ batch' = [batch EXCEPT ![w] = {}]
          /\ pc' = [pc EXCEPT ![w] = "down"]
          /\ faults' = faults + 1
          /\ UNCHANGED <<status, attempts, owner, lease, arrival, calls>>
      BY <1>5 DEF Crash, Exit, Fault, rowVars
    <2>2. /\ batch'[w] = {}
          /\ \A v \in Workers : v # w => batch'[v] = batch[v] /\ pc'[v] = pc[v]
      BY <1>a, <2>1
    <2>3. BatchInHand'
      BY <2>2 DEF PaidInv, BatchInHand
    <2>4. ASSUME NEW e \in Deliveries PROVE (calls[e] + Owed(e) <= attempts[e] + faults)'
      <3>1. Pending(e)' \subseteq Pending(e)
        BY <2>1, <2>2 DEF Pending, IsHead, Before
      <3> QED
        BY <2>1, <3>1, OwedMoved
    <2> QED
      BY <2>3, <2>4 DEF PaidInv, CallsArePaidFor
  <1>6. ASSUME NEW w \in Workers, Exit(w), UNCHANGED faults, batch[w] = {} PROVE PaidInv'
    <2>1. /\ batch' = batch
          /\ \A v \in Workers : v # w => pc'[v] = pc[v]
          /\ UNCHANGED <<status, attempts, owner, lease, arrival, calls>>
      BY <1>a, <1>6 DEF Exit, rowVars
    <2> QED
      BY <1>a, <1>6, <2>1, QuietPaid
  <1>7. ASSUME NEW w \in Workers, batch[w] = {},
               UNCHANGED <<status, attempts, owner, lease, arrival, calls, batch, faults>>,
               \E c : pc' = [pc EXCEPT ![w] = c]
        PROVE  PaidInv'
    <2>1. \A v \in Workers : v # w => pc'[v] = pc[v]
      BY <1>a, <1>7
    <2> QED
      BY <1>a, <1>7, <2>1, QuietPaid
  <1>8. ASSUME NEW w \in Workers, Step(w) \/ Restart(w) PROVE PaidInv'
    <2>a. pc[w] \notin {"deliver", "settle", "commit"} => batch[w] = {}
      BY DEF PaidInv, BatchInHand
    <2>1. CASE Poll(w) \/ Restart(w)
      <3>1. /\ pc[w] \in {"poll", "down"}
            /\ UNCHANGED <<status, attempts, owner, lease, arrival, calls, batch, faults>>
            /\ \E c : pc' = [pc EXCEPT ![w] = c]
        BY <2>1 DEF Poll, Restart, rowVars, batchVars
      <3> QED
        BY <2>a, <3>1, <1>7
    <2>2. CASE RejectPoison(w)
      BY <2>2, <2>a, <1>6 DEF RejectPoison
    <2>3. CASE ClaimNotificationRequest(w)
      <3>1. /\ pc[w] = "accept"
            /\ UNCHANGED <<status, attempts, owner, lease, arrival, calls, batch, faults>>
            /\ \E c : pc' = [pc EXCEPT ![w] = c]
        BY <2>3 DEF ClaimNotificationRequest, rowVars, batchVars
      <3> QED
        BY <2>a, <3>1, <1>7
    <2>4. CASE AddChannelDeliveries(w)
      <3> DEFINE m == Record(w)
      <3>1. /\ pc[w] = "materialise"
            /\ pc' = [pc EXCEPT ![w] = "claim"]
            /\ status' = [d \in Deliveries |->
                            IF d[1] = m /\ status[d] = "absent" THEN "pending" ELSE status[d]]
            /\ arrival' = [arrival EXCEPT ![m] =
                             IF @ = 0 THEN 1 + Cardinality({x \in Messages : arrival[x] > 0})
                             ELSE @]
            /\ UNCHANGED <<attempts, owner, lease, calls, batch, faults>>
        BY <2>4 DEF AddChannelDeliveries, batchVars
      <3> HIDE DEF m
      <3>2. /\ batch[w] = {}
            /\ \A v \in Workers : v # w => pc'[v] = pc[v]
        BY <1>a, <2>a, <3>1
      <3>3. BatchInHand'
        BY <3>1, <3>2 DEF PaidInv, BatchInHand
      <3>4. \A d \in Deliveries : status[d] # "absent" => arrival'[d[1]] = arrival[d[1]]
        <4>1. \A d \in Deliveries : d[1] \in Messages
          BY DEF Deliveries
        <4> QED
          BY <3>1, <4>1 DEF PaidInv, Inv, RowsTogether, TypeOK
      <3>5. \A v \in Workers : \A d \in batch[v] : d \in Deliveries /\ arrival'[d[1]] = arrival[d[1]]
        BY <1>a, <3>4 DEF PaidInv, Inv, BatchRowsExist
      <3>6. ASSUME NEW e \in Deliveries PROVE (calls[e] + Owed(e) <= attempts[e] + faults)'
        <4>1. \A v \in Workers : IsHead(v, e)' <=> IsHead(v, e)
          BY <3>1, <3>5 DEF IsHead, Before
        <4>2. Pending(e)' \subseteq Pending(e)
          BY <3>1, <3>2, <4>1 DEF Pending
        <4>3. Reopened(e)' => Reopened(e)
          BY <3>1 DEF Reopened, Handled
        <4> QED
          BY <1>a, <3>1, <4>2, <4>3, OwedKept
      <3> QED
        BY <3>3, <3>6 DEF PaidInv, CallsArePaidFor
    <2>5. CASE ClaimDueDeliveries(w)
      BY <2>5, ClaimPaid
    <2>6. CASE Deliver(w)
      BY <2>6, DeliverPaid
    <2>7. ASSUME NEW d \in Deliveries, ClaimConflict(w, d) PROVE PaidInv'
      <3>1. /\ IsHead(w, d) /\ ~GetClaimedDelivery(w, d)
            /\ SetBatch(w, batch[w] \ {d})
            /\ UNCHANGED <<status, attempts, owner, lease, arrival, calls, faults>>
        BY <2>7 DEF ClaimConflict, rowVars
      <3> QED
        BY <3>1, SettledPaid
    <2>8. ASSUME NEW d \in Deliveries, ScheduleDeliveryRetry(w, d) PROVE PaidInv'
      <3>1. /\ IsHead(w, d)
            /\ SetBatch(w, batch[w] \ {d})
            /\ status' = [status EXCEPT ![d] = "retry_scheduled"]
            /\ owner' = [owner EXCEPT ![d] = None]
            /\ lease' = [lease EXCEPT ![d] = "none"]
            /\ UNCHANGED <<attempts, arrival, calls, faults>>
        BY <2>8 DEF ScheduleDeliveryRetry
      <3>2. "retry_scheduled" \in DeliveryStatus \ {"processing"}
        BY DEF DeliveryStatus
      <3> QED
        BY <3>1, <3>2, SettledPaid
    <2>9. ASSUME NEW d \in Deliveries, OpenSettlement(w, d) PROVE PaidInv'
      <3>1. /\ pc[w] = "settle"
            /\ pc' = [pc EXCEPT ![w] = "commit"]
            /\ UNCHANGED <<status, attempts, owner, lease, arrival, calls, batch, faults>>
        BY <2>9 DEF OpenSettlement, rowVars
      <3>2. \A v \in Workers : pc'[v] = pc[v] \/ (pc[v] = "settle" /\ pc'[v] = "commit")
        BY <1>a, <3>1
      <3> QED
        BY <1>a, <3>1, <3>2, QuietPaid
    <2>10. ASSUME NEW d \in Deliveries, CommitSettlement(w, d) PROVE PaidInv'
      <3>1. /\ IsHead(w, d)
            /\ SetBatch(w, batch[w] \ {d})
            /\ status' = [status EXCEPT ![d] = Settled(w)]
            /\ owner' = [owner EXCEPT ![d] = None]
            /\ lease' = [lease EXCEPT ![d] = "none"]
            /\ UNCHANGED <<attempts, arrival, calls, faults>>
        BY <2>10 DEF CommitSettlement
      <3>2. Settled(w) \in DeliveryStatus \ {"processing"}
        BY DEF Settled, DeliveryStatus, DeliveryTerminal
      <3> QED
        BY <3>1, <3>2, SettledPaid
    <2>11. CASE CommitOffset(w)
      <3>1. CASE assigned = w
        <4>1. /\ pc[w] = "offset"
              /\ UNCHANGED <<status, attempts, owner, lease, arrival, calls, batch, faults>>
              /\ \E c : pc' = [pc EXCEPT ![w] = c]
          BY <2>11, <3>1 DEF CommitOffset, rowVars, batchVars
        <4> QED
          BY <2>a, <4>1, <1>7
      <3>2. CASE assigned # w
        BY <2>11, <2>a, <3>2, <1>6 DEF CommitOffset
      <3> QED
        BY <3>1, <3>2
    <2> QED
      BY <1>8, <2>1, <2>2, <2>3, <2>4, <2>5, <2>6, <2>7, <2>8, <2>9, <2>10, <2>11 DEF Step
  <1>9. CASE UNCHANGED vars
    <2>1. UNCHANGED <<status, attempts, owner, lease, arrival, calls, batch, pc, faults>>
      BY <1>9 DEF vars, rowVars, batchVars
    <2> QED
      BY <1>a, <2>1, QuietPaid
  <1> QED
    BY <1>1, <1>2, <1>3, <1>4, <1>5, <1>8, <1>9 DEF Next

\* Nothing is owed before the first message.
LEMMA PaidInit == Init => PaidInv
  <1> SUFFICES ASSUME Init PROVE PaidInv
    OBVIOUS
  <1>1. Inv /\ BatchInHand
    BY InvInit DEF Init, BatchInHand
  <1>2. ASSUME NEW d \in Deliveries PROVE calls[d] + Owed(d) <= attempts[d] + faults
    <2>1. Pending(d) = {} /\ ~Reopened(d)
      BY DEF Init, Pending, Reopened
    <2>2. Owed(d) = 0
      BY <2>1, FS_EmptySet DEF Owed
    <2> QED
      BY <2>2 DEF Init
  <1> QED
    BY <1>1, <1>2 DEF PaidInv, CallsArePaidFor

\* The provider of a channel is called at most once per counted attempt and once
\* more per crash or overrun lease, however batches overlap: a takeover, which
\* claim_due_deliveries does not count, always follows a fault.
THEOREM SendsAreBounded == Spec => []SendsWithinBudget
  <1>1. PaidInv => SendsWithinBudget
    <2> SUFFICES ASSUME PaidInv, NEW d \in Deliveries PROVE calls[d] <= attempts[d] + faults
      BY DEF SendsWithinBudget
    <2>1. Pending(d) \in SUBSET Workers
      BY DEF Pending
    <2>2. Owed(d) \in Nat
      BY <2>1, WorkerSets DEF Owed
    <2>3. /\ calls \in [Deliveries -> 0..MaxCalls] /\ faults \in 0..MaxFaults
          /\ attempts \in [Deliveries -> 0..MAX_DELIVERY_ATTEMPTS]
      BY DEF PaidInv, Inv, TypeOK
    <2> QED
      BY <2>2, <2>3 DEF PaidInv, CallsArePaidFor
  <1>2. Inv /\ PaidInv /\ Inv' /\ [Next]_vars => PaidInv'
    BY PaidStep
  <1> QED
    BY <1>1, <1>2, PaidInit, Invariance, PTL DEF Spec
=============================================================================
