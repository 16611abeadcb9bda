------------------------ MODULE NotificationDelivery ------------------------
(***************************************************************************)
(* The notification-delivery consumer: any number of worker processes of   *)
(* one Kafka consumer group share the tables inbox_consumptions,           *)
(* notification_deliveries and outbox_events.  A worker polls the broker,  *)
(* claims each request in the inbox, materialises one delivery row per     *)
(* requested channel, sends due rows to the providers and commits the      *)
(* offset.                                                                 *)
(*                                                                         *)
(* Every action is one database transaction, one provider call or one      *)
(* broker call, except that the transactions that settle a row are split   *)
(* at the point where they read the sibling rows without locking them      *)
(* (OpenSettlement, then the commit).                                      *)
(*                                                                         *)
(* Time is abstracted to what the code compares it with: a lease is none,  *)
(* live or expired, a scheduled retry is later or due, and passing from    *)
(* one to the other is a step of the environment that can happen at any    *)
(* moment (a batch of slow sends can outlive any lease).  The uuid4 claim  *)
(* token of a batch is represented by the worker that runs the batch: a    *)
(* worker runs one batch at a time and forgets it when it dies, so a row's *)
(* token equals the token a worker uses exactly when the row's owner is    *)
(* that worker and the row is in its current batch.                        *)
(***************************************************************************)
EXTENDS Naturals, Sequences, FiniteSets

CONSTANTS
  Messages,       \* message ids the outbox publisher may put in the topic
  Poison,         \* the messages that fail decoding or validation
  ChannelCount,   \* channels 1..ChannelCount, in the order of the payload
  Workers,        \* processes running notification_delivery_worker
  None,           \* no worker
  MaxLog,         \* bound: records published to the partition
  MaxRecords,     \* max_records_per_poll
  MaxCalls,       \* bound: where the history counter calls saturates
  MaxFaults       \* bound: crashes, late batches and forced rebalances

ASSUME MessagesAssumption == IsFiniteSet(Messages) /\ Poison \subseteq Messages
ASSUME ChannelAssumption == ChannelCount \in Nat \ {0}
ASSUME WorkersAssumption == IsFiniteSet(Workers) /\ None \notin Workers
ASSUME BoundsAssumption ==
  /\ MaxLog \in Nat
  /\ MaxRecords \in Nat \ {0}
  /\ MaxCalls \in Nat \ {0}
  /\ MaxFaults \in Nat

VARIABLES
  log, committed, assigned,                \* the broker partition
  inbox, inboxLease,                       \* inbox_consumptions
  status, attempts, owner, lease, next,    \* notification_deliveries
  arrival,                                 \* primary-key order of the rows
  dlq,                                     \* dead-letter rows of outbox_events
  pc, cur, last, fetch,                    \* a worker's loop and its records
  batch, outcome, verdict,                 \* a worker's claimed rows
  calls,                                   \* history: provider calls per row
  faults                                   \* faults that happened so far

brokerVars == <<log, committed, assigned>>
inboxVars == <<inbox, inboxLease>>
rowVars == <<status, attempts, owner, lease, next, arrival, dlq>>
loopVars == <<cur, last, fetch>>
batchVars == <<batch, outcome, verdict>>
vars == <<brokerVars, inboxVars, rowVars, pc, loopVars, batchVars, calls, faults>>

-----------------------------------------------------------------------------
MAX_DELIVERY_ATTEMPTS == 3

Channels == 1..ChannelCount

\* Rows are keyed by (message_id, channel), which a unique constraint covers.
Deliveries == Messages \X Channels

InboxTerminal == {"completed", "completed_with_dead_letters", "dead_letter"}

InboxStatus == {"absent", "processing"} \cup InboxTerminal

DeliveryTerminal == {"delivered", "dead_letter"}

DeliveryStatus ==
  {"absent", "pending", "processing", "retry_scheduled"} \cup DeliveryTerminal

Lease == {"none", "live", "expired"}

\* What a channel adapter answers, as the consumer classifies it: success, an
\* error worth retrying, or a permanent (configuration) error.
Outcome == {"ok", "retryable", "permanent"}

Control == {"down", "poll", "accept", "materialise", "claim", "deliver",
            "settle", "commit", "offset"}

TypeOK ==
  /\ log \in Seq(Messages)
  /\ committed \in Nat
  /\ assigned \in Workers \cup {None}
  /\ inbox \in [Messages -> InboxStatus]
  /\ inboxLease \in [Messages -> Lease]
  /\ status \in [Deliveries -> DeliveryStatus]
  /\ attempts \in [Deliveries -> 0..MAX_DELIVERY_ATTEMPTS]
  /\ owner \in [Deliveries -> Workers \cup {None}]
  /\ lease \in [Deliveries -> Lease]
  /\ next \in [Deliveries -> {"none", "later", "due"}]
  /\ arrival \in [Messages -> Nat]
  /\ dlq \in SUBSET Deliveries
  /\ pc \in [Workers -> Control]
  /\ cur \in [Workers -> Nat]
  /\ last \in [Workers -> Nat]
  /\ fetch \in [Workers -> Nat]
  /\ batch \in [Workers -> SUBSET Deliveries]
  /\ outcome \in [Workers -> Outcome]
  /\ verdict \in [Workers -> InboxStatus]
  /\ calls \in [Deliveries -> 0..MaxCalls]
  /\ faults \in 0..MaxFaults

Init ==
  /\ log = <<>>
  /\ committed = 0
  /\ assigned = None
  /\ inbox = [m \in Messages |-> "absent"]
  /\ inboxLease = [m \in Messages |-> "none"]
  /\ status = [d \in Deliveries |-> "absent"]
  /\ attempts = [d \in Deliveries |-> 0]
  /\ owner = [d \in Deliveries |-> None]
  /\ lease = [d \in Deliveries |-> "none"]
  /\ next = [d \in Deliveries |-> "none"]
  /\ arrival = [m \in Messages |-> 0]
  /\ dlq = {}
  /\ pc = [w \in Workers |-> "down"]
  /\ cur = [w \in Workers |-> 0]
  /\ last = [w \in Workers |-> 0]
  /\ fetch = [w \in Workers |-> 0]
  /\ batch = [w \in Workers |-> {}]
  /\ outcome = [w \in Workers |-> "ok"]
  /\ verdict = [w \in Workers |-> "processing"]
  /\ calls = [d \in Deliveries |-> 0]
  /\ faults = 0

-----------------------------------------------------------------------------
(* The tables *)

\* Primary-key order: the rows of one message are inserted together, in the
\* order of its channels.
Before(d, e) ==
  \/ arrival[d[1]] < arrival[e[1]]
  \/ d[1] = e[1] /\ d[2] <= e[2]

\* The batch is processed in primary-key order.
IsHead(w, d) == d \in batch[w] /\ \A e \in batch[w] : Before(d, e)

\* A settlement holds its row's lock from the SELECT ... FOR UPDATE to commit.
Locked(d) == \E w \in Workers : pc[w] = "commit" /\ IsHead(w, d)

\* Mutant: the settlement matches the row without its token.
GetClaimedDelivery_NoToken(w, d) == status[d] = "processing"

\* _get_claimed_delivery: the row is processing under this batch's token.
GetClaimedDelivery(w, d) == status[d] = "processing" /\ owner[d] = w

DueUnclaimedWork(d) ==
  /\ attempts[d] < MAX_DELIVERY_ATTEMPTS
  /\ \/ status[d] = "pending"
     \/ status[d] = "retry_scheduled" /\ next[d] = "due"
  /\ lease[d] \in {"none", "expired"}

\* Mutant: a row whose worker died is never taken over.
AbandonedWork_Never(d) == FALSE

\* Mutant: rows in process are taken over although their lease is live.
AbandonedWork_IgnoresLease(d) == status[d] = "processing"

AbandonedWork(d) == status[d] = "processing" /\ lease[d] = "expired"

\* The rows a claiming SELECT ... FOR UPDATE SKIP LOCKED may return.
Claimable == {d \in Deliveries : /\ DueUnclaimedWork(d) \/ AbandonedWork(d)
                                 /\ ~Locked(d)}

\* ORDER BY id LIMIT limit.
FirstRows(S, limit) ==
  {d \in S : Cardinality({e \in S : e # d /\ Before(e, d)}) < limit}

\* Mutant: a transaction looks at its own row only.
RefreshInboxStatus_OwnRow(d, new) ==
  IF new = "delivered" THEN "completed" ELSE "dead_letter"

\* Mutant: the state of the row is copied to the inbox.
RefreshInboxStatus_RowState(d, new) == new

\* Mutant: only a fully delivered request is finished.
RefreshInboxStatus_DeliveredOnly(d, new) ==
  LET siblings == {e \in Deliveries : e[1] = d[1] /\ status[e] # "absent"}
  IN  IF {IF e = d THEN new ELSE status[e] : e \in siblings} = {"delivered"}
      THEN "completed" ELSE "processing"

\* The aggregate the settling transaction computes: its own row is already
\* flushed, the siblings are read as last committed.
RefreshInboxStatus(d, new) ==
  LET siblings == {e \in Deliveries : e[1] = d[1] /\ status[e] # "absent"}
      statuses == {IF e = d THEN new ELSE status[e] : e \in siblings}
  IN  IF ~ (statuses \subseteq DeliveryTerminal) THEN "processing"
      ELSE IF statuses = {"delivered"} THEN "completed"
      ELSE IF statuses = {"dead_letter"} THEN "dead_letter"
      ELSE "completed_with_dead_letters"

-----------------------------------------------------------------------------
(* The environment: broker, clock and process failures *)

\* The outbox publisher delivers at least once: any message, any number of
\* times.
Publish(m) ==
  /\ Len(log) < MaxLog
  /\ log' = Append(log, m)
  /\ UNCHANGED <<committed, assigned, inboxVars, rowVars, pc, loopVars,
                 batchVars, calls, faults>>

Fault == faults < MaxFaults /\ faults' = faults + 1

\* The group coordinator gives the partition to a live worker, which resumes
\* at the committed offset.  Taking it from a live worker is a fault.
Rebalance(w) ==
  /\ pc[w] # "down"
  /\ assigned # w
  /\ IF assigned = None THEN UNCHANGED faults ELSE Fault
  /\ assigned' = w
  /\ fetch' = [fetch EXCEPT ![w] = committed]
  /\ UNCHANGED <<log, committed, inboxVars, rowVars, pc, cur, last, batchVars,
                 calls>>

\* The worker currently sending or settling the row.
Handled(d) == \E w \in Workers : owner[d] = w /\ d \in batch[w]

\* lease_expires_at <= now.  While the batch that holds the row is still
\* running this is a fault: the batch took longer than its lease.
LeaseExpires(d) ==
  /\ lease[d] = "live"
  /\ IF Handled(d) THEN Fault ELSE UNCHANGED faults
  /\ lease' = [lease EXCEPT ![d] = "expired"]
  /\ UNCHANGED <<brokerVars, inboxVars, status, attempts, owner, next, arrival,
                 dlq, pc, loopVars, batchVars, calls>>

\* next_attempt_at <= now.
RetryFallsDue(d) ==
  /\ next[d] = "later"
  /\ next' = [next EXCEPT ![d] = "due"]
  /\ UNCHANGED <<brokerVars, inboxVars, status, attempts, owner, lease, arrival,
                 dlq, pc, loopVars, batchVars, calls, faults>>

InboxLeaseExpires(m) ==
  /\ inboxLease[m] = "live"
  /\ inboxLease' = [inboxLease EXCEPT ![m] = "expired"]
  /\ UNCHANGED <<brokerVars, inbox, rowVars, pc, loopVars, batchVars, calls,
                 faults>>

\* The process ends: its session rolls back, its batch is forgotten and it
\* leaves the consumer group.
Exit(w) ==
  /\ pc' = [pc EXCEPT ![w] = "down"]
  /\ cur' = [cur EXCEPT ![w] = 0]
  /\ last' = [last EXCEPT ![w] = 0]
  /\ fetch' = [fetch EXCEPT ![w] = 0]
  /\ batch' = [batch EXCEPT ![w] = {}]
  /\ outcome' = [outcome EXCEPT ![w] = "ok"]
  /\ verdict' = [verdict EXCEPT ![w] = "processing"]
  /\ assigned' = IF assigned = w THEN None ELSE assigned
  /\ UNCHANGED <<log, committed, inboxVars, rowVars, calls>>

Crash(w) ==
  /\ pc[w] # "down"
  /\ Fault
  /\ Exit(w)

\* _run: the container is started again and joins the group.
Restart(w) ==
  /\ pc[w] = "down"
  /\ pc' = [pc EXCEPT ![w] = "poll"]
  /\ UNCHANGED <<brokerVars, inboxVars, rowVars, loopVars, batchVars, calls,
                 faults>>

-----------------------------------------------------------------------------
(* run_notification_delivery_worker *)

\* The rows the batch still has to handle, and where the loop goes from there.
SetBatch(w, rows) ==
  /\ batch' = [batch EXCEPT ![w] = rows]
  /\ outcome' = [outcome EXCEPT ![w] = "ok"]
  /\ verdict' = [verdict EXCEPT ![w] = "processing"]
  /\ pc' = [pc EXCEPT ![w] = IF rows # {} THEN "deliver"
                             ELSE IF cur[w] < last[w] THEN "offset" ELSE "poll"]

\* consumer.getmany: some of the records from the fetch position on; none, when
\* the poll times out, if there is no record or another worker has the partition.
Poll(w) ==
  /\ pc[w] = "poll"
  /\ \E n \in 0..MaxRecords :
       /\ IF assigned = w /\ fetch[w] < Len(log)
          THEN n > 0 /\ fetch[w] + n <= Len(log)
          ELSE n = 0
       /\ cur' = [cur EXCEPT ![w] = fetch[w]]
       /\ last' = [last EXCEPT ![w] = fetch[w] + n]
       /\ fetch' = [fetch EXCEPT ![w] = fetch[w] + n]
       /\ pc' = [pc EXCEPT ![w] = IF n > 0 THEN "accept" ELSE "claim"]
  /\ UNCHANGED <<brokerVars, inboxVars, rowVars, batchVars, calls, faults>>

\* The record being processed.
Record(w) == log[cur[w] + 1]

\* Mutant: an invalid value is skipped and its offset committed.
RejectPoison_Skip(w) ==
  /\ pc[w] = "accept"
  /\ Record(w) \in Poison
  /\ pc' = [pc EXCEPT ![w] = "claim"]
  /\ UNCHANGED <<brokerVars, inboxVars, rowVars, loopVars, batchVars, calls, faults>>

\* A value that is not a valid request raises: the worker stops and the offset
\* is not committed.
RejectPoison(w) ==
  /\ pc[w] = "accept"
  /\ Record(w) \in Poison
  /\ Exit(w)
  /\ UNCHANGED faults

\* Mutant: a request that is finished or leased is waited for, not skipped.
ClaimNotificationRequest_Waits(w) ==
  /\ pc[w] = "accept"
  /\ Record(w) \notin Poison
  /\ LET m == Record(w)
     IN  /\ \/ inbox[m] = "absent"
            \/ inbox[m] = "processing" /\ inboxLease[m] # "live"
         /\ inbox' = [inbox EXCEPT ![m] = "processing"]
         /\ inboxLease' = [inboxLease EXCEPT ![m] = "live"]
  /\ pc' = [pc EXCEPT ![w] = "materialise"]
  /\ UNCHANGED <<brokerVars, rowVars, loopVars, batchVars, calls, faults>>

\* claim_notification_request, its three outcomes: the inbox row is inserted;
\* an expired claim is taken over; the request is finished or leased and is
\* skipped.
ClaimNotificationRequest(w) ==
  /\ pc[w] = "accept"
  /\ Record(w) \notin Poison
  /\ LET m == Record(w)
     IN  \/ /\ \/ inbox[m] = "absent"
               \/ inbox[m] = "processing" /\ inboxLease[m] # "live"
            /\ inbox' = [inbox EXCEPT ![m] = "processing"]
            /\ inboxLease' = [inboxLease EXCEPT ![m] = "live"]
            /\ pc' = [pc EXCEPT ![w] = "materialise"]
         \/ /\ \/ inbox[m] \in InboxTerminal
               \/ inbox[m] = "processing" /\ inboxLease[m] = "live"
            /\ pc' = [pc EXCEPT ![w] = "claim"]
            /\ UNCHANGED inboxVars
  /\ UNCHANGED <<brokerVars, rowVars, loopVars, batchVars, calls, faults>>

\* add_channel_deliveries and the second commit of accept_notification_request.
AddChannelDeliveries(w) ==
  /\ pc[w] = "materialise"
  /\ LET m == Record(w)
     IN  /\ status' = [d \in Deliveries |->
                         IF d[1] = m /\ status[d] = "absent" THEN "pending"
                         ELSE status[d]]
         /\ arrival' = [arrival EXCEPT ![m] =
                          IF @ = 0 THEN 1 + Cardinality({x \in Messages : arrival[x] > 0})
                          ELSE @]
  /\ pc' = [pc EXCEPT ![w] = "claim"]
  /\ UNCHANGED <<brokerVars, inboxVars, attempts, owner, lease, next, dlq,
                 loopVars, batchVars, calls, faults>>

\* claim_due_deliveries: one row while a record is in hand, a full batch after
\* the records.  An abandoned row is taken over without counting an attempt.
ClaimDueDeliveries(w) ==
  /\ pc[w] = "claim"
  /\ LET rows == FirstRows(Claimable, IF cur[w] < last[w] THEN 1 ELSE MaxRecords)
     IN  /\ status' = [d \in Deliveries |->
                         IF d \in rows THEN "processing" ELSE status[d]]
         /\ attempts' = [d \in Deliveries |->
                           IF d \in rows /\ status[d] # "processing"
                           THEN attempts[d] + 1 ELSE attempts[d]]
         /\ owner' = [d \in Deliveries |-> IF d \in rows THEN w ELSE owner[d]]
         /\ lease' = [d \in Deliveries |-> IF d \in rows THEN "live" ELSE lease[d]]
         /\ next' = [d \in Deliveries |-> IF d \in rows THEN "none" ELSE next[d]]
         /\ SetBatch(w, rows)
  /\ UNCHANGED <<brokerVars, inboxVars, arrival, dlq, loopVars, calls, faults>>

\* The provider call.  Its outcome is known to the worker only.
Deliver(w) ==
  /\ pc[w] = "deliver"
  /\ \E d \in batch[w] :
       /\ IsHead(w, d)
       /\ calls' = [calls EXCEPT ![d] = IF @ < MaxCalls THEN @ + 1 ELSE @]
  /\ \E o \in Outcome : outcome' = [outcome EXCEPT ![w] = o]
  /\ pc' = [pc EXCEPT ![w] = "settle"]
  /\ UNCHANGED <<brokerVars, inboxVars, rowVars, loopVars, batch, verdict, faults>>

\* Every settlement finds that another batch took the row over: it is dropped.
ClaimConflict(w, d) ==
  /\ pc[w] = "settle"
  /\ IsHead(w, d)
  /\ ~GetClaimedDelivery(w, d)
  /\ SetBatch(w, batch[w] \ {d})
  /\ UNCHANGED <<brokerVars, inboxVars, rowVars, loopVars, calls, faults>>

\* Mutant: the budget is not looked at before a retry is scheduled.
Retries_NoBudget(w, d) == outcome[w] = "retryable"

\* The consumer retries only transient errors, while the budget lasts.
Retries(w, d) == outcome[w] = "retryable" /\ attempts[d] < MAX_DELIVERY_ATTEMPTS

ScheduleDeliveryRetry(w, d) ==
  /\ pc[w] = "settle"
  /\ IsHead(w, d)
  /\ GetClaimedDelivery(w, d)
  /\ Retries(w, d)
  /\ status' = [status EXCEPT ![d] = "retry_scheduled"]
  /\ next' = [next EXCEPT ![d] = "later"]
  /\ owner' = [owner EXCEPT ![d] = None]
  /\ lease' = [lease EXCEPT ![d] = "none"]
  /\ SetBatch(w, batch[w] \ {d})
  /\ UNCHANGED <<brokerVars, inboxVars, attempts, arrival, dlq, loopVars, calls,
                 faults>>

Settled(w) == IF outcome[w] = "ok" THEN "delivered" ELSE "dead_letter"

\* mark_delivery_delivered or dead_letter_delivery up to _refresh_inbox_status:
\* the row is locked and flushed, the siblings are read.
OpenSettlement(w, d) ==
  /\ pc[w] = "settle"
  /\ IsHead(w, d)
  /\ GetClaimedDelivery(w, d)
  /\ ~Retries(w, d)
  /\ verdict' = [verdict EXCEPT ![w] = RefreshInboxStatus(d, Settled(w))]
  /\ pc' = [pc EXCEPT ![w] = "commit"]
  /\ UNCHANGED <<brokerVars, inboxVars, rowVars, loopVars, batch, outcome, calls,
                 faults>>

\* The inbox columns the settling transaction writes; "processing" is what the
\* session loaded, so that verdict writes nothing.
WriteInbox(w, m) ==
  IF verdict[w] = "processing" THEN UNCHANGED inboxVars
  ELSE /\ inbox' = [inbox EXCEPT ![m] = verdict[w]]
       /\ inboxLease' = [inboxLease EXCEPT ![m] = "none"]

\* Mutant: the dead-letter intent is not part of the settling transaction.
CommitSettlement_NoOutbox(w, d) ==
  /\ pc[w] = "commit"
  /\ IsHead(w, d)
  /\ status' = [status EXCEPT ![d] = Settled(w)]
  /\ next' = [next EXCEPT ![d] = "none"]
  /\ owner' = [owner EXCEPT ![d] = None]
  /\ lease' = [lease EXCEPT ![d] = "none"]
  /\ WriteInbox(w, d[1])
  /\ SetBatch(w, batch[w] \ {d})
  /\ UNCHANGED <<brokerVars, dlq, attempts, arrival, loopVars, calls, faults>>

\* The commit of a settlement: row, dead-letter outbox row and inbox together.
CommitSettlement(w, d) ==
  /\ pc[w] = "commit"
  /\ IsHead(w, d)
  /\ status' = [status EXCEPT ![d] = Settled(w)]
  /\ next' = [next EXCEPT ![d] = "none"]
  /\ owner' = [owner EXCEPT ![d] = None]
  /\ lease' = [lease EXCEPT ![d] = "none"]
  /\ dlq' = IF Settled(w) = "dead_letter" THEN dlq \cup {d} ELSE dlq
  /\ WriteInbox(w, d[1])
  /\ SetBatch(w, batch[w] \ {d})
  /\ UNCHANGED <<brokerVars, attempts, arrival, loopVars, calls, faults>>

\* consumer.commit({partition: offset + 1}); it raises, and the worker stops,
\* if the partition was taken away.
CommitOffset(w) ==
  /\ pc[w] = "offset"
  /\ \/ /\ assigned = w
        /\ committed' = cur[w] + 1
        /\ cur' = [cur EXCEPT ![w] = @ + 1]
        /\ pc' = [pc EXCEPT ![w] = IF cur[w] + 1 < last[w] THEN "accept" ELSE "claim"]
        /\ UNCHANGED <<log, assigned, inboxVars, rowVars, last, fetch, batchVars,
                       calls, faults>>
     \/ /\ assigned # w
        /\ Exit(w)
        /\ UNCHANGED faults

-----------------------------------------------------------------------------
Step(w) ==
  \/ Poll(w)
  \/ RejectPoison(w)
  \/ ClaimNotificationRequest(w)
  \/ AddChannelDeliveries(w)
  \/ ClaimDueDeliveries(w)
  \/ Deliver(w)
  \/ \E d \in Deliveries : ClaimConflict(w, d)
  \/ \E d \in Deliveries : ScheduleDeliveryRetry(w, d)
  \/ \E d \in Deliveries : OpenSettlement(w, d)
  \/ \E d \in Deliveries : CommitSettlement(w, d)
  \/ CommitOffset(w)

Next ==
  \/ \E m \in Messages : Publish(m) \/ InboxLeaseExpires(m)
  \/ \E d \in Deliveries : LeaseExpires(d) \/ RetryFallsDue(d)
  \/ \E w \in Workers : Rebalance(w) \/ Crash(w) \/ Restart(w) \/ Step(w)

Spec == Init /\ [][Next]_vars

-----------------------------------------------------------------------------
(* Safety *)

Siblings(m) == {d \in Deliveries : d[1] = m}

\* The rows of m, with states f, are settled with the mix of outcomes v names.
Reflects(v, f, m) ==
  /\ \A d \in Siblings(m) : f[d] \in DeliveryTerminal
  /\ v = "completed" => \A d \in Siblings(m) : f[d] = "delivered"
  /\ v = "dead_letter" => \A d \in Siblings(m) : f[d] = "dead_letter"
  /\ v = "completed_with_dead_letters" =>
       \E d, e \in Siblings(m) : f[d] = "delivered" /\ f[e] = "dead_letter"

\* A finished inbox row is the aggregate of finished deliveries: whatever the
\* interleaving of the transactions that settle the channels of a request, and
\* although they read each other's rows unlocked, _refresh_inbox_status never
\* records a terminal state too early or with the wrong mix of outcomes.
InboxAggregatesDeliveries ==
  \A m \in Messages :
    inbox[m] \in InboxTerminal => Reflects(inbox[m], status, m)

\* dead_letter_delivery commits the terminal state and its DLQ outbox intent
\* together: across crashes and lost claims neither exists without the other.
DeadLetterHasOutbox == dlq = {d \in Deliveries : status[d] = "dead_letter"}

\* Every unsettled row can still be claimed by someone: a waiting row has budget
\* and no owner, a scheduled retry has a time, and a row in process has an owner
\* and a lease that can run out.
NoStrandedRow ==
  \A d \in Deliveries :
    /\ status[d] \in {"pending", "retry_scheduled"} =>
         attempts[d] < MAX_DELIVERY_ATTEMPTS /\ owner[d] = None /\ lease[d] = "none"
    /\ status[d] = "retry_scheduled" => next[d] # "none"
    /\ status[d] = "processing" =>
         attempts[d] > 0 /\ owner[d] # None /\ lease[d] # "none"

\* A provider is called once per counted attempt; every further call is paid for
\* by a crash or by a batch that outlived its lease.  (A taken-over row does not
\* count an attempt, so with faults a channel can see more than the three sends
\* of the budget.)
SendsWithinBudget == \A d \in Deliveries : calls[d] <= attempts[d] + faults

\* The partition's committed offset never passes a record that is invalid or that
\* the inbox does not know: the worker stops on a malformed event instead of
\* discarding it, and commits only after the inbox claim has committed.
CommittedIsClaimed ==
  \A i \in 1..committed : log[i] \notin Poison /\ inbox[log[i]] # "absent"

\* A row in process is settled or rescheduled only by the batch that holds its
\* token: a worker whose lease was taken over while it was sending (claim
\* conflict) changes nothing, whatever it learned from the provider.
OnlyHolderSettles ==
  [][\A d \in Deliveries :
       status[d] = "processing" /\ status'[d] # "processing" =>
         \E w \in Workers :
           owner[d] = w /\ d \in batch[w] /\ d \notin batch'[w] /\ pc'[w] # "down"]_vars

\* The rows as their readers see them.
Lifecycle == INSTANCE DeliveryLifecycle WITH MaxAttempts <- MAX_DELIVERY_ATTEMPTS

\* The delivery tables implement the lifecycle: taking over an abandoned row,
\* losing a claim, crashing and replaying a record are invisible in it.
RefinesLifecycle == Lifecycle!Spec

\* Docstring of notification_delivery_worker: an offset is committed "only after
\* the corresponding database transition has committed".  The transition an
\* accepted request asks for is its delivery rows: once the offset is committed
\* they exist, or a live worker is about to insert them.
CommittedIsMaterialised ==
  \A i \in 1..committed :
    \/ \A d \in Siblings(log[i]) : status[d] # "absent"
    \/ \E w \in Workers : pc[w] = "materialise" /\ Record(w) = log[i]

-----------------------------------------------------------------------------
(* Liveness *)

\* Asyncio and the operating system run every live worker, stopped containers are
\* restarted, an ownerless partition is assigned, and time passes.  Leases that
\* run out under a working batch are faults, not fairness.
Fairness ==
  /\ \A w \in Workers : WF_vars(Step(w)) /\ WF_vars(Restart(w))
  /\ WF_vars(\E w \in Workers : assigned = None /\ Rebalance(w))
  /\ \A d \in Deliveries :
       /\ WF_vars(RetryFallsDue(d))
       /\ WF_vars(~Handled(d) /\ LeaseExpires(d))
  /\ \A m \in Messages : WF_vars(InboxLeaseExpires(m))

FairSpec == Spec /\ Fairness

Halted == \E i \in 1..Len(log) : log[i] \in Poison

\* Every materialised delivery is eventually delivered or dead-lettered, whatever
\* the providers answer and after any crash, unless an invalid record stops the
\* workers (they then stop again on every restart, before any delivery pass).
DeliveriesSettle ==
  \A d \in Deliveries :
    status[d] = "pending" ~> (status[d] \in DeliveryTerminal \/ Halted)

\* Every published record is eventually behind the committed offset: claims,
\* retries and skipped requests never hold up the partition.
PartitionDrains ==
  \A n \in 1..MaxLog : Len(log) >= n ~> (committed >= n \/ Halted)

\* When all channels of a request are settled, its inbox row eventually leaves
\* processing.
InboxSettles ==
  \A m \in Messages :
    (\A d \in Siblings(m) : status[d] \in DeliveryTerminal)
      ~> (inbox[m] \in InboxTerminal)
=============================================================================
