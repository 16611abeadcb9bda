------------------------------- MODULE Outbox -------------------------------
(***************************************************************************)
(* The transactional outbox: application transactions insert rows keyed by *)
(* an idempotency key, and the publisher loops of any number of ingestor   *)
(* processes claim unpublished rows in leased batches, send them to the    *)
(* broker and record the outcome.                                          *)
(*                                                                         *)
(* mark_outbox_published and mark_outbox_publish_failed read the row by    *)
(* its token without locking it and write it by primary key, so the read   *)
(* (MarkRead) and the write (MarkCommit) are separate steps.  The session  *)
(* writes only the columns whose value it changed.                         *)
(*                                                                         *)
(* Leases and retry times are abstracted as in NotificationDelivery, and   *)
(* so is the claim token: the publisher stands for the token of its batch. *)
(***************************************************************************)
EXTENDS Naturals, FiniteSets

CONSTANTS
  Events,        \* idempotency keys
  Publishers,    \* processes running run_notification_outbox_publisher
  None,          \* no publisher
  BatchLimit,    \* batch_limit
  MaxSends,      \* bound: where the counter of broker records saturates
  MaxFaults      \* bound: failed sends, aborted batches and overrun leases

ASSUME PublishersAssumption == IsFiniteSet(Publishers) /\ None \notin Publishers
ASSUME LimitsAssumption ==
  /\ IsFiniteSet(Events)
  /\ BatchLimit \in Nat \ {0}
  /\ MaxSends \in Nat \ {0}
  /\ MaxFaults \in Nat

VARIABLES
  rank,        \* primary key of the row, 0 before it is inserted
  published,   \* published_at is set
  owner,       \* claim_token
  lease,       \* lease_expires_at
  next,        \* next_attempt_at
  pc,          \* a publisher's place in its batch
  batch,       \* the events of its batch still to handle
  outcome,     \* what the broker answered for the current event
  topic,       \* external: how many times the broker stored the event
  faults

rowVars == <<rank, published, owner, lease, next>>
vars == <<rowVars, pc, batch, outcome, topic, faults>>

Lease == {"none", "live", "expired"}

TypeOK ==
  /\ rank \in [Events -> Nat]
  /\ published \in [Events -> BOOLEAN]
  /\ owner \in [Events -> Publishers \cup {None}]
  /\ lease \in [Events -> Lease]
  /\ next \in [Events -> {"none", "later", "due"}]
  /\ pc \in [Publishers -> {"idle", "publish", "mark", "commit"}]
  /\ batch \in [Publishers -> SUBSET Events]
  /\ outcome \in [Publishers -> {"sent", "failed"}]
  /\ topic \in [Events -> 0..MaxSends]
  /\ faults \in 0..MaxFaults

Init ==
  /\ rank = [e \in Events |-> 0]
  /\ published = [e \in Events |-> FALSE]
  /\ owner = [e \in Events |-> None]
  /\ lease = [e \in Events |-> "none"]
  /\ next = [e \in Events |-> "none"]
  /\ pc = [p \in Publishers |-> "idle"]
  /\ batch = [p \in Publishers |-> {}]
  /\ outcome = [p \in Publishers |-> "failed"]
  /\ topic = [e \in Events |-> 0]
  /\ faults = 0

Fault == faults < MaxFaults /\ faults' = faults + 1

Inserted(e) == rank[e] > 0

-----------------------------------------------------------------------------
(* Application transactions and the clock *)

\* add_outbox_event, committed with the caller's transaction; a key that is
\* already there inserts nothing.
AddOutboxEvent(e) ==
  /\ ~Inserted(e)
  /\ rank' = [rank EXCEPT ![e] = 1 + Cardinality({x \in Events : Inserted(x)})]
  /\ UNCHANGED <<published, owner, lease, next, pc, batch, outcome, topic, faults>>

\* The batch that holds the event is still running.
Handled(e) == \E p \in Publishers : owner[e] = p /\ e \in batch[p]

LeaseExpires(e) ==
  /\ lease[e] = "live"
  /\ IF Handled(e) THEN Fault ELSE UNCHANGED faults
  /\ lease' = [lease EXCEPT ![e] = "expired"]
  /\ UNCHANGED <<rank, published, owner, next, pc, batch, outcome, topic>>

RetryFallsDue(e) ==
  /\ next[e] = "later"
  /\ next' = [next EXCEPT ![e] = "due"]
  /\ UNCHANGED <<rank, published, owner, lease, pc, batch, outcome, topic, faults>>

-----------------------------------------------------------------------------
(* publish_notification_outbox_batch *)

\* Mutant: the claim does not look at the lease of another publisher.
Claimable_IgnoresLease ==
  {e \in Events : Inserted(e) /\ ~published[e] /\ next[e] # "later"}

\* Mutant: a failed publication is never due again.
Claimable_NoRetry ==
  {e \in Events : /\ Inserted(e) /\ ~published[e]
                  /\ next[e] = "none"
                  /\ lease[e] # "live"}

\* The WHERE clause of claim_pending_outbox_events.
Claimable ==
  {e \in Events : /\ Inserted(e) /\ ~published[e]
                  /\ next[e] # "later"
                  /\ lease[e] # "live"}

\* ORDER BY id LIMIT BatchLimit.
FirstRows(S) == {e \in S : Cardinality({x \in S : rank[x] < rank[e]}) < BatchLimit}

ClaimPendingOutboxEvents(p) ==
  /\ pc[p] = "idle"
  /\ Claimable # {}
  /\ LET rows == FirstRows(Claimable)
     IN  /\ owner' = [e \in Events |-> IF e \in rows THEN p ELSE owner[e]]
         /\ lease' = [e \in Events |-> IF e \in rows THEN "live" ELSE lease[e]]
         /\ batch' = [batch EXCEPT ![p] = rows]
  /\ pc' = [pc EXCEPT ![p] = "publish"]
  /\ UNCHANGED <<rank, published, next, outcome, topic, faults>>

\* The loop handles the batch in primary-key order.
IsHead(p, e) == e \in batch[p] /\ \A x \in batch[p] : rank[e] <= rank[x]

Stored(e) == topic' = [topic EXCEPT ![e] = IF @ < MaxSends THEN @ + 1 ELSE @]

\* Mutant: a timed-out send is taken for a delivery.
Publish_TimeoutIsSuccess(p, e) ==
  /\ pc[p] = "publish"
  /\ IsHead(p, e)
  /\ \/ Stored(e) /\ UNCHANGED faults
     \/ Fault /\ UNCHANGED topic
  /\ outcome' = [outcome EXCEPT ![p] = "sent"]
  /\ pc' = [pc EXCEPT ![p] = "mark"]
  /\ UNCHANGED <<rowVars, batch>>

\* Mutant: an outcome that neither mark of the loop handles.
Publish_UnhandledOutcome(p, e) ==
  /\ pc[p] = "publish"
  /\ IsHead(p, e)
  /\ Fault
  /\ outcome' = [outcome EXCEPT ![p] = "timeout"]
  /\ pc' = [pc EXCEPT ![p] = "mark"]
  /\ UNCHANGED <<rowVars, batch, topic>>

\* The send under asyncio.timeout: it succeeds; it fails (no producer, open
\* circuit, broker error); or it times out although the broker stored the event.
Publish(p, e) ==
  /\ pc[p] = "publish"
  /\ IsHead(p, e)
  /\ \/ /\ Stored(e)
        /\ outcome' = [outcome EXCEPT ![p] = "sent"]
        /\ UNCHANGED faults
     \/ /\ Fault
        /\ outcome' = [outcome EXCEPT ![p] = "failed"]
        /\ Stored(e) \/ UNCHANGED topic
  /\ pc' = [pc EXCEPT ![p] = "mark"]
  /\ UNCHANGED <<rowVars, batch>>

\* Control after event e is dealt with.
Done(p, e) ==
  /\ batch' = [batch EXCEPT ![p] = @ \ {e}]
  /\ pc' = [pc EXCEPT ![p] = IF batch[p] = {e} THEN "idle" ELSE "publish"]
  /\ outcome' = [outcome EXCEPT ![p] = "failed"]

\* The SELECT by id and token, without a lock: a row taken over by another
\* publisher is a claim conflict.
MarkRead(p, e) ==
  /\ pc[p] = "mark"
  /\ IsHead(p, e)
  /\ \/ /\ owner[e] = p
        /\ pc' = [pc EXCEPT ![p] = "commit"]
        /\ UNCHANGED <<batch, outcome>>
     \/ /\ owner[e] # p
        /\ Done(p, e)
  /\ UNCHANGED <<rowVars, topic, faults>>

\* Mutant: published_at = None is written although the session loaded None.
MarkCommit_WritesNull(p, e) ==
  /\ pc[p] = "commit"
  /\ IsHead(p, e)
  /\ published' = [published EXCEPT ![e] = outcome[p] = "sent"]
  /\ next' = [next EXCEPT ![e] = IF outcome[p] = "sent" THEN "none" ELSE "later"]
  /\ owner' = [owner EXCEPT ![e] = None]
  /\ lease' = [lease EXCEPT ![e] = "none"]
  /\ Done(p, e)
  /\ UNCHANGED <<rank, topic, faults>>

\* The UPDATE by primary key.  After a failure published_at keeps its value: the
\* session had loaded None and assigns None.
MarkCommit(p, e) ==
  /\ pc[p] = "commit"
  /\ IsHead(p, e)
  /\ \/ /\ outcome[p] = "sent"
        /\ published' = [published EXCEPT ![e] = TRUE]
        /\ next' = [next EXCEPT ![e] = "none"]
     \/ /\ outcome[p] = "failed"
        /\ next' = [next EXCEPT ![e] = "later"]
        /\ UNCHANGED published
  /\ owner' = [owner EXCEPT ![e] = None]
  /\ lease' = [lease EXCEPT ![e] = "none"]
  /\ Done(p, e)
  /\ UNCHANGED <<rank, topic, faults>>

\* The batch ends early: the process dies, the task is cancelled, or a database
\* error reaches the loop, which logs it and starts over.
Abort(p) ==
  /\ pc[p] # "idle"
  /\ Fault
  /\ pc' = [pc EXCEPT ![p] = "idle"]
  /\ batch' = [batch EXCEPT ![p] = {}]
  /\ outcome' = [outcome EXCEPT ![p] = "failed"]
  /\ UNCHANGED <<rowVars, topic>>

-----------------------------------------------------------------------------
Step(p) ==
  \/ ClaimPendingOutboxEvents(p)
  \/ \E e \in Events : Publish(p, e) \/ MarkRead(p, e) \/ MarkCommit(p, e)

Next ==
  \/ \E e \in Events : AddOutboxEvent(e) \/ LeaseExpires(e) \/ RetryFallsDue(e)
  \/ \E p \in Publishers : Step(p) \/ Abort(p)

Spec == Init /\ [][Next]_vars

\* The loops run and time passes; leases that run out under a running batch and
\* failures are faults, not fairness.
Fairness ==
  /\ \A p \in Publishers : WF_vars(Step(p))
  /\ \A e \in Events : WF_vars(RetryFallsDue(e)) /\ WF_vars(~Handled(e) /\ LeaseExpires(e))

FairSpec == Spec /\ Fairness

-----------------------------------------------------------------------------
\* An event marked published is in the topic: no interleaving of stale marks,
\* timeouts and aborted batches turns an event nobody sent into a published one.
PublishedWasSent == \A e \in Events : published[e] => topic[e] > 0

\* A published row stays published, although a publisher that lost its lease may
\* still write the failure of its own attempt to it (mark_outbox_publish_failed).
PublishedIsFinal == [][\A e \in Events : published[e] => published'[e]]_vars

\* The broker stores an event once; every duplicate is paid for by a fault
\* (ambiguous timeout, aborted batch, lease overrun by its batch).
DuplicatesNeedFaults == \A e \in Events : topic[e] <= 1 + faults

\* Every inserted event is eventually published, once failures stop.
EventsGetPublished == \A e \in Events : Inserted(e) ~> published[e]
=============================================================================
