-------------------------- MODULE ProcessedEvents --------------------------
(***************************************************************************)
(* The processed_events table (services/ingestor/storage/events.py): the   *)
(* idempotent insert, the batch insert, the claim of pending rows, and the *)
(* status marks.  The functions have no caller in this repository; the     *)
(* consumers here claim batches, mark what they process, and put any row   *)
(* into processing by mark_event_processing, which checks nothing.  A      *)
(* consumer is one session: it makes its calls one after the other.  READ  *)
(* COMMITTED lets two sessions interleave between the SELECT and the       *)
(* commit except where rows are locked.                                    *)
(***************************************************************************)
EXTENDS Naturals, FiniteSets

CONSTANTS Keys,        \* idempotency keys of the events Kafka delivers
          Consumers,
          BatchSize,   \* batch_size of claim_pending_events
          MaxMarks,    \* bound on the calls of mark_event_processing
          MaxCrashes   \* bound on consumer crashes

VARIABLES
  status,    \* ProcessedEvent.status by key; "absent" before the insert
  attempts,  \* processing_attempts
  dlq,       \* dead_letter_queue
  held,      \* events each consumer is processing
  read,      \* the row a consumer has read and not yet committed
  starts,    \* history: how often the processing of each event began
  raced,     \* history: events marked processing while another consumer had them
  claims,    \* history: how often claim_pending_events took each event
  crashed,   \* history: events held by a consumer that died
  marks, crashes

eventVars == <<status, attempts, dlq, held, read, starts, raced, claims, crashed,
               marks, crashes>>

Stored == {"pending", "processing", "completed", "failed", "dead_letter"}
Nothing == [key |-> "none", status |-> "absent", attempts |-> 0]

Init ==
  /\ status = [k \in Keys |-> "absent"]
  /\ attempts = [k \in Keys |-> 0]
  /\ dlq = {}
  /\ held = [c \in Consumers |-> {}]
  /\ read = [c \in Consumers |-> Nothing]
  /\ starts = [k \in Keys |-> 0]
  /\ raced = {}
  /\ claims = [k \in Keys |-> 0]
  /\ crashed = {} /\ marks = 0 /\ crashes = 0

Idle(c) == read[c] = Nothing

\* A consumer between the read and the commit of mark_event_processing(k).
BeingRead(k) == \E d \in Consumers : read[d].key = k

----------------------------------------------------------------------------

\* create_processed_event: the unique index decides; a duplicate delivery
\* changes nothing and returns the row.
CreateProcessedEvent(k) ==
  /\ status[k] = "absent"
  /\ status' = [status EXCEPT ![k] = "pending"]
  /\ UNCHANGED <<attempts, dlq, held, read, starts, raced, claims, crashed, marks, crashes>>

\* batch_create_processed_events: one INSERT; any duplicate fails it all.
BatchCreateProcessedEvents(batch) ==
  /\ batch # {}
  /\ \A k \in batch : status[k] = "absent"
  /\ status' = [k \in Keys |-> IF k \in batch THEN "pending" ELSE status[k]]
  /\ UNCHANGED <<attempts, dlq, held, read, starts, raced, claims, crashed, marks, crashes>>

\* Mutant: rows another consumer has already claimed are claimed again.
Claimable_Unfinished(k) == status[k] \in {"pending", "processing"}

\* SELECT ... FOR UPDATE SKIP LOCKED and the commit are one step: a second
\* claimer skips the rows this one has locked.
Claimable(k) == status[k] = "pending"

ClaimPendingEvents(c) ==
  \E batch \in SUBSET {k \in Keys : Claimable(k)} :
    /\ Idle(c)
    /\ batch # {} /\ Cardinality(batch) <= BatchSize
    /\ status' = [k \in Keys |-> IF k \in batch THEN "processing" ELSE status[k]]
    /\ attempts' = [k \in Keys |-> IF k \in batch THEN attempts[k] + 1 ELSE attempts[k]]
    /\ starts' = [k \in Keys |-> IF k \in batch THEN starts[k] + 1 ELSE starts[k]]
    /\ claims' = [k \in Keys |-> IF k \in batch THEN claims[k] + 1 ELSE claims[k]]
    /\ held' = [held EXCEPT ![c] = @ \cup batch]
    /\ raced' = raced \cup {k \in batch : BeingRead(k)}
    /\ UNCHANGED <<dlq, read, crashed, marks, crashes>>

\* mark_event_processing: session.get of the row whatever its status is,
\* without a lock, and then the write of what was computed from it.
MarkEventProcessing(c, k) ==
  /\ Idle(c)
  /\ status[k] \in Stored
  /\ marks < MaxMarks /\ marks' = marks + 1
  /\ read' = [read EXCEPT ![c] = [key |-> k, status |-> status[k], attempts |-> attempts[k]]]
  /\ raced' = IF BeingRead(k) \/ \E d \in Consumers \ {c} : k \in held[d]
              THEN raced \cup {k} ELSE raced
  /\ UNCHANGED <<status, attempts, dlq, held, starts, claims, crashed, crashes>>

\* Only the columns that differ from the row as read are written.
CommitProcessing(c) ==
  LET k == read[c].key IN
  /\ read[c] # Nothing
  /\ status' = IF read[c].status = "processing" THEN status
               ELSE [status EXCEPT ![k] = "processing"]
  /\ attempts' = [attempts EXCEPT ![k] = read[c].attempts + 1]
  /\ starts' = [starts EXCEPT ![k] = @ + 1]
  /\ held' = [held EXCEPT ![c] = @ \cup {k}]
  /\ read' = [read EXCEPT ![c] = Nothing]
  /\ UNCHANGED <<dlq, raced, claims, crashed, marks, crashes>>

\* The three marks write their status over whatever is there; their read and
\* their commit are one step, as only raced events change in between.
Mark(c, k, outcome) ==
  /\ Idle(c)
  /\ k \in held[c]
  /\ status' = [status EXCEPT ![k] = outcome]
  /\ held' = [held EXCEPT ![c] = @ \ {k}]
  /\ UNCHANGED <<attempts, read, starts, raced, claims, crashed, marks, crashes>>

MarkEventCompleted(c, k) == Mark(c, k, "completed") /\ UNCHANGED dlq

MarkEventFailed(c, k) == Mark(c, k, "failed") /\ UNCHANGED dlq

MarkEventDlq(c, k) == Mark(c, k, "dead_letter") /\ dlq' = dlq \cup {k}

\* The consumer dies; its events stay "processing": no lease expires and no
\* query looks for them.
ConsumerCrashes(c) ==
  /\ crashes < MaxCrashes
  /\ crashes' = crashes + 1
  /\ held' = [held EXCEPT ![c] = {}]
  /\ read' = [read EXCEPT ![c] = Nothing]
  /\ crashed' = crashed \cup held[c]
  /\ UNCHANGED <<status, attempts, dlq, starts, raced, claims, marks>>

----------------------------------------------------------------------------

Next ==
  \/ \E k \in Keys : CreateProcessedEvent(k)
  \/ \E batch \in SUBSET Keys : BatchCreateProcessedEvents(batch)
  \/ \E c \in Consumers : \/ ClaimPendingEvents(c)
                          \/ CommitProcessing(c)
                          \/ ConsumerCrashes(c)
  \/ \E c \in Consumers, k \in Keys :
       \/ MarkEventProcessing(c, k) \/ MarkEventCompleted(c, k)
       \/ MarkEventFailed(c, k) \/ MarkEventDlq(c, k)

Spec == Init /\ [][Next]_eventVars

----------------------------------------------------------------------------

TypeOK ==
  /\ status \in [Keys -> Stored \cup {"absent"}]
  /\ attempts \in [Keys -> Nat]
  /\ dlq \subseteq Keys
  /\ held \in [Consumers -> SUBSET Keys]
  /\ \A c \in Consumers : read[c].key \in Keys \cup {"none"}
  /\ starts \in [Keys -> Nat]
  /\ raced \subseteq Keys /\ crashed \subseteq Keys
  /\ claims \in [Keys -> Nat]

\* An event is claimed once in its life, and its counter never exceeds the
\* number of times its processing began.  The two are equal, and one consumer
\* at most has the event, unless a mark_event_processing overlapped another
\* consumer's use of it.  And an event that is processing without a consumer
\* was held by one that died, or raced: nothing else leaves it behind, and no
\* claim fetches it back (events.py:119-291).
ProcessingHasOwner ==
  \A k \in Keys :
    LET owners == {c \in Consumers : k \in held[c]} IN
    /\ claims[k] <= 1
    /\ attempts[k] <= starts[k]
    /\ k \notin raced => Cardinality(owners) <= 1 /\ attempts[k] = starts[k]
    /\ status[k] = "processing" /\ owners = {} => k \in crashed \cup raced

=============================================================================
