---------------------------- MODULE MCMessaging ----------------------------
(***************************************************************************)
(* What leaves and enters the service: the outbox and its publishers, the  *)
(* stream of events to WebSocket clients and the table of consumed events. *)
(* They share no state, so that a behaviour follows the one that the       *)
(* variable part names and leaves the others at their initial state.       *)
(***************************************************************************)
EXTENDS Outbox

CONSTANTS
  Clients, MaxEvents,                                  \* of the stream
  Keys, Consumers, ClaimSize, MaxMarks, MaxCrashes     \* of the consumed events

\* "none" is the key that is no key.
ASSUME StreamAssumption == MaxEvents \in Nat
ASSUME ConsumerAssumption == "none" \notin Keys

VARIABLE part

VARIABLES
  esProducer, esPubsub, esCache, esAuth, esKafka, esPublishing, esChannel, esMade, esWs,
  esActive, esQueue, esGot, esJoined, esGone

ES == INSTANCE EventStream WITH
  Clients <- Clients, MaxEvents <- MaxEvents, producer <- esProducer, pubsub <- esPubsub,
  cache <- esCache, auth <- esAuth, kafka <- esKafka, publishing <- esPublishing,
  channel <- esChannel, made <- esMade, ws <- esWs, active <- esActive,
  queue <- esQueue, got <- esGot, joined <- esJoined, gone <- esGone

VARIABLES
  peStatus, peAttempts, peDlq, peHeld, peRead, peStarts, peRaced, peClaims, peCrashed,
  peMarks, peCrashes

PE == INSTANCE ProcessedEvents WITH
  Keys <- Keys, Consumers <- Consumers, BatchSize <- ClaimSize,
  MaxMarks <- MaxMarks, MaxCrashes <- MaxCrashes, status <- peStatus,
  attempts <- peAttempts, dlq <- peDlq, held <- peHeld, read <- peRead,
  starts <- peStarts, raced <- peRaced, claims <- peClaims, crashed <- peCrashed,
  marks <- peMarks, crashes <- peCrashes

-----------------------------------------------------------------------------
streamVars ==
  <<esProducer, esPubsub, esCache, esAuth, esKafka, esPublishing, esChannel, esMade,
    esWs, esActive, esQueue, esGot, esJoined, esGone>>
consumerVars ==
  <<peStatus, peAttempts, peDlq, peHeld, peRead, peStarts, peRaced, peClaims, peCrashed,
    peMarks, peCrashes>>
allVars == <<part, vars, streamVars, consumerVars>>

\* The settings of the stream do not vary where it is not followed.
MCInit ==
  /\ part \in {"outbox", "stream", "consumer"}
  /\ Init /\ ES!Init /\ PE!Init
  /\ part # "stream" => esProducer /\ esPubsub /\ esCache /\ esAuth

MCNext ==
  /\ UNCHANGED part
  /\ \/ part = "outbox" /\ Next /\ UNCHANGED <<streamVars, consumerVars>>
     \/ part = "stream" /\ ES!Next /\ UNCHANGED <<vars, consumerVars>>
     \/ part = "consumer" /\ PE!Next /\ UNCHANGED <<vars, streamVars>>

MCSpec == MCInit /\ [][MCNext]_allVars /\ (part = "outbox" => Fairness)

-----------------------------------------------------------------------------
\* A WebSocket client gets every event of the channel since it subscribed, in
\* order, and the registry of connections is the handlers that still run
\* (pubsub.py subscribe_events, api/routes/ws.py).
StreamHasNoGaps == ES!TypeOK /\ ES!StreamHasNoGaps /\ ES!RegistryIsExact

\* An event is claimed once, has one owner unless a mark_event_processing
\* overlapped another consumer's use of it, and is left in processing only by
\* such a race or a consumer that died (storage/events.py).
ProcessingHasOwner == PE!TypeOK /\ PE!ProcessingHasOwner
=============================================================================
