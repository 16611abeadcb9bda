---------------------------- MODULE EventStream ----------------------------
(***************************************************************************)
(* The events of the ingestor on their way out: to Kafka (events.py), to   *)
(* the Redis channel ingestor:events (pubsub.py) and from there to the     *)
(* browsers on /ws/observations/stream (api/routes/ws.py).                 *)
(*                                                                         *)
(* Redis is external: a message goes to the connections subscribed at that *)
(* moment, in order, and to nobody later.  The circuit breaker around      *)
(* _send_to_kafka is module CircuitBreaker's decorated style; here a send  *)
(* has one of its outcomes.                                                *)
(***************************************************************************)
EXTENDS Naturals, Sequences, FiniteSets

CONSTANTS Clients,      \* WebSocket connections
          MaxEvents     \* bound on the events published

VARIABLES
  producer,    \* events._producer is connected
  pubsub,      \* pubsub._pubsub_client is connected
  cache,       \* settings.cache_enabled
  auth,        \* settings.jwt_secret is set
  kafka,       \* events Kafka acknowledged
  publishing,  \* the event on its way from Kafka to Redis, 0 if none
  channel,     \* events published on ingestor:events, in order
  made,        \* events made so far
  ws,          \* each connection's handler
  active,      \* _manager._active
  queue,       \* each subscription's undelivered messages
  got,         \* what each client received
  joined,      \* history: Len(channel) when the client's subscription began
  gone         \* clients that have closed and whose handler does not know yet

producerVars == <<producer, pubsub, kafka, publishing, channel, made>>
clientVars == <<ws, active, got, joined, gone>>
streamVars == <<producerVars, clientVars, queue, cache, auth>>

Init ==
  /\ producer \in BOOLEAN /\ pubsub \in BOOLEAN
  /\ cache \in BOOLEAN /\ auth \in BOOLEAN
  /\ pubsub => cache
  /\ kafka = {} /\ publishing = 0 /\ channel = <<>> /\ made = 0
  /\ ws = [w \in Clients |-> "none"]
  /\ active = {} /\ gone = {}
  /\ queue = [w \in Clients |-> <<>>]
  /\ got = [w \in Clients |-> <<>>]
  /\ joined = [w \in Clients |-> 0]

----------------------------------------------------------------------------
(* Publishing                                                              *)

DisconnectProducer ==
  /\ producer
  /\ producer' = FALSE
  /\ UNCHANGED <<pubsub, kafka, publishing, channel, made, clientVars, queue, cache, auth>>

ConnectPubsub ==
  /\ cache /\ ~pubsub
  /\ pubsub' = TRUE
  /\ UNCHANGED <<producer, kafka, publishing, channel, made, clientVars, queue, cache, auth>>

DisconnectPubsub ==
  /\ pubsub
  /\ pubsub' = FALSE
  /\ UNCHANGED <<producer, kafka, publishing, channel, made, clientVars, queue, cache, auth>>

\* publish_observation_created: without a producer it returns at once, and
\* the Redis channel does not get the event either.  KafkaError and
\* CircuitOpenError are logged; any other exception leaves the function
\* before the channel is reached.
PublishObservationCreated ==
  /\ made < MaxEvents /\ publishing = 0
  /\ producer
  /\ made' = made + 1
  /\ \/ kafka' = kafka \cup {made'} /\ publishing' = made'
     \/ UNCHANGED kafka /\ publishing' = made'
     \/ UNCHANGED <<kafka, publishing>>
  /\ UNCHANGED <<producer, pubsub, channel, clientVars, queue, cache, auth>>

\* publish_doc_scraped goes to Kafka alone, publish_event_bytes is the
\* outbox's way (module Outbox).
PublishDocScraped ==
  /\ made < MaxEvents /\ publishing = 0
  /\ producer
  /\ made' = made + 1
  /\ kafka' \in {kafka, kafka \cup {made'}}
  /\ UNCHANGED <<producer, pubsub, publishing, channel, clientVars, queue, cache, auth>>

Subscribed == {w \in Clients : ws[w] \in {"streaming", "abandoned"}}

\* PUBLISH, one copy per subscription; a failure is logged and swallowed.
Deliver(event) ==
  /\ channel' = Append(channel, event)
  /\ queue' = [w \in Clients |->
                 IF w \in Subscribed THEN Append(queue[w], event) ELSE queue[w]]

PublishEvent ==
  /\ publishing # 0
  /\ publishing' = 0
  /\ \/ pubsub /\ Deliver(publishing)
     \/ UNCHANGED <<channel, queue>>
  /\ UNCHANGED <<producer, pubsub, kafka, made, clientVars, cache, auth>>

\* publish_job_progress and publish_drift_event go straight to the channel.
PublishDirect ==
  /\ made < MaxEvents /\ pubsub
  /\ made' = made + 1
  /\ Deliver(made')
  /\ UNCHANGED <<producer, pubsub, kafka, publishing, clientVars, cache, auth>>

----------------------------------------------------------------------------
(* observations_stream                                                     *)

\* The handshake: without a token 4001, with a bad one 4003, nothing else
\* changes.  Otherwise the socket is accepted and registered.
Accepts(token) == ~auth \/ token = "valid"

Connect(w, token) ==
  /\ ws[w] = "none"
  /\ IF Accepts(token)
     THEN /\ active' = active \cup {w}
          /\ ws' = [ws EXCEPT ![w] = IF cache THEN "accepted" ELSE "idling"]
     ELSE /\ ws' = [ws EXCEPT ![w] = "closed"]
          /\ UNCHANGED active
  /\ UNCHANGED <<producerVars, got, joined, gone, queue, cache, auth>>

\* subscribe_events, in the reader task.
SubscribeEvents(w) ==
  /\ ws[w] = "accepted"
  /\ ws' = [ws EXCEPT ![w] = "streaming"]
  /\ joined' = [joined EXCEPT ![w] = Len(channel)]
  /\ UNCHANGED <<producerVars, active, got, gone, queue, cache, auth>>

\* The finally of observations_stream.
Leave(w, place) ==
  /\ ws' = [ws EXCEPT ![w] = place]
  /\ active' = active \ {w}

\* Mutant: the reader logs the failed send and goes on with the next event.
SendFails_GoesOn(w) == UNCHANGED <<ws, active, got>>

\* A send that fails ends the reader; the generator it abandons at its
\* yield keeps the subscription until the event loop finalises it.
SendFails(w) ==
  /\ Leave(w, "abandoned")
  /\ UNCHANGED got

\* A send to a live client can fail too.
Reader(w) ==
  /\ ws[w] = "streaming" /\ queue[w] # <<>>
  /\ queue' = [queue EXCEPT ![w] = Tail(@)]
  /\ \/ /\ w \notin gone
        /\ got' = [got EXCEPT ![w] = Append(@, Head(queue[w]))]
        /\ UNCHANGED <<ws, active>>
     \/ SendFails(w)
  /\ UNCHANGED <<producerVars, joined, gone, cache, auth>>

\* The ping is the only other send, in _stream_events and in
\* _idle_until_disconnect; it finds out that the client is gone.  A Redis
\* error in listen() ends the reader the same way.  asyncio.wait returns
\* and the other task is cancelled, which closes the generator.
PingFails(w) ==
  /\ ws[w] \in {"streaming", "idling"}
  /\ w \in gone
  /\ Leave(w, "closed")
  /\ queue' = [queue EXCEPT ![w] = <<>>]
  /\ UNCHANGED <<producerVars, got, joined, gone, cache, auth>>

ListenFails(w) ==
  /\ ws[w] \in {"accepted", "streaming"}
  /\ Leave(w, "closed")
  /\ queue' = [queue EXCEPT ![w] = <<>>]
  /\ UNCHANGED <<producerVars, got, joined, gone, cache, auth>>

\* The abandoned generator's finally: unsubscribe, close.
Unsubscribe(w) ==
  /\ ws[w] = "abandoned"
  /\ ws' = [ws EXCEPT ![w] = "closed"]
  /\ queue' = [queue EXCEPT ![w] = <<>>]
  /\ UNCHANGED <<producerVars, active, got, joined, gone, cache, auth>>

\* The browser closes; nothing in the handler receives, so it goes unseen.
ClientCloses(w) ==
  /\ w \in active /\ w \notin gone
  /\ gone' = gone \cup {w}
  /\ UNCHANGED <<producerVars, ws, active, got, joined, queue, cache, auth>>

----------------------------------------------------------------------------

Next ==
  \/ DisconnectProducer \/ ConnectPubsub \/ DisconnectPubsub
  \/ PublishObservationCreated \/ PublishDocScraped \/ PublishEvent \/ PublishDirect
  \/ \E w \in Clients :
       \/ \E token \in {"none", "invalid", "valid"} : Connect(w, token)
       \/ SubscribeEvents(w) \/ Reader(w) \/ PingFails(w) \/ ListenFails(w)
       \/ Unsubscribe(w) \/ ClientCloses(w)

Spec == Init /\ [][Next]_streamVars

----------------------------------------------------------------------------

TypeOK ==
  /\ ws \in [Clients -> {"none", "accepted", "streaming", "idling", "abandoned",
                         "closed"}]
  /\ active \subseteq Clients /\ gone \subseteq Clients
  /\ kafka \subseteq 1..MaxEvents /\ publishing \in 0..MaxEvents
  /\ \A w \in Clients : joined[w] <= Len(channel)
  /\ made \in 0..MaxEvents

\* While a client is connected, what it has received and what waits for it
\* are together exactly the events of the channel since its subscription
\* began, in order: no gap after a failed send, no duplicate, nothing from
\* before (pubsub.py:198-247, ws.py:172-229).
StreamHasNoGaps ==
  \A w \in Clients :
    ws[w] = "streaming" =>
      got[w] \o queue[w] = SubSeq(channel, joined[w] + 1, Len(channel))

\* The connection registry holds exactly the handlers that still run, on
\* every way out of the handler, and a subscription outlives its handler
\* only between the reader's return and the closing of its generator.
RegistryIsExact ==
  \A w \in Clients :
    /\ w \in active <=> ws[w] \in {"accepted", "streaming", "idling"}
    /\ queue[w] # <<>> => ws[w] \in {"streaming", "abandoned"}

=============================================================================
