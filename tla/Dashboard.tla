------------------------------ MODULE Dashboard ------------------------------
(***************************************************************************)
(* The live stream of the Streamlit dashboard.  Every session of a browser *)
(* runs the page again after each click, and once a second while it is     *)
(* connected; a listener thread reads the WebSocket meanwhile and hands    *)
(* its messages over in a queue.                                           *)
(*                                                                         *)
(* The defaults of a session are put into it without a copy, so that all   *)
(* sessions of the process begin with the SAME list of messages: box tells *)
(* whether a session still has that list or one of its own.                *)
(***************************************************************************)
EXTENDS Integers, FiniteSets, Sequences

CONSTANTS
  Sessions,     \* sessions of browsers
  MaxThreads,   \* bound: listeners started, in all sessions
  MaxMessages,  \* bound: messages received, in all sessions
  MaxStream     \* config.max_stream_messages

VARIABLES
  logged,     \* auth.state.logged_in
  connected,  \* ws_connected
  stop,       \* the event that ends the listener
  handle,     \* ws_thread: number of the thread, 0 for none
  thread,     \* number -> session and state, of all threads started
  buf,        \* the queue from the listener to the page
  box,        \* "shared" or "own": the list that is ws_messages
  shared,     \* the list of the defaults
  own,        \* the session's own list
  page,       \* progress of the run of the page
  received,   \* messages received so far
  handed,     \* history: all that a session's listeners put into its queue
  cleared     \* history: sessions that pressed Clear

vars == <<logged, connected, stop, handle, thread, buf, box, shared, own, page,
          received, handed, cleared>>
lists == <<box, shared, own, cleared>>
session == <<logged, connected, handle, page>>

Threads == DOMAIN thread
IsAlive(n) == n # 0 /\ thread[n].state # "dead"
Listeners(s) == {n \in Threads : thread[n].of = s /\ IsAlive(n)}
Messages(s) == IF box[s] = "shared" THEN shared ELSE own[s]
Newest(seq, n) == SubSeq(seq, Len(seq) - n + 1, Len(seq))

-----------------------------------------------------------------------------
(* The sidebar.  Logging out leaves connection and listener as they are.    *)

DoLogin(s, ok) ==
  /\ page[s] = "idle" /\ ~logged[s]
  /\ logged' = [logged EXCEPT ![s] = ok]
  /\ UNCHANGED <<connected, stop, handle, thread, buf, lists, page, received, handed>>

Logout(s) ==
  /\ page[s] = "idle" /\ logged[s]
  /\ logged' = [logged EXCEPT ![s] = FALSE]
  /\ UNCHANGED <<connected, stop, handle, thread, buf, lists, page, received, handed>>

-----------------------------------------------------------------------------
(* One run of the page.                                                     *)

\* Mutant: the list is emptied instead of replaced.
ClearMessages_InPlace(s) ==
  /\ shared' = IF box[s] = "shared" THEN <<>> ELSE shared
  /\ own' = [own EXCEPT ![s] = <<>>]
  /\ cleared' = cleared \cup {s}
  /\ UNCHANGED box

ClearMessages(s) ==
  /\ box' = [box EXCEPT ![s] = "own"]
  /\ own' = [own EXCEPT ![s] = <<>>]
  /\ cleared' = cleared \cup {s}
  /\ UNCHANGED shared

\* Mutant: a listener that was told to stop counts as gone.
NeedsListener_OrStopped(s) == ~IsAlive(handle[s]) \/ stop[s]

NeedsListener(s) == ~IsAlive(handle[s])

\* The page up to the drain: the toggle, and a new listener where a connected
\* session has none.  The panel is shown to a logged-in session while cache and
\* WebSockets are available.
RenderLiveStream(s, toggle, clear) ==
  LET on == connected[s] # toggle
      starts == on /\ NeedsListener(s)
      new == Cardinality(Threads) + 1
  IN /\ page[s] = "idle" /\ logged[s]
     /\ starts => new <= MaxThreads
     /\ connected' = [connected EXCEPT ![s] = on]
     /\ stop' = [stop EXCEPT ![s] = (@ \/ (toggle /\ ~on)) /\ ~starts]
     /\ thread' = IF starts
                  THEN [n \in Threads \cup {new} |->
                          IF n = new THEN [of |-> s, state |-> "opening"] ELSE thread[n]]
                  ELSE thread
     /\ handle' = [handle EXCEPT ![s] = IF starts THEN new ELSE @]
     /\ page' = [page EXCEPT ![s] = IF on THEN "drain" ELSE "idle"]
     /\ IF clear THEN ClearMessages(s) ELSE UNCHANGED lists
     /\ UNCHANGED <<logged, buf, received, handed>>

\* What is in the queue is appended to the list that the session has; a list
\* of more than twice the limit is replaced by its newest messages.
Drain(s) ==
  LET all == Messages(s) \o buf[s]
      trim == Len(all) > 2 * MaxStream
  IN /\ page[s] = "drain"
     /\ buf' = [buf EXCEPT ![s] = <<>>]
     /\ shared' = IF box[s] = "shared" THEN all ELSE shared
     /\ own' = [own EXCEPT ![s] = CASE trim -> Newest(all, MaxStream)
                                    [] ~trim /\ box[s] = "own" -> all
                                    [] OTHER -> @]
     /\ box' = [box EXCEPT ![s] = IF trim THEN "own" ELSE @]
     /\ page' = [page EXCEPT ![s] = "end"]
     /\ UNCHANGED <<logged, connected, stop, handle, thread, received, handed, cleared>>

EndOfPage(s) ==
  /\ page[s] = "end"
  /\ connected' = [connected EXCEPT ![s] = @ /\ ~stop[s]]
  /\ page' = [page EXCEPT ![s] = "idle"]
  /\ UNCHANGED <<logged, stop, handle, thread, buf, lists, received, handed>>

-----------------------------------------------------------------------------
(* The listener.                                                            *)

Turns(n, states, to) ==
  /\ thread[n].state \in states
  /\ thread' = [thread EXCEPT ![n].state = to]
  /\ UNCHANGED <<session, lists>>

PutNowait(n, m) == LET s == thread[n].of
                   IN /\ buf' = [buf EXCEPT ![s] = Append(@, m)]
                      /\ handed' = [handed EXCEPT ![s] = Append(@, m)]

Message(n, k) == [of |-> thread[n].of, no |-> k]

Connects(n) == Turns(n, {"opening"}, "open") /\ UNCHANGED <<stop, buf, received, handed>>

\* The event is looked at when a message has arrived, and then not again.
Receives(n) ==
  /\ received < MaxMessages
  /\ Turns(n, {"open"}, IF stop[thread[n].of] THEN "dead" ELSE "got")
  /\ received' = received + 1
  /\ UNCHANGED <<stop, buf, handed>>

Puts(n) ==
  /\ Turns(n, {"got"}, "open")
  /\ PutNowait(n, Message(n, Len(handed[thread[n].of]) + 1))
  /\ UNCHANGED <<stop, received>>

\* The server ends the connection: the loop is over without an error.
Closes(n) == Turns(n, {"open"}, "dead") /\ UNCHANGED <<stop, buf, received, handed>>

\* A refused or broken connection leaves a message and then sets the event.
Fails(n) ==
  /\ Turns(n, {"opening", "open"}, "failing")
  /\ PutNowait(n, Message(n, Len(handed[thread[n].of]) + 1))
  /\ UNCHANGED <<stop, received>>

Gone(n) ==
  /\ Turns(n, {"failing"}, "dead")
  /\ stop' = [stop EXCEPT ![thread[n].of] = TRUE]
  /\ UNCHANGED <<buf, received, handed>>

-----------------------------------------------------------------------------
Init ==
  /\ logged = [s \in Sessions |-> FALSE] /\ connected = [s \in Sessions |-> FALSE]
  /\ stop = [s \in Sessions |-> FALSE]
  /\ handle = [s \in Sessions |-> 0] /\ thread = [n \in {} |-> 0]
  /\ buf = [s \in Sessions |-> <<>>]
  /\ box = [s \in Sessions |-> "shared"] /\ shared = <<>>
  /\ own = [s \in Sessions |-> <<>>]
  /\ page = [s \in Sessions |-> "idle"]
  /\ received = 0 /\ handed = [s \in Sessions |-> <<>>] /\ cleared = {}

PageStep(s) ==
  \/ \E ok \in BOOLEAN : DoLogin(s, ok)
  \/ Logout(s) \/ Drain(s) \/ EndOfPage(s)
  \/ \E toggle, clear \in BOOLEAN : ~(toggle /\ clear) /\ RenderLiveStream(s, toggle, clear)

ListenerStep(n) ==
  Connects(n) \/ Receives(n) \/ Puts(n) \/ Closes(n) \/ Fails(n) \/ Gone(n)

Next == (\E s \in Sessions : PageStep(s)) \/ (\E n \in Threads : ListenerStep(n))

Spec == Init /\ [][Next]_vars

-----------------------------------------------------------------------------
TypeOK ==
  /\ \A s \in Sessions : /\ page[s] \in {"idle", "drain", "end"}
                         /\ handle[s] \in Threads \cup {0}
                         /\ box[s] \in {"shared", "own"}
  /\ received <= MaxMessages

\* The positions at which a session shows messages of its own.
Mine(s) == {i \in DOMAIN Messages(s) : Messages(s)[i].of = s}

\* A session has one listener at most, however connects, disconnects and
\* failures follow each other while the old listener waits for a message; what
\* was handed over is shown or in the queue: the session's own messages are
\* shown in the order they were handed over and, since its last Clear or
\* trimming, without a gap up to those in the queue; and after a Clear no
\* message of another session is shown, although all sessions begin with one
\* list (use_ws_connection, _SESSION_DEFAULTS).
ShowsOwnStream ==
  \A s \in Sessions :
    LET list == Messages(s)
        drained == Len(handed[s]) - Len(buf[s])
    IN /\ Cardinality(Listeners(s)) <= 1
       /\ buf[s] = SubSeq(handed[s], drained + 1, Len(handed[s]))
       /\ \A i \in Mine(s) : list[i].no \in 1..drained /\ list[i] = handed[s][list[i].no]
       /\ \A i, j \in Mine(s) : i < j => list[i].no < list[j].no
       /\ \A i \in Mine(s), k \in 1..drained :
            list[i].no <= k => \E j \in Mine(s) : list[j].no = k
       /\ s \in cleared => Mine(s) = DOMAIN list
=============================================================================
