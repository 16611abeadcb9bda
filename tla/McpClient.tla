------------------------------ MODULE McpClient ------------------------------
(***************************************************************************)
(* The MCP server's client of the ingestor: tool calls that share one      *)
(* cached access token on one event loop.  Code between two awaits is one  *)
(* step.  A token is the number of the login that issued it; the deadline  *)
(* of the cache is local, whether the ingestor accepts a token is not.     *)
(***************************************************************************)
EXTENDS Naturals, FiniteSets

CONSTANTS
  Callers,      \* tool calls
  MaxLogins,    \* bound: logins
  MaxLapses     \* bound: deadlines passed

NoToken == 0
Nobody == "nobody"

VARIABLES
  pc,         \* where each call is
  cached,     \* token of _token_states, NoToken without an entry
  expired,    \* the deadline of the cached token has passed
  lock,       \* holder of the login lock
  token,      \* the token a call has in hand
  accepted,   \* tokens that the ingestor accepts
  logins,     \* logins begun so far
  lapses,     \* deadlines of the cached token passed so far
  rejected,   \* history: requests answered with 401 so far
  spent,      \* history: call -> its first token, once that was refused
  failures    \* history: logins that failed

vars == <<pc, cached, expired, lock, token, accepted, logins, lapses, rejected, spent,
          failures>>
history == <<rejected, spent, failures>>

At(c, label) == pc[c] = label
Goto(c, label) == pc' = [pc EXCEPT ![c] = label]
Usable == cached # NoToken /\ ~expired

-----------------------------------------------------------------------------
\* get_valid_token before its first await: every function of the client begins
\* a request this way, when the MCP client calls its tool again.
Begin(c) ==
  /\ At(c, "idle")
  /\ \/ Usable /\ Goto(c, "send") /\ token' = [token EXCEPT ![c] = cached]
     \/ ~Usable /\ Goto(c, "wait") /\ UNCHANGED token
  /\ spent' = [spent EXCEPT ![c] = NoToken]
  /\ UNCHANGED <<cached, expired, lock, accepted, logins, lapses, rejected, failures>>

\* Mutant: the token is not looked at again under the lock.
Rechecks_Never(c) == FALSE

\* Only get_valid_token looks at the cache again.
Rechecks(c) == At(c, "wait") /\ Usable

\* The lock is free: use what another call obtained meanwhile, or log in.
Acquire(c) ==
  /\ pc[c] \in {"wait", "relogin"} /\ lock = Nobody
  /\ \/ /\ Rechecks(c)
        /\ Goto(c, "send") /\ token' = [token EXCEPT ![c] = cached]
        /\ UNCHANGED <<lock, logins>>
     \/ /\ ~Rechecks(c) /\ logins < MaxLogins
        /\ Goto(c, IF At(c, "wait") THEN "login" ELSE "login_again")
        /\ lock' = c /\ logins' = logins + 1
        /\ UNCHANGED token
  /\ UNCHANGED <<cached, expired, accepted, lapses, history>>

\* The answer of POST /auth/token is cached and the lock released.
Login(c) ==
  /\ pc[c] \in {"login", "login_again"}
  /\ cached' = logins /\ expired' = FALSE
  /\ accepted' = accepted \cup {logins}
  /\ token' = [token EXCEPT ![c] = logins]
  /\ lock' = Nobody
  /\ Goto(c, IF At(c, "login") THEN "send" ELSE "send_again")
  /\ UNCHANGED <<logins, lapses, history>>

\* raise_for_status, a timeout or a lost connection end the call.
LoginFails(c) ==
  /\ pc[c] \in {"login", "login_again"}
  /\ lock' = Nobody /\ Goto(c, "idle")
  /\ failures' = failures + 1
  /\ UNCHANGED <<cached, expired, token, accepted, logins, lapses, rejected, spent>>

Discard == cached' = NoToken /\ expired' = FALSE

\* A 401 discards whatever token is cached by now and asks for the lock; any
\* other answer, a timeout or a lost connection ends the call.
Answer(c) ==
  /\ At(c, "send")
  /\ \/ Goto(c, "idle") /\ UNCHANGED <<cached, expired, rejected, spent>>
     \/ /\ token[c] \notin accepted
        /\ Discard
        /\ Goto(c, "relogin")
        /\ rejected' = rejected + 1
        /\ spent' = [spent EXCEPT ![c] = token[c]]
  /\ UNCHANGED <<lock, token, accepted, logins, lapses, failures>>

\* The second answer is final whatever it is.
AnswerAgain(c) ==
  /\ At(c, "send_again")
  /\ Goto(c, "idle")
  /\ UNCHANGED <<cached, expired, lock, token, accepted, logins, lapses, history>>

-----------------------------------------------------------------------------
DeadlinePasses ==
  /\ Usable /\ lapses < MaxLapses
  /\ expired' = TRUE /\ lapses' = lapses + 1
  /\ UNCHANGED <<pc, cached, lock, token, accepted, logins, history>>

\* The ingestor no longer accepts a token: its secrets were rotated.
Withdraw(t) ==
  /\ t \in accepted
  /\ accepted' = accepted \ {t}
  /\ UNCHANGED <<pc, cached, expired, lock, token, logins, lapses, history>>

-----------------------------------------------------------------------------
Init ==
  /\ pc = [c \in Callers |-> "idle"] /\ token = [c \in Callers |-> NoToken]
  /\ cached = NoToken /\ expired = FALSE /\ lock = Nobody
  /\ accepted = {} /\ logins = 0 /\ lapses = 0
  /\ rejected = 0 /\ spent = [c \in Callers |-> NoToken] /\ failures = 0

CallStep(c) ==
  Begin(c) \/ Acquire(c) \/ Login(c) \/ LoginFails(c) \/ Answer(c) \/ AnswerAgain(c)

Next == \/ \E c \in Callers : CallStep(c)
        \/ DeadlinePasses
        \/ \E t \in 1..MaxLogins : Withdraw(t)

Spec == Init /\ [][Next]_vars

-----------------------------------------------------------------------------
TypeOK ==
  /\ cached \in 0..logins /\ lock \in Callers \cup {Nobody}
  /\ \A c \in Callers : token[c] \in 0..logins
  /\ accepted \subseteq 1..logins

\* However calls race past an outdated token, one logs in at a time, and every
\* login after the first is owed to a passed deadline, a failed login or a
\* refused request.  A refused request explains two: force_relogin drops the
\* cached token before it waits for the lock, so that another call may log in
\* first, and then logs in itself without a second look.  A request is repeated
\* only with a token that was issued after the one that was refused
\* (get_valid_token, force_relogin: "one waits, the rest reuse the token the
\* winner obtained").
LoginsAreNeeded ==
  /\ logins <= 1 + lapses + 2 * rejected + failures
  /\ Cardinality({c \in Callers : pc[c] \in {"login", "login_again"}}) <= 1
  /\ \A c \in Callers : At(c, "send_again") => token[c] > spent[c]
=============================================================================
