---------------------------- MODULE ContractDrift ----------------------------
(***************************************************************************)
(* The contract baseline of one source.  Sessions ingest snapshots (the    *)
(* scheduled contract job and POST /snapshots) and reviewers accept the    *)
(* current candidate as the next baseline.                                 *)
(*                                                                         *)
(* A snapshot session locks the source row, so sessions exclude each       *)
(* other; a reviewer locks the active baseline row only.  Both find that   *)
(* row with SELECT ... WHERE status = 'active' FOR UPDATE, which, when it   *)
(* had to wait for a transaction that superseded the row, returns no row:  *)
(* the statement's snapshot (the step that begins a request) is older than *)
(* the lock (the step that ends it).                                       *)
(*                                                                         *)
(* A payload is abstracted to its structure, and the comparison of two     *)
(* structures to a relation (it is not symmetric: an empty array says      *)
(* nothing about its elements).                                            *)
(***************************************************************************)
EXTENDS Naturals, FiniteSets

CONSTANTS
  Structures,      \* structural fingerprints
  NoStructure,     \* no structure
  Drifts,          \* <<accepted, observed>> pairs with a non-empty diff
  Breaking,        \* those that require incident response
  Sessions,        \* concurrent create_contract_snapshot calls
  Reviewers,       \* concurrent accept requests
  MaxSnapshots,    \* bound: snapshot ids given out
  MaxVersions,     \* bound: baseline versions
  MaxFaults        \* bound: crashes

ASSUME StructuresAssumption ==
  /\ NoStructure \notin Structures
  /\ Drifts \subseteq Structures \X Structures
  /\ \A x \in Structures : <<x, x>> \notin Drifts
  /\ Breaking \subseteq Drifts
ASSUME BoundsAssumption ==
  MaxSnapshots \in Nat /\ MaxVersions \in Nat /\ MaxFaults \in Nat

VARIABLES
  baseline,                                    \* structure of each version
  status,                                      \* status of each version
  candidate, candSnapshot, candCount, candEvent,   \* of the active version
  lastId,                                      \* snapshot ids given out
  events,                                      \* drift events, by snapshot id
  responses,                                   \* events with incident and agent run
  triggered,                                   \* agent runs that were started
  sourceLock,                                  \* session holding the source row
  pc, seen, found, snapId,                     \* a session
  rpc, rfound, named,                          \* a reviewer
  observed, streak,                            \* history: last structure, run length
  report,                                      \* the latest answer to a reader
  faults

candVars == <<candidate, candSnapshot, candCount, candEvent>>
tableVars == <<baseline, status, candVars, events, responses>>
sessionVars == <<pc, seen, found, snapId>>
reviewVars == <<rpc, rfound, named>>
historyVars == <<observed, streak>>
vars == <<tableVars, lastId, triggered, sourceLock, sessionVars, reviewVars,
          historyVars, report, faults>>

CONTRACT_BASELINE_CONFIRMATION_POLLS == 3

Versions == 1..MaxVersions

Ids == 1..MaxSnapshots

TypeOK ==
  /\ baseline \in [Versions -> Structures \cup {NoStructure}]
  /\ status \in [Versions -> {"absent", "active", "superseded"}]
  /\ candidate \in Structures \cup {NoStructure}
  /\ candSnapshot \in 0..MaxSnapshots
  /\ candCount \in 0..MaxSnapshots
  /\ candEvent \in 0..MaxSnapshots
  /\ lastId \in 0..MaxSnapshots
  /\ events \in SUBSET Ids
  /\ responses \in SUBSET events
  /\ triggered \in SUBSET responses
  /\ sourceLock \in SUBSET Sessions
  /\ pc \in [Sessions -> {"idle", "baseline", "first", "trigger"}]
  /\ seen \in [Sessions -> Structures \cup {NoStructure}]
  /\ found \in [Sessions -> 0..MaxVersions]
  /\ snapId \in [Sessions -> 0..MaxSnapshots]
  /\ rpc \in [Reviewers -> {"idle", "accept"}]
  /\ rfound \in [Reviewers -> 0..MaxVersions]
  /\ named \in [Reviewers -> 0..MaxSnapshots]
  /\ observed \in Structures \cup {NoStructure}
  /\ streak \in 0..MaxSnapshots
  /\ faults \in 0..MaxFaults

Init ==
  /\ baseline = [v \in Versions |-> NoStructure]
  /\ status = [v \in Versions |-> "absent"]
  /\ candidate = NoStructure
  /\ candSnapshot = 0
  /\ candCount = 0
  /\ candEvent = 0
  /\ lastId = 0
  /\ events = {}
  /\ responses = {}
  /\ triggered = {}
  /\ sourceLock = {}
  /\ pc = [s \in Sessions |-> "idle"]
  /\ seen = [s \in Sessions |-> NoStructure]
  /\ found = [s \in Sessions |-> 0]
  /\ snapId = [s \in Sessions |-> 0]
  /\ rpc = [r \in Reviewers |-> "idle"]
  /\ rfound = [r \in Reviewers |-> 0]
  /\ named = [r \in Reviewers |-> 0]
  /\ observed = NoStructure
  /\ streak = 0
  /\ report = "none"
  /\ faults = 0

-----------------------------------------------------------------------------
(* create_contract_snapshot *)

ActiveVersions == {v \in Versions : status[v] = "active"}

\* The version the statement's snapshot shows as active, or 0.
Found == IF ActiveVersions = {} THEN 0 ELSE CHOOSE v \in ActiveVersions : TRUE

\* The source row is locked, the snapshot inserted, and the SELECT of the
\* baseline started.
BeginSnapshot(s, x) ==
  /\ pc[s] = "idle"
  /\ sourceLock = {}
  /\ lastId < MaxSnapshots
  /\ sourceLock' = {s}
  /\ lastId' = lastId + 1
  /\ snapId' = [snapId EXCEPT ![s] = lastId + 1]
  /\ seen' = [seen EXCEPT ![s] = x]
  /\ found' = [found EXCEPT ![s] = Found]
  /\ pc' = [pc EXCEPT ![s] = IF Found = 0 THEN "first" ELSE "baseline"]
  /\ UNCHANGED <<tableVars, triggered, reviewVars, historyVars, report, faults>>

\* The session ends; its source lock is released.
EndSession(s) ==
  /\ pc' = [pc EXCEPT ![s] = "idle"]
  /\ seen' = [seen EXCEPT ![s] = NoStructure]
  /\ found' = [found EXCEPT ![s] = 0]
  /\ snapId' = [snapId EXCEPT ![s] = 0]
  /\ sourceLock' = sourceLock \ {s}

\* The snapshot is committed.
Observe(x) ==
  /\ observed' = x
  /\ streak' = IF observed = x THEN streak + 1 ELSE 1

\* The row it waited for was superseded meanwhile: no baseline is found.
BaselineVanished(s) ==
  /\ pc[s] = "baseline"
  /\ status[found[s]] # "active"
  /\ pc' = [pc EXCEPT ![s] = "first"]
  /\ UNCHANGED <<tableVars, lastId, triggered, sourceLock, seen, found, snapId,
                 reviewVars, historyVars, report, faults>>

\* Mutant: the first baseline does not meet the unique index on active_key.
FirstObservation_NoIndex(s) ==
  /\ pc[s] = "first"
  /\ baseline' = [baseline EXCEPT ![1] = seen[s]]
  /\ status' = [status EXCEPT ![1] = "active"]
  /\ Observe(seen[s])
  /\ EndSession(s)
  /\ UNCHANGED <<candVars, events, responses, lastId, triggered, reviewVars, report, faults>>

\* No baseline: the snapshot becomes version 1.  If there is one after all, the
\* insert violates the unique index on active_key and the snapshot is lost.
FirstObservation(s) ==
  /\ pc[s] = "first"
  /\ IF ActiveVersions = {}
     THEN /\ baseline' = [baseline EXCEPT ![1] = seen[s]]
          /\ status' = [status EXCEPT ![1] = "active"]
          /\ Observe(seen[s])
     ELSE UNCHANGED <<baseline, status, historyVars>>
  /\ EndSession(s)
  /\ UNCHANGED <<candVars, events, responses, lastId, triggered, reviewVars, report, faults>>

\* _clear_candidate.
ClearCandidate ==
  /\ candidate' = NoStructure
  /\ candSnapshot' = 0
  /\ candCount' = 0
  /\ candEvent' = 0

\* Mutant: the count goes on when the structure changes.
CandidateCount_AnyStructure(x) == candCount + 1

\* candidate_observation_count after structure x.
CandidateCount(x) == IF candidate = x THEN candCount + 1 ELSE 1

\* Mutant: only the first drift of a source is reported.
EmitsEvent_OncePerSource(x) ==
  /\ CandidateCount(x) >= CONTRACT_BASELINE_CONFIRMATION_POLLS
  /\ events = {}

\* candidate_confirmed, and no event for this candidate yet.
EmitsEvent(x) ==
  /\ CandidateCount(x) >= CONTRACT_BASELINE_CONFIRMATION_POLLS
  /\ candidate # x \/ candEvent = 0

\* Mutant: the incident does not wait for the confirmation.
Responds_Unconfirmed(pair, x) == pair \in Breaking

\* _requires_incident_response, for an event that is emitted.
Responds(pair, x) == EmitsEvent(x) /\ pair \in Breaking

\* The active baseline is locked and compared with the snapshot; the candidate,
\* the drift event and its incident, observation and agent run commit together.
CommitSnapshot(s) ==
  /\ pc[s] = "baseline"
  /\ status[found[s]] = "active"
  /\ LET x == seen[s]
         pair == <<baseline[found[s]], x>>
     IN  /\ IF pair \notin Drifts
            THEN ClearCandidate /\ UNCHANGED events
            ELSE /\ candidate' = x
                 /\ candCount' = CandidateCount(x)
                 /\ candSnapshot' = snapId[s]
                 /\ IF EmitsEvent(x)
                    THEN events' = events \cup {snapId[s]} /\ candEvent' = snapId[s]
                    ELSE /\ candEvent' = IF candidate = x THEN candEvent ELSE 0
                         /\ UNCHANGED events
         /\ IF Responds(pair, x)
            THEN /\ responses' = responses \cup {snapId[s]}
                 /\ pc' = [pc EXCEPT ![s] = "trigger"]
                 /\ sourceLock' = {}
                 /\ UNCHANGED <<seen, found, snapId>>
            ELSE EndSession(s) /\ UNCHANGED responses
         /\ Observe(x)
  /\ UNCHANGED <<baseline, status, lastId, triggered, reviewVars, report, faults>>

\* After the commit: the drift event is broadcast and the agent run started.
TriggerAgentRun(s) ==
  /\ pc[s] = "trigger"
  /\ triggered' = triggered \cup {snapId[s]}
  /\ EndSession(s)
  /\ UNCHANGED <<tableVars, lastId, reviewVars, historyVars, report, faults>>

\* The process dies: an open transaction rolls back, a committed agent run is not
\* started by anyone else.
Crash(s) ==
  /\ pc[s] # "idle"
  /\ faults < MaxFaults
  /\ faults' = faults + 1
  /\ EndSession(s)
  /\ UNCHANGED <<tableVars, lastId, triggered, reviewVars, historyVars, report>>

-----------------------------------------------------------------------------
(* POST /sources/{id}/baseline/accept *)

\* The request may name the snapshot the reviewer looked at (0: it does not).
BeginAccept(r, n) ==
  /\ rpc[r] = "idle"
  /\ Found # 0
  /\ rpc' = [rpc EXCEPT ![r] = "accept"]
  /\ rfound' = [rfound EXCEPT ![r] = Found]
  /\ named' = [named EXCEPT ![r] = n]
  /\ UNCHANGED <<tableVars, lastId, triggered, sourceLock, sessionVars, historyVars,
                 report, faults>>

\* Mutant: the selected snapshot is not compared with the current candidate.
Acceptable_AnyCandidate(r) == candSnapshot # 0

\* The request's row is still active, there is a candidate, and it is the one the
\* request names.
Acceptable(r) == candSnapshot # 0 /\ named[r] \in {0, candSnapshot}

\* The active version is superseded by one made of the candidate's snapshot; the
\* new row has no candidate.
PromoteCandidate ==
  /\ LET v == Found
     IN  /\ v < MaxVersions
         /\ status' = [status EXCEPT ![v] = "superseded", ![v + 1] = "active"]
         /\ baseline' = [baseline EXCEPT ![v + 1] = candidate]
  /\ ClearCandidate

\* The end of the request: 404 if its row was superseded, 409 if it is not
\* acceptable, else the candidate is promoted.
EndAccept(r) ==
  /\ rpc[r] = "accept"
  /\ IF status[rfound[r]] = "active" /\ Acceptable(r)
     THEN PromoteCandidate
     ELSE UNCHANGED <<baseline, status, candVars>>
  /\ rpc' = [rpc EXCEPT ![r] = "idle"]
  /\ rfound' = [rfound EXCEPT ![r] = 0]
  /\ named' = [named EXCEPT ![r] = 0]
  /\ streak' = IF status' # status THEN 0 ELSE streak
  /\ observed' = IF status' # status THEN NoStructure ELSE observed
  /\ UNCHANGED <<events, responses, lastId, triggered, sourceLock, sessionVars, report, faults>>

-----------------------------------------------------------------------------
(* Reads: the baseline, the drift events and the compatibility of the latest *)
(* snapshot with the active baseline.                                        *)

\* _require_scoped_source: an administrator sees every source, another caller
\* the sources of its own tenant.
RequireScopedSource(known, roles, tenant, owner) ==
  CASE ~known -> "404"
    [] known /\ "admin" \notin roles /\ tenant = "none" -> "403"
    [] known /\ "admin" \notin roles /\ tenant \notin {"none", owner} -> "404"
    [] OTHER -> "pass"

GetBaseline(known, roles, tenant) ==
  LET scope == RequireScopedSource(known, roles, tenant, "owner")
  IN report' = CASE scope # "pass" -> scope
                 [] scope = "pass" /\ Found = 0 -> "404"
                 [] OTHER -> "200"

ListDriftEvents(known) == report' = IF known THEN events ELSE "404"

\* The report speaks of drift before the drift is confirmed.  Until the first
\* snapshot after an acceptance, the latest one is the baseline itself.
CompatibilityReport ==
  CASE observed = NoStructure \/ Found = 0 -> "no drift"
    [] Found # 0 /\ <<baseline[Found], observed>> \in Breaking -> "breaking"
    [] Found # 0 /\ <<baseline[Found], observed>> \in Drifts \ Breaking -> "non_breaking"
    [] OTHER -> "no drift"

GetCompatibilityReport(known) == report' = IF known THEN CompatibilityReport ELSE "404"

Read(known) ==
  /\ \/ \E roles \in {{"admin"}, {"user"}}, tenant \in {"none", "owner", "other"} :
           GetBaseline(known, roles, tenant)
     \/ ListDriftEvents(known) \/ GetCompatibilityReport(known)
  /\ UNCHANGED <<tableVars, lastId, triggered, sourceLock, sessionVars, reviewVars,
                 historyVars, faults>>

-----------------------------------------------------------------------------
ChangeStep ==
  \/ \E s \in Sessions :
       \/ \E x \in Structures : BeginSnapshot(s, x)
       \/ BaselineVanished(s) \/ FirstObservation(s) \/ CommitSnapshot(s)
       \/ TriggerAgentRun(s) \/ Crash(s)
  \/ \E r \in Reviewers :
       \/ \E n \in 0..lastId : BeginAccept(r, n)
       \/ EndAccept(r)

Next == ChangeStep \/ \E known \in BOOLEAN : Read(known)

Spec == Init /\ [][Next]_vars

-----------------------------------------------------------------------------
\* Whatever requests overlap, there is one active baseline, it is the newest
\* version, and every older version is kept as superseded history.
OneActiveBaseline ==
  \A v \in Versions :
    /\ status[v] = "active" => \A u \in Versions : u > v => status[u] = "absent"
    /\ status[v] = "superseded" => \E u \in Versions : u > v /\ status[u] = "active"

\* A drift event is emitted exactly when a structure that differs from the active
\* baseline has been observed CONTRACT_BASELINE_CONFIRMATION_POLLS times in a row
\* against that baseline: never earlier, and only once per run of observations.
DriftIsConfirmedOnce ==
  [][events' # events => streak' = CONTRACT_BASELINE_CONFIRMATION_POLLS]_vars

\* No confirmed drift goes unreported: while the source keeps answering with the
\* same drifted structure, the candidate has its drift event.
NoMissedDrift ==
  /\ Found # 0
  /\ observed # NoStructure
  /\ <<baseline[Found], observed>> \in Drifts
  /\ streak >= CONTRACT_BASELINE_CONFIRMATION_POLLS
  => candEvent # 0

\* An accepted baseline is what the source answered last, and a request that named
\* the snapshot under review promotes that snapshot or nothing: a candidate that
\* replaced it between the review and the request is not accepted unseen.
AcceptsReviewedCandidate ==
  [][\A r \in Reviewers :
       rpc[r] = "accept" /\ rpc'[r] = "idle" /\ baseline' # baseline =>
         /\ named[r] \in {0, candSnapshot}
         /\ baseline'[Found'] = observed]_vars
=============================================================================
