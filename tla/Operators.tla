----------------------------- MODULE Operators -----------------------------
(***************************************************************************)
(* What operators and callers do: contract reviews, agent runs, accounts,  *)
(* rate limits, security events and the dashboard.  These parts share no   *)
(* state, so that a behaviour follows the one that the variable part names *)
(* and leaves the others at their initial state.                           *)
(***************************************************************************)
EXTENDS ContractDrift

CONSTANTS
  Runs, RunReviewers, DefaultChannels, Settings, MaxAgentFaults,   \* agent runs
  Names, Admins, Superadmin, InitAdmin, MaxKeys, MaxOps,           \* accounts
  Capacity, Unit, Rate, Limit, Window, MaxClock, MaxRequests,      \* rate limits
  Resolvers, Emitters, Tenants, MaxSignals, MaxEvents,             \* security events
  MaxThreads, MaxMessages, MaxStream                               \* the dashboard

ASSUME AgentsAssumption == Runs # {} /\ MaxAgentFaults \in Nat

\* The superadmin and the administrator of the start-up are accounts.
ASSUME AccountsAssumption ==
  /\ IsFiniteSet(Names)
  /\ Admins \subseteq Names /\ Admins # {}
  /\ Superadmin \in Names /\ InitAdmin \in Names
  /\ MaxKeys \in Nat \ {0}

ASSUME LimitsAssumption ==
  /\ Capacity \in Nat \ {0} /\ Unit \in Nat \ {0} /\ Rate \in Nat \ {0}
  /\ Limit \in Nat /\ Window \in Nat /\ MaxClock \in Nat

ASSUME SecurityAssumption == MaxSignals \in Nat /\ MaxEvents \in Nat

ASSUME DashboardAssumption == MaxMessages \in Nat /\ MaxStream \in Nat

VARIABLE part

VARIABLES
  agEnabled, agGraph, agStatus, agThread, agTask, agReview, agDispatches, agAttempted,
  agCauses, agRaced, agFaults

AG == INSTANCE AgentRuns WITH
  Runs <- Runs, Reviewers <- RunReviewers, DefaultChannels <- DefaultChannels,
  Settings <- Settings, MaxFaults <- MaxAgentFaults, enabled <- agEnabled, graph <- agGraph,
  status <- agStatus, thread <- agThread, task <- agTask, review <- agReview,
  dispatches <- agDispatches, attempted <- agAttempted, causes <- agCauses,
  raced <- agRaced, faults <- agFaults

VARIABLES
  acAccount, acRules, acAccess, acRenewal, acCurrent, acPrevious, acDeleting, acReply,
  acOps, acOverlapped, acDeactivated

AC == INSTANCE Accounts WITH
  Names <- Names, Admins <- Admins, Superadmin <- Superadmin, InitAdmin <- InitAdmin,
  MaxKeys <- MaxKeys, MaxOps <- MaxOps, account <- acAccount, rules <- acRules,
  access <- acAccess, renewal <- acRenewal, current <- acCurrent,
  previous <- acPrevious, deleting <- acDeleting, reply <- acReply, ops <- acOps,
  overlapped <- acOverlapped, deactivated <- acDeactivated

VARIABLES
  rlClock, rlCacheEnabled, rlClient, rlBucket, rlWindow, rlReply, rlAdmitted, rlPassed,
  rlPromise

RL == INSTANCE RateLimits WITH
  Capacity <- Capacity, Unit <- Unit, Rate <- Rate, Limit <- Limit, Window <- Window,
  MaxClock <- MaxClock, MaxRequests <- MaxRequests, clock <- rlClock,
  cacheEnabled <- rlCacheEnabled, client <- rlClient, bucket <- rlBucket,
  window <- rlWindow, reply <- rlReply, admitted <- rlAdmitted, passed <- rlPassed,
  promise <- rlPromise

VARIABLES
  seSignals, seResolver, seRaced, seTrail, seLastId, seEmitter, seOvertaken, seForked,
  seReply

SE == INSTANCE SecurityEvents WITH
  Resolvers <- Resolvers, Emitters <- Emitters, Tenants <- Tenants,
  MaxSignals <- MaxSignals, MaxEvents <- MaxEvents, signals <- seSignals,
  resolver <- seResolver, raced <- seRaced, trail <- seTrail, lastId <- seLastId,
  emitter <- seEmitter, overtaken <- seOvertaken, forked <- seForked, reply <- seReply

VARIABLES
  daLogged, daConnected, daStop, daHandle, daThread, daBuf, daBox, daShared, daOwn,
  daPage, daReceived, daHanded, daCleared

DA == INSTANCE Dashboard WITH
  MaxThreads <- MaxThreads, MaxMessages <- MaxMessages, MaxStream <- MaxStream,
  logged <- daLogged, connected <- daConnected, stop <- daStop, handle <- daHandle,
  thread <- daThread, buf <- daBuf, box <- daBox, shared <- daShared, own <- daOwn,
  page <- daPage, received <- daReceived, handed <- daHanded, cleared <- daCleared

-----------------------------------------------------------------------------
agentVars ==
  <<agEnabled, agGraph, agStatus, agThread, agTask, agReview, agDispatches, agAttempted,
    agCauses, agRaced, agFaults>>
accountVars ==
  <<acAccount, acRules, acAccess, acRenewal, acCurrent, acPrevious, acDeleting, acReply,
    acOps, acOverlapped, acDeactivated>>
limitVars ==
  <<rlClock, rlCacheEnabled, rlClient, rlBucket, rlWindow, rlReply, rlAdmitted,
    rlPassed, rlPromise>>
eventVars ==
  <<seSignals, seResolver, seRaced, seTrail, seLastId, seEmitter, seOvertaken, seForked,
    seReply>>
dashboardVars ==
  <<daLogged, daConnected, daStop, daHandle, daThread, daBuf, daBox, daShared, daOwn,
    daPage, daReceived, daHanded, daCleared>>
allVars == <<part, vars, agentVars, accountVars, limitVars, eventVars, dashboardVars>>

Parts == {"contract", "reader", "agent", "account", "request", "bucket", "window", "signal",
          "audit", "dashboard"}

\* The settings of the parts that are not followed do not vary.
MCInit ==
  /\ part \in Parts
  /\ Init /\ AG!Init /\ AC!Init /\ RL!Init /\ SE!Init /\ DA!Init
  /\ part # "agent" => agEnabled /\ agGraph
  /\ part # "bucket" => rlCacheEnabled

\* A source is followed through two confirmed drifts without a crash, and through
\* one with a crash and readers.
\* Requests are followed through rotations of the secret, accounts without one.
\* Sessions of the dashboard log in and out before the first message arrives.
MCNext ==
  /\ UNCHANGED part
  /\ \/ /\ part = "contract" /\ ChangeStep /\ faults' = faults
        /\ UNCHANGED <<agentVars, accountVars, limitVars, eventVars, dashboardVars>>
     \/ /\ part = "reader" /\ Next /\ lastId' <= 4
        /\ UNCHANGED <<agentVars, accountVars, limitVars, eventVars, dashboardVars>>
     \/ /\ part = "agent" /\ AG!Next
        /\ UNCHANGED <<vars, accountVars, limitVars, eventVars, dashboardVars>>
     \/ /\ part = "account" /\ (AC!AccountStep \/ AC!TokenStep)
        /\ UNCHANGED <<vars, agentVars, limitVars, eventVars, dashboardVars>>
     \/ /\ part = "request" /\ (AC!TokenStep \/ AC!RotationStep \/ AC!RequestStep)
        /\ UNCHANGED <<vars, agentVars, limitVars, eventVars, dashboardVars>>
     \/ /\ part = "bucket" /\ (RL!BucketStep \/ RL!Tick)
        /\ UNCHANGED <<vars, agentVars, accountVars, eventVars, dashboardVars>>
     \/ /\ part = "window" /\ (RL!CreateObservationSlidingWindow \/ RL!Tick)
        /\ UNCHANGED <<vars, agentVars, accountVars, eventVars, dashboardVars>>
     \/ /\ part = "signal" /\ SE!SignalStep
        /\ UNCHANGED <<vars, agentVars, accountVars, limitVars, dashboardVars>>
     \/ /\ part = "audit" /\ SE!AuditStep
        /\ UNCHANGED <<vars, agentVars, accountVars, limitVars, dashboardVars>>
     \/ /\ part = "dashboard" /\ DA!Next /\ (daReceived > 0 => UNCHANGED daLogged)
        /\ UNCHANGED <<vars, agentVars, accountVars, limitVars, eventVars>>

MCSpec == MCInit /\ [][MCNext]_allVars

-----------------------------------------------------------------------------
\* The state of the part that is followed is well formed, and a source has one
\* active baseline, the newest of its versions (contract_baselines.active_key).
WellFormed ==
  CASE part \in {"contract", "reader"} -> TypeOK /\ OneActiveBaseline
    [] part = "agent" -> AG!TypeOK
    [] part \in {"account", "request"} -> AC!TypeOK
    [] part \in {"bucket", "window"} -> RL!TypeOK
    [] part = "dashboard" -> DA!TypeOK
    [] OTHER -> SE!TypeOK

\* The verdict on an agent run is what was done about it, and a run is left
\* pending or running only for a known cause (agent/runner.py resume_agent_run,
\* run_agent_for_observation, agent/nodes.py).
RunsAreAccountedFor ==
  part = "agent" => AG!VerdictIsWhatWasDone /\ AG!StalledHasCause

\* An active administrator remains, unless deletions overlapped or an account
\* was deactivated by PATCH (api/routes/auth.py delete_user_route).
AdminRemains == part = "account" => AC!AdminRemains

\* Bursts are bounded, Retry-After suffices and the sliding window is exact
\* (rate_limiting_token_bucket.py, rate_limiting_advanced.py).
LimitsHold == part \in {"bucket", "window"} => RL!LimitsHold

\* A session of the dashboard has one listener, shows what that handed over in
\* order, and after a Clear nothing of another session (panels/live_stream.py).
ShowsOwnStream == part = "dashboard" => DA!ShowsOwnStream

\* The audit trail is one chain but for appends that overlapped, a noise signal
\* has the worst severity its count reaches, and a resolution is replaced only
\* by one that had read the signal as open (repositories/security_audit.py,
\* core/security/abuse_detection.py, repositories/abuse_detection.py).
SecurityRecordsHold ==
  /\ [](part = "audit" => SE!TrailIsChain)
  /\ [](part = "signal" => SE!SeverityIsWorst)
  /\ SE!ResolvedOnce
=============================================================================
