------------------------------ MODULE Incidents ------------------------------
(***************************************************************************)
(* Dependency incidents of one source.  Sessions record health samples     *)
(* (scheduled probes and POST /scorecards/samples) and reconcile the       *)
(* availability and latency incidents with them; operators acknowledge and *)
(* resolve incidents by hand.                                              *)
(*                                                                         *)
(* Every transaction reads rows unlocked and writes them at its commit, so *)
(* each one is several steps.  A session writes only the columns it        *)
(* changed, whatever the row holds by then.  The only protection is the    *)
(* unique index on active_key: an insert waits for an uncommitted row with *)
(* the same key and fails if that row commits.                             *)
(***************************************************************************)
EXTENDS Naturals, FiniteSets

CONSTANTS
  Sessions,         \* concurrent record_health_sample calls
  Operators,        \* concurrent acknowledge and resolve requests
  Threshold,        \* incident_failure_threshold
  LatencyPolicy,    \* latency_threshold_ms is configured
  MaxSamples,       \* bound: samples taken
  MaxIncidents,     \* bound: primary keys given to incidents
  MaxFaults         \* bound: crashes

ASSUME ThresholdAssumption == Threshold \in Nat \ {0}
ASSUME PolicyAssumption == LatencyPolicy \in BOOLEAN
ASSUME BoundsAssumption == MaxSamples \in Nat /\ MaxIncidents \in Nat /\ MaxFaults \in Nat

VARIABLES
  mode,                                     \* notification_delivery_mode
  samples,                                  \* committed health samples
  clock,                                    \* the last sampled_at given out
  status, trigger, key, count, notified,    \* dependency_incidents
  lastId,                                   \* the primary-key sequence
  announced,                                \* notification requests or sends
  pc, sample, want, plan,                   \* a recording session
  raced,                                    \* history: its reads are stale
  opc, opRow,                               \* an operator's request
  faults

rowVars == <<status, trigger, key, count, notified>>
sessionVars == <<pc, sample, want, plan>>
operatorVars == <<opc, opRow>>
vars == <<mode, samples, clock, rowVars, lastId, announced, sessionVars, raced,
          operatorVars, faults>>

-----------------------------------------------------------------------------
Triggers == {"availability", "latency"}

Kinds == {"failed", "slow", "fast"}

Times == 1..MaxSamples

Rows == 1..MaxIncidents

ACTIVE_INCIDENT_STATUSES == {"open", "acknowledged"}

Status == {"absent", "resolved"} \cup ACTIVE_INCIDENT_STATUSES

\* What a session will write for one trigger when it commits.
Plan == [op : {"none", "insert", "update", "resolve"}, row : 0..MaxIncidents,
         count : Nat, notify : BOOLEAN]

NoPlan == [op |-> "none", row |-> 0, count |-> 0, notify |-> FALSE]

NoPlans == [t \in Triggers |-> NoPlan]

NoWants == [t \in Triggers |-> "none"]

NoSample == [at |-> 0, kind |-> "failed"]

TypeOK ==
  /\ mode \in {"broker", "direct"}
  /\ samples \in [Times -> Kinds \cup {"none"}]
  /\ clock \in 0..MaxSamples
  /\ status \in [Rows -> Status]
  /\ trigger \in [Rows -> Triggers \cup {"none"}]
  /\ key \in [Rows -> BOOLEAN]
  /\ count \in [Rows -> Nat]
  /\ notified \in [Rows -> {"never", "recent", "due"}]
  /\ lastId \in 0..MaxIncidents
  /\ announced \in SUBSET (Rows \X Nat)
  /\ pc \in [Sessions -> {"idle", "probe", "insert", "commit", "dispatch", "mark"}
                           \cup Triggers]
  /\ sample \in [Sessions -> [at : 0..MaxSamples, kind : Kinds]]
  /\ want \in [Sessions -> [Triggers -> {"none", "open", "resolve"}]]
  /\ plan \in [Sessions -> [Triggers -> Plan]]
  /\ raced \in [Sessions -> BOOLEAN]
  /\ opc \in [Operators -> {"idle", "acknowledge", "resolve"}]
  /\ opRow \in [Operators -> 0..MaxIncidents]
  /\ faults \in 0..MaxFaults

Init ==
  /\ mode \in {"broker", "direct"}
  /\ samples = [i \in Times |-> "none"]
  /\ clock = 0
  /\ status = [r \in Rows |-> "absent"]
  /\ trigger = [r \in Rows |-> "none"]
  /\ key = [r \in Rows |-> FALSE]
  /\ count = [r \in Rows |-> 0]
  /\ notified = [r \in Rows |-> "never"]
  /\ lastId = 0
  /\ announced = {}
  /\ pc = [s \in Sessions |-> "idle"]
  /\ sample = [s \in Sessions |-> NoSample]
  /\ want = [s \in Sessions |-> NoWants]
  /\ plan = [s \in Sessions |-> NoPlans]
  /\ raced = [s \in Sessions |-> FALSE]
  /\ opc = [o \in Operators |-> "idle"]
  /\ opRow = [o \in Operators |-> 0]
  /\ faults = 0

-----------------------------------------------------------------------------
(* reconcile_health_incidents *)

\* The samples a SELECT inside the session sees: the committed ones and its own.
Visible(smp) == [i \in Times |-> IF i = smp.at THEN smp.kind ELSE samples[i]]

Taken(f) == {i \in Times : f[i] # "none"}

\* ORDER BY sampled_at DESC LIMIT threshold.
Recent(f) == {i \in Taken(f) : Cardinality({j \in Taken(f) : j > i}) < Threshold}

\* Mutant: a history shorter than the threshold counts as consecutive.
Consecutive_ShortHistory(f, kind) == \A i \in Recent(f) : f[i] = kind

Consecutive(f, kind) ==
  /\ Cardinality(Recent(f)) >= Threshold
  /\ \A i \in Recent(f) : f[i] = kind

\* Mutant: slow answers count as recovered latency.
Wants_SlowResolvesLatency(smp) ==
  [availability |-> IF Consecutive(Visible(smp), "failed") THEN "open"
                    ELSE IF smp.kind # "failed" THEN "resolve" ELSE "none",
   latency |-> IF ~LatencyPolicy THEN "none"
               ELSE IF Consecutive(Visible(smp), "slow") THEN "open"
               ELSE IF smp.kind # "failed" THEN "resolve" ELSE "none"]

\* What the policies ask for after sample smp.
Wants(smp) ==
  [availability |-> IF Consecutive(Visible(smp), "failed") THEN "open"
                    ELSE IF smp.kind # "failed" THEN "resolve" ELSE "none",
   latency |-> IF ~LatencyPolicy THEN "none"
               ELSE IF Consecutive(Visible(smp), "slow") THEN "open"
               ELSE IF smp.kind = "fast" THEN "resolve" ELSE "none"]

\* The row the SELECT on active_key finds, if any.
Active(t) == {r \in Rows : key[r] /\ trigger[r] = t}

\* The policies are applied in this order.
After(t) == IF t = "availability" THEN "latency" ELSE "commit"

\* The probe's request goes out; sampled_at is taken before it.
ProbeStarts(s) ==
  /\ pc[s] = "idle"
  /\ clock < MaxSamples
  /\ clock' = clock + 1
  /\ sample' = [sample EXCEPT ![s].at = clock + 1]
  /\ pc' = [pc EXCEPT ![s] = "probe"]
  /\ UNCHANGED <<mode, samples, rowVars, lastId, announced, want, plan, raced,
                 operatorVars, faults>>

\* The answer is known: record_health_sample inserts the sample and reads the
\* recent ones.
FlushSample(s, k) ==
  /\ pc[s] = "probe"
  /\ LET smp == [sample[s] EXCEPT !.kind = k]
     IN  /\ sample' = [sample EXCEPT ![s] = smp]
         /\ want' = [want EXCEPT ![s] = Wants(smp)]
  /\ pc' = [pc EXCEPT ![s] = "availability"]
  /\ raced' = [raced EXCEPT ![s] = FALSE]
  /\ UNCHANGED <<mode, samples, clock, rowVars, lastId, announced, plan,
                 operatorVars, faults>>

\* _notification_due.
NotificationDue(r) == notified[r] # "recent"

\* The plan for trigger t, given the active row r or none: the first half of
\* open_or_update_incident and resolve_active_incident.
PlanFor(wanted, rows) ==
  IF wanted = "none" \/ rows = {} THEN NoPlan
  ELSE LET r == CHOOSE x \in rows : TRUE
       IN  IF wanted = "open"
           THEN [op |-> "update", row |-> r, count |-> count[r] + 1,
                 notify |-> NotificationDue(r)]
           ELSE [op |-> "resolve", row |-> r, count |-> 0, notify |-> FALSE]

SelectActive(s, t) ==
  /\ pc[s] = t
  /\ plan' = [plan EXCEPT ![s][t] = PlanFor(want[s][t], Active(t))]
  /\ pc' = [pc EXCEPT ![s] = IF want[s][t] = "open" /\ Active(t) = {}
                             THEN "insert" ELSE After(t)]
  /\ UNCHANGED <<mode, samples, clock, rowVars, lastId, announced, sample, want,
                 raced, operatorVars, faults>>

\* The session ends; nothing it did not commit remains.
EndSession(s) ==
  /\ pc' = [pc EXCEPT ![s] = "idle"]
  /\ sample' = [sample EXCEPT ![s] = NoSample]
  /\ want' = [want EXCEPT ![s] = NoWants]
  /\ plan' = [plan EXCEPT ![s] = NoPlans]

\* Another session has inserted a row with key t and not yet committed it.
Reserved(s, t) ==
  \E x \in Sessions \ {s} : plan[x][t].op = "insert" /\ pc[x] \notin {"dispatch", "mark"}

\* The flush of a new incident: it takes the next primary key, or it meets a row
\* with its active_key, and the IntegrityError undoes the sample too.
InsertIncident(s, t) ==
  /\ pc[s] = "insert"
  /\ want[s][t] = "open"
  /\ ~Reserved(s, t)
  /\ \/ /\ Active(t) = {}
        /\ lastId < MaxIncidents
        /\ lastId' = lastId + 1
        /\ plan' = [plan EXCEPT ![s][t] = [op |-> "insert", row |-> lastId + 1,
                                           count |-> 1, notify |-> TRUE]]
        /\ pc' = [pc EXCEPT ![s] = After(t)]
        /\ UNCHANGED <<sample, want>>
     \/ /\ Active(t) # {}
        /\ EndSession(s)
        /\ UNCHANGED lastId
  /\ UNCHANGED <<mode, samples, clock, rowVars, announced, raced, operatorVars,
                 faults>>

-----------------------------------------------------------------------------
(* The commit of record_health_sample and what follows it *)

\* The plan of session s for row r.
PlanOf(s, r) ==
  IF \E t \in Triggers : plan[s][t].row = r
  THEN plan[s][CHOOSE t \in Triggers : plan[s][t].row = r]
  ELSE NoPlan

Op(s, r) == PlanOf(s, r).op

\* The triggers whose transition has should_notify.
Notifies(s) == {t \in Triggers : plan[s][t].notify}

\* _notification_message_id: the incident and its occurrence.
MessageIds(s) == {<<plan[s][t].row, plan[s][t].count>> : t \in Notifies(s)}

WriteSample(s) == samples' = [samples EXCEPT ![sample[s].at] = sample[s].kind]

\* Mutant: a recovered incident is written with a status the table has not.
WriteRows_Closes(s) ==
  /\ status' = [r \in Rows |-> CASE Op(s, r) = "insert" -> "open"
                                 [] Op(s, r) = "resolve" -> "closed"
                                 [] OTHER -> status[r]]
  /\ trigger' = [r \in Rows |->
                   IF Op(s, r) = "insert"
                   THEN CHOOSE t \in Triggers : plan[s][t].row = r ELSE trigger[r]]
  /\ UNCHANGED count

WriteRows(s) ==
  /\ status' = [r \in Rows |-> CASE Op(s, r) = "insert" -> "open"
                                 [] Op(s, r) = "resolve" -> "resolved"
                                 [] OTHER -> status[r]]
  /\ trigger' = [r \in Rows |->
                   IF Op(s, r) = "insert"
                   THEN CHOOSE t \in Triggers : plan[s][t].row = r ELSE trigger[r]]
  /\ count' = [r \in Rows |-> IF Op(s, r) \in {"insert", "update"}
                              THEN PlanOf(s, r).count ELSE count[r]]

\* Mutant: resolution leaves the key on the row.
WriteKeys_KeepOnResolve(s) ==
  key' = [r \in Rows |-> Op(s, r) = "insert" \/ key[r]]

WriteKeys(s) ==
  key' = [r \in Rows |-> CASE Op(s, r) = "insert" -> TRUE
                           [] Op(s, r) = "resolve" -> FALSE
                           [] OTHER -> key[r]]

\* Mutant: the cooldown starts although nothing was handed over yet.
EnqueueRequests_StampsAlways(s) ==
  /\ notified' = [r \in Rows |-> IF PlanOf(s, r).notify THEN "recent" ELSE notified[r]]
  /\ announced' = announced \cup (IF mode = "broker" THEN MessageIds(s) ELSE {})

\* enqueue_incident_notification_requests: in broker mode the request and the
\* cooldown are part of the transaction.  A message id that is in the outbox
\* already inserts nothing.
EnqueueRequests(s) ==
  IF mode = "broker"
  THEN /\ announced' = announced \cup MessageIds(s)
       /\ notified' = [r \in Rows |-> IF PlanOf(s, r).notify THEN "recent"
                                      ELSE notified[r]]
  ELSE UNCHANGED <<announced, notified>>

\* A commit makes what the sessions X have read stale.
Disturbs(X) ==
  raced' = [x \in Sessions |->
              raced[x] \/ (x \in X /\ pc[x] \in Triggers \cup {"insert", "commit"})]

CommitSample(s) ==
  /\ pc[s] = "commit"
  /\ WriteSample(s)
  /\ WriteRows(s)
  /\ WriteKeys(s)
  /\ EnqueueRequests(s)
  /\ Disturbs(Sessions \ {s})
  /\ IF mode = "direct" /\ Notifies(s) # {}
     THEN /\ pc' = [pc EXCEPT ![s] = "dispatch"]
          /\ UNCHANGED <<sample, want, plan>>
     ELSE EndSession(s)
  /\ UNCHANGED <<mode, clock, lastId, operatorVars, faults>>

\* _dispatch_transitions in direct mode: the providers are called, and then a
\* second transaction starts the cooldown.
Dispatch(s) ==
  /\ pc[s] = "dispatch"
  /\ announced' = announced \cup MessageIds(s)
  /\ pc' = [pc EXCEPT ![s] = "mark"]
  /\ UNCHANGED <<mode, samples, clock, rowVars, lastId, sample, want, plan, raced,
                 operatorVars, faults>>

MarkNotificationAttempted(s) ==
  /\ pc[s] = "mark"
  /\ notified' = [r \in Rows |-> IF PlanOf(s, r).notify THEN "recent" ELSE notified[r]]
  /\ EndSession(s)
  /\ UNCHANGED <<mode, samples, clock, status, trigger, key, count, lastId,
                 announced, raced, operatorVars, faults>>

Crash(s) ==
  /\ pc[s] # "idle"
  /\ faults < MaxFaults
  /\ faults' = faults + 1
  /\ EndSession(s)
  /\ UNCHANGED <<mode, samples, clock, rowVars, lastId, announced, raced,
                 operatorVars>>

\* incident_cooldown_seconds have passed.
CooldownElapses(r) ==
  /\ notified[r] = "recent"
  /\ notified' = [notified EXCEPT ![r] = "due"]
  /\ UNCHANGED <<mode, samples, clock, status, trigger, key, count, lastId,
                 announced, sessionVars, raced, operatorVars, faults>>

-----------------------------------------------------------------------------
(* The operator's requests *)

\* get_incident and the check of acknowledge_incident or resolve_incident; a
\* request that fails the check is answered 409 and changes nothing.
OperatorReads(o, r, request) ==
  /\ opc[o] = "idle"
  /\ \/ request = "acknowledge" /\ status[r] = "open"
     \/ request = "resolve" /\ status[r] \in ACTIVE_INCIDENT_STATUSES
  /\ opc' = [opc EXCEPT ![o] = request]
  /\ opRow' = [opRow EXCEPT ![o] = r]
  /\ UNCHANGED <<mode, samples, clock, rowVars, lastId, announced, sessionVars,
                 raced, faults>>

OperatorCommits(o) ==
  /\ opc[o] # "idle"
  /\ IF opc[o] = "acknowledge"
     THEN /\ status' = [status EXCEPT ![opRow[o]] = "acknowledged"]
          /\ UNCHANGED key
     ELSE /\ status' = [status EXCEPT ![opRow[o]] = "resolved"]
          /\ key' = [key EXCEPT ![opRow[o]] = FALSE]
  /\ Disturbs(Sessions)
  /\ opc' = [opc EXCEPT ![o] = "idle"]
  /\ opRow' = [opRow EXCEPT ![o] = 0]
  /\ UNCHANGED <<mode, samples, clock, trigger, count, notified, lastId, announced,
                 sessionVars, faults>>

-----------------------------------------------------------------------------
Next ==
  \/ \E s \in Sessions :
       \/ ProbeStarts(s)
       \/ \E k \in Kinds : FlushSample(s, k)
       \/ \E t \in Triggers : SelectActive(s, t) \/ InsertIncident(s, t)
       \/ CommitSample(s) \/ Dispatch(s) \/ MarkNotificationAttempted(s) \/ Crash(s)
  \/ \E r \in Rows : CooldownElapses(r)
  \/ \E o \in Operators :
       \/ \E r \in Rows, q \in {"acknowledge", "resolve"} : OperatorReads(o, r, q)
       \/ OperatorCommits(o)

Spec == Init /\ [][Next]_vars

-----------------------------------------------------------------------------
\* "Only active incidents retain an active_key", whatever stale commits of probes
\* and operators follow each other: a resolved row that kept its key would absorb
\* every later failure of the source and no incident would open again.
KeyImpliesActive == \A r \in Rows : key[r] => status[r] \in ACTIVE_INCIDENT_STATUSES

BadKind(t) == IF t = "availability" THEN "failed" ELSE "slow"

\* An incident rests on evidence: at least Threshold bad samples are committed,
\* whatever became of the sessions that saw them (fewer samples than the
\* threshold, rolled-back and crashed sessions open nothing).
IncidentHasEvidence ==
  \A r \in Rows :
    status[r] # "absent" =>
      Cardinality({i \in Times : samples[i] = BadKind(trigger[r])}) >= Threshold

\* The cooldown never silences an incident nobody was told about: a row is
\* announced, or (direct mode, the process died before the dispatch) its next
\* occurrence is still due for notification.
NoSilentIncident ==
  \A r \in Rows :
    status[r] # "absent" =>
      \/ \E a \in announced : a[1] = r
      \/ mode = "direct" /\ notified[r] = "never"

\* The source is in trouble of kind t after the samples f: the newest Threshold
\* of them are all bad.
InTrouble(t, f) ==
  \E S \in SUBSET Taken(f) :
    /\ Cardinality(S) = Threshold
    /\ \A i \in S : f[i] = BadKind(t)
    /\ \A i \in S : \A j \in Taken(f) \ S : j < i

Recovered(t, kind) ==
  IF t = "availability" THEN kind # "failed" ELSE LatencyPolicy /\ kind = "fast"

Watched(t) == t = "availability" \/ LatencyPolicy

\* A health sample recorded while nobody else commits leaves exactly the active
\* incidents the policies ask for: open after Threshold consecutive bad samples
\* in the order they were taken, closed by a recovered one, else as they were.
ReconciledWhenUndisturbed ==
  [][\A s \in Sessions : \A t \in Triggers :
       CommitSample(s) /\ ~raced[s] =>
         IF Watched(t) /\ InTrouble(t, samples') THEN Active(t)' # {}
         ELSE IF Recovered(t, sample[s].kind) THEN Active(t)' = {}
         ELSE Active(t)' = Active(t)]_vars

\* docs/08-operations/dependency-incidents.md: the unique index on active_key
\* "prevents two active rows for the same tenant, source, and trigger".
AtMostOneActive ==
  \A q, r \in Rows :
    /\ status[q] \in ACTIVE_INCIDENT_STATUSES
    /\ status[r] \in ACTIVE_INCIDENT_STATUSES
    /\ trigger[q] = trigger[r]
    => q = r
=============================================================================
