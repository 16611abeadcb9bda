--------------------------- MODULE IncidentsProofs ---------------------------
(***************************************************************************)
(* Proofs about Incidents for any number of sessions, operators, samples   *)
(* and incidents.                                                          *)
(***************************************************************************)
EXTENDS Incidents, FiniteSetTheorems, WellFoundedInduction, TLAPS

USE BoundsAssumption, ThresholdAssumption, PolicyAssumption

-----------------------------------------------------------------------------
(* Types and the deduplication key *)

Control == {"idle", "probe", "insert", "commit", "dispatch", "mark"} \cup Triggers

\* A plan names a row exactly when it writes one; a new incident is announced, and
\* only new and updated ones are.
PlanShape ==
  \A s \in Sessions, t \in Triggers :
    /\ plan[s][t].op = "none" <=> plan[s][t].row = 0
    /\ plan[s][t].notify => plan[s][t].op \in {"insert", "update"}
    /\ plan[s][t].op = "insert" => plan[s][t].notify

TypeInv == TypeOK /\ PlanShape /\ KeyImpliesActive

\* What SelectActive plans is a plan for an active row, or none.
LEMMA PlanForShape ==
  ASSUME TypeOK, NEW t \in Triggers, NEW w \in {"none", "open", "resolve"}
  PROVE  LET p == PlanFor(w, Active(t))
         IN  /\ p \in Plan
             /\ p.op \in {"none", "update", "resolve"}
             /\ p.op = "none" <=> p.row = 0
             /\ p.notify => p.op = "update"
             /\ p.op = "none" <=> w = "none" \/ Active(t) = {}
             /\ p.op # "none" => p.row \in Active(t)
             /\ p.op = "update" <=> w = "open" /\ Active(t) # {}
  <1>1. Active(t) \subseteq Rows
    BY DEF Active
  <1>2. CASE w = "none" \/ Active(t) = {}
    <2>1. PlanFor(w, Active(t)) = NoPlan
      BY <1>2 DEF PlanFor
    <2>2. NoPlan \in Plan
      BY DEF NoPlan, Plan
    <2> QED
      BY <1>2, <2>1, <2>2 DEF NoPlan
  <1>3. CASE w # "none" /\ Active(t) # {}
    <2> DEFINE r == CHOOSE x \in Active(t) : TRUE
    <2>1. r \in Active(t) /\ r \in Rows
      BY <1>1, <1>3
    <2> HIDE DEF r
    <2>2. r # 0 /\ r \in 0..MaxIncidents /\ count[r] + 1 \in Nat
      BY <2>1 DEF Rows, TypeOK
    <2>3. CASE w = "open"
      <3> DEFINE p == [op |-> "update", row |-> r, count |-> count[r] + 1,
                       notify |-> NotificationDue(r)]
      <3>1. PlanFor(w, Active(t)) = p
        BY <1>3, <2>3 DEF PlanFor, r
      <3>2. NotificationDue(r) \in BOOLEAN
        BY DEF NotificationDue
      <3>3. p \in Plan
        BY <2>2, <3>2 DEF Plan
      <3> QED
        BY <1>3, <2>1, <2>2, <2>3, <3>1, <3>3
    <2>4. CASE w # "open"
      <3> DEFINE p == [op |-> "resolve", row |-> r, count |-> 0, notify |-> FALSE]
      <3>1. PlanFor(w, Active(t)) = p
        BY <1>3, <2>4 DEF PlanFor, r
      <3>2. p \in Plan
        BY <2>2 DEF Plan
      <3> QED
        BY <1>3, <2>1, <2>2, <2>4, <3>1, <3>2
    <2> QED
      BY <2>3, <2>4
  <1> QED
    BY <1>2, <1>3

\* The plan a commit applies to row r, and its trigger.
LEMMA PlanOfRow ==
  ASSUME TypeOK, NEW s \in Sessions, NEW r \in Rows
  PROVE  \/ /\ \A t \in Triggers : plan[s][t].row # r
            /\ PlanOf(s, r) = NoPlan
         \/ \E t \in Triggers :
              /\ plan[s][t].row = r
              /\ PlanOf(s, r) = plan[s][t]
              /\ t = CHOOSE u \in Triggers : plan[s][u].row = r
  BY DEF PlanOf

\* The pieces of a session that EndSession resets.
LEMMA Ended ==
  ASSUME TypeOK, NEW s \in Sessions, EndSession(s)
  PROVE  /\ pc'[s] = "idle" /\ sample'[s] = NoSample /\ want'[s] = NoWants /\ plan'[s] = NoPlans
         /\ \A x \in Sessions : x # s => /\ pc'[x] = pc[x] /\ sample'[x] = sample[x]
                                         /\ want'[x] = want[x] /\ plan'[x] = plan[x]
         /\ pc' \in [Sessions -> Control]
         /\ sample' \in [Sessions -> [at : 0..MaxSamples, kind : Kinds]]
         /\ want' \in [Sessions -> [Triggers -> {"none", "open", "resolve"}]]
         /\ plan' \in [Sessions -> [Triggers -> Plan]]
  <1>1. NoSample \in [at : 0..MaxSamples, kind : Kinds]
    BY DEF NoSample, Kinds
  <1>2. NoWants \in [Triggers -> {"none", "open", "resolve"}]
    BY DEF NoWants
  <1>3. NoPlans \in [Triggers -> Plan]
    BY DEF NoPlans, NoPlan, Plan
  <1> QED
    BY <1>1, <1>2, <1>3 DEF EndSession, TypeOK, Control

\* A step leaves row r alone.
Untouched(r) ==
  /\ status'[r] = status[r] /\ trigger'[r] = trigger[r] /\ key'[r] = key[r]
  /\ count'[r] = count[r] /\ notified'[r] = notified[r]

\* A commit of session s writes row r as its plan for trigger t says.
Written(s, r, t) ==
  /\ plan[s][t].row = r /\ plan[s][t].op # "none"
  /\ status'[r] = IF plan[s][t].op = "insert" THEN "open"
                  ELSE IF plan[s][t].op = "resolve" THEN "resolved" ELSE status[r]
  /\ trigger'[r] = IF plan[s][t].op = "insert" THEN t ELSE trigger[r]
  /\ key'[r] = IF plan[s][t].op = "insert" THEN TRUE
               ELSE IF plan[s][t].op = "resolve" THEN FALSE ELSE key[r]
  /\ count'[r] \in Nat
  /\ notified'[r] = IF mode = "broker" /\ plan[s][t].notify THEN "recent" ELSE notified[r]

\* A commit writes each row as one plan for it says.
LEMMA CommitWrites ==
  ASSUME TypeInv, NEW s \in Sessions, CommitSample(s), NEW r \in Rows
  PROVE  \/ Untouched(r) /\ \A t \in Triggers : plan[s][t].row # r
         \/ \E t \in Triggers : Written(s, r, t)
  <1>1. TypeOK /\ PlanShape
    BY DEF TypeInv
  <1>2. /\ status'[r] = CASE Op(s, r) = "insert" -> "open"
                          [] Op(s, r) = "resolve" -> "resolved"
                          [] OTHER -> status[r]
        /\ trigger'[r] = IF Op(s, r) = "insert"
                         THEN CHOOSE t \in Triggers : plan[s][t].row = r ELSE trigger[r]
        /\ count'[r] = IF Op(s, r) \in {"insert", "update"} THEN PlanOf(s, r).count ELSE count[r]
    BY DEF CommitSample, WriteRows
  <1>3. key'[r] = CASE Op(s, r) = "insert" -> TRUE
                    [] Op(s, r) = "resolve" -> FALSE
                    [] OTHER -> key[r]
    BY DEF CommitSample, WriteKeys
  <1>4. notified'[r] = IF mode = "broker" /\ PlanOf(s, r).notify THEN "recent" ELSE notified[r]
    <2>1. CASE mode = "broker"
      BY <2>1 DEF CommitSample, EnqueueRequests
    <2>2. CASE mode # "broker"
      BY <2>2 DEF CommitSample, EnqueueRequests
    <2> QED
      BY <2>1, <2>2
  <1>5. CASE (\A t \in Triggers : plan[s][t].row # r) /\ PlanOf(s, r) = NoPlan
    <2>1. Op(s, r) = "none" /\ ~PlanOf(s, r).notify
      BY <1>5 DEF Op, NoPlan
    <2> QED
      BY <1>2, <1>3, <1>4, <1>5, <2>1 DEF Untouched
  <1>6. ASSUME NEW t \in Triggers, plan[s][t].row = r, PlanOf(s, r) = plan[s][t],
               t = CHOOSE u \in Triggers : plan[s][u].row = r
        PROVE  Written(s, r, t)
    <2>1. Op(s, r) = plan[s][t].op /\ r # 0
      BY <1>6 DEF Op, Rows
    <2>2. plan[s][t].op # "none"
      BY <1>1, <1>6, <2>1 DEF PlanShape
    <2>3. plan[s][t].count \in Nat /\ count[r] \in Nat
      BY <1>1 DEF TypeOK, Plan
    <2>4. status'[r] = IF plan[s][t].op = "insert" THEN "open"
                       ELSE IF plan[s][t].op = "resolve" THEN "resolved" ELSE status[r]
      BY <1>2, <2>1
    <2>5. key'[r] = IF plan[s][t].op = "insert" THEN TRUE
                    ELSE IF plan[s][t].op = "resolve" THEN FALSE ELSE key[r]
      BY <1>3, <2>1
    <2>6. trigger'[r] = IF plan[s][t].op = "insert" THEN t ELSE trigger[r]
      BY <1>2, <1>6, <2>1
    <2>7. count'[r] \in Nat
      BY <1>2, <1>6, <2>1, <2>3
    <2> QED
      BY <1>4, <1>6, <2>2, <2>4, <2>5, <2>6, <2>7 DEF Written
  <1>7. CASE \E t \in Triggers :
               /\ plan[s][t].row = r
               /\ PlanOf(s, r) = plan[s][t]
               /\ t = CHOOSE u \in Triggers : plan[s][u].row = r
    BY <1>6, <1>7
  <1> QED
    BY <1>1, <1>5, <1>7, PlanOfRow

\* The messages of a session name rows.
LEMMA MessagesType ==
  ASSUME TypeInv, NEW s \in Sessions
  PROVE  MessageIds(s) \in SUBSET (Rows \X Nat)
  <1> SUFFICES ASSUME NEW t \in Triggers, plan[s][t].notify
               PROVE  <<plan[s][t].row, plan[s][t].count>> \in Rows \X Nat
    BY DEF MessageIds, Notifies
  <1>1. plan[s][t].row \in 0..MaxIncidents /\ plan[s][t].count \in Nat
    BY DEF TypeInv, TypeOK, Plan
  <1>2. plan[s][t].row # 0
    BY DEF TypeInv, PlanShape
  <1> QED
    BY <1>1, <1>2 DEF Rows

\* The variables of a session after a step of its own that does not end it.
SessionTypes ==
  /\ pc' \in [Sessions -> Control]
  /\ sample' \in [Sessions -> [at : 0..MaxSamples, kind : Kinds]]
  /\ want' \in [Sessions -> [Triggers -> {"none", "open", "resolve"}]]
  /\ plan' \in [Sessions -> [Triggers -> Plan]]

\* Ending a session leaves types and the shape of plans.
LEMMA EndedShape ==
  ASSUME TypeOK, PlanShape, NEW s \in Sessions, EndSession(s)
  PROVE  SessionTypes /\ PlanShape'
  <1>1. SessionTypes
    BY Ended DEF SessionTypes
  <1>2. ASSUME NEW x \in Sessions, NEW t \in Triggers
        PROVE  /\ plan'[x][t].op = "none" <=> plan'[x][t].row = 0
               /\ plan'[x][t].notify => plan'[x][t].op \in {"insert", "update"}
               /\ plan'[x][t].op = "insert" => plan'[x][t].notify
    <2>1. CASE x = s
      <3>1. plan'[x][t] = NoPlan
        BY <2>1, Ended DEF NoPlans
      <3> QED
        BY <3>1 DEF NoPlan
    <2>2. CASE x # s
      <3>1. plan'[x] = plan[x]
        BY <2>2, Ended
      <3> QED
        BY <3>1 DEF PlanShape
    <2> QED
      BY <2>1, <2>2
  <1> QED
    BY <1>1, <1>2 DEF PlanShape

\* What the policies ask for is one of three things.
LEMMA WantsType ==
  ASSUME NEW smp
  PROVE  Wants(smp) \in [Triggers -> {"none", "open", "resolve"}]
  BY DEF Wants, Triggers

\* A commit keeps types and the key of active rows only.
LEMMA CommitTypes ==
  ASSUME TypeInv, NEW s \in Sessions, CommitSample(s)
  PROVE  TypeInv'
  <1>1. /\ UNCHANGED <<mode, clock, lastId, opc, opRow, faults>>
        /\ pc[s] = "commit"
    BY DEF CommitSample, operatorVars
  <1>2. TypeOK /\ PlanShape /\ KeyImpliesActive
    BY DEF TypeInv
  <1>3. samples' \in [Times -> Kinds \cup {"none"}]
    <2>1. samples' = [samples EXCEPT ![sample[s].at] = sample[s].kind]
      BY DEF CommitSample, WriteSample
    <2>2. sample[s].kind \in Kinds /\ samples \in [Times -> Kinds \cup {"none"}]
      BY <1>2 DEF TypeOK
    <2> QED
      BY <2>1, <2>2
  <1>5. ASSUME NEW r \in Rows
        PROVE  /\ status'[r] \in Status /\ trigger'[r] \in Triggers \cup {"none"}
               /\ key'[r] \in BOOLEAN /\ count'[r] \in Nat
               /\ notified'[r] \in {"never", "recent", "due"}
               /\ key'[r] => status'[r] \in ACTIVE_INCIDENT_STATUSES
    <2>1. /\ status[r] \in Status /\ trigger[r] \in Triggers \cup {"none"}
          /\ key[r] \in BOOLEAN /\ count[r] \in Nat
          /\ notified[r] \in {"never", "recent", "due"}
          /\ key[r] => status[r] \in ACTIVE_INCIDENT_STATUSES
      BY <1>2 DEF TypeOK, KeyImpliesActive
    <2>2. CASE Untouched(r)
      BY <2>1, <2>2 DEF Untouched
    <2>3. ASSUME NEW t \in Triggers, Written(s, r, t)
          PROVE  /\ status'[r] \in Status /\ trigger'[r] \in Triggers \cup {"none"}
                 /\ key'[r] \in BOOLEAN /\ count'[r] \in Nat
                 /\ notified'[r] \in {"never", "recent", "due"}
                 /\ key'[r] => status'[r] \in ACTIVE_INCIDENT_STATUSES
      BY <2>1, <2>3 DEF Written, Status, ACTIVE_INCIDENT_STATUSES
    <2> QED
      BY <2>2, <2>3, CommitWrites
  <1>6. /\ status' \in [Rows -> Status] /\ trigger' \in [Rows -> Triggers \cup {"none"}]
        /\ key' \in [Rows -> BOOLEAN] /\ count' \in [Rows -> Nat]
        /\ notified' \in [Rows -> {"never", "recent", "due"}]
        /\ KeyImpliesActive'
    <2>1. /\ status' = [r \in Rows |-> status'[r]] /\ trigger' = [r \in Rows |-> trigger'[r]]
          /\ key' = [r \in Rows |-> key'[r]] /\ count' = [r \in Rows |-> count'[r]]
          /\ notified' = [r \in Rows |-> notified'[r]]
      <3>1. notified' = [r \in Rows |-> notified'[r]]
        BY <1>2 DEF CommitSample, EnqueueRequests, TypeOK
      <3> QED
        BY <3>1 DEF CommitSample, WriteRows, WriteKeys
    <2> QED
      BY <1>5, <2>1 DEF KeyImpliesActive
  <1>7. announced' \in SUBSET (Rows \X Nat)
    BY <1>2, MessagesType DEF CommitSample, EnqueueRequests, TypeOK
  <1>8. raced' \in [Sessions -> BOOLEAN]
    <2>1. raced' = [x \in Sessions |-> raced[x] \/
            (x \in Sessions \ {s} /\ pc[x] \in Triggers \cup {"insert", "commit"})]
      BY DEF CommitSample, Disturbs
    <2> QED
      BY <2>1
  <1>9. SessionTypes /\ PlanShape'
    <2>1. CASE mode = "direct" /\ Notifies(s) # {}
      <3>1. pc' = [pc EXCEPT ![s] = "dispatch"] /\ UNCHANGED <<sample, want, plan>>
        BY <2>1 DEF CommitSample
      <3>2. SessionTypes
        BY <1>2, <3>1 DEF SessionTypes, TypeOK, Control
      <3> QED
        BY <1>2, <3>1, <3>2 DEF PlanShape
    <2>2. CASE ~(mode = "direct" /\ Notifies(s) # {})
      <3>1. EndSession(s)
        BY <2>2 DEF CommitSample
      <3> QED
        BY <1>2, <3>1, EndedShape
    <2> QED
      BY <2>1, <2>2
  <1> QED
    BY <1>1, <1>2, <1>3, <1>6, <1>7, <1>8, <1>9 DEF TypeInv, TypeOK, SessionTypes, Control

\* A step of another kind that leaves the plans alone keeps their shape.
LEMMA SamePlans ==
  ASSUME PlanShape, plan' = plan
  PROVE  PlanShape'
  BY DEF PlanShape

\* What a session plans for one trigger keeps the shape of the plans.
LEMMA PlanSet ==
  ASSUME TypeOK, PlanShape, NEW s \in Sessions, NEW t \in Triggers, NEW p \in Plan,
         plan' = [plan EXCEPT ![s][t] = p],
         p.op = "none" <=> p.row = 0,
         p.notify => p.op \in {"insert", "update"},
         p.op = "insert" => p.notify
  PROVE  /\ PlanShape'
         /\ plan' \in [Sessions -> [Triggers -> Plan]]
         /\ plan'[s][t] = p
         /\ \A x \in Sessions, u \in Triggers : <<x, u>> # <<s, t>> => plan'[x][u] = plan[x][u]
  <1>1. plan \in [Sessions -> [Triggers -> Plan]]
    BY DEF TypeOK
  <1>2. /\ plan'[s][t] = p
        /\ \A x \in Sessions, u \in Triggers : <<x, u>> # <<s, t>> => plan'[x][u] = plan[x][u]
    BY <1>1
  <1>3. plan' \in [Sessions -> [Triggers -> Plan]]
    BY <1>1
  <1>4. PlanShape'
    <2> SUFFICES ASSUME NEW x \in Sessions, NEW u \in Triggers
                 PROVE  /\ plan'[x][u].op = "none" <=> plan'[x][u].row = 0
                        /\ plan'[x][u].notify => plan'[x][u].op \in {"insert", "update"}
                        /\ plan'[x][u].op = "insert" => plan'[x][u].notify
      BY DEF PlanShape
    <2>1. CASE x = s /\ u = t
      BY <1>2, <2>1
    <2>2. CASE ~(x = s /\ u = t)
      <3>1. plan'[x][u] = plan[x][u]
        BY <1>2, <2>2
      <3> QED
        BY <3>1 DEF PlanShape
    <2> QED
      BY <2>1, <2>2
  <1> QED
    BY <1>2, <1>3, <1>4

\* SelectActive(s, t) sets one plan and moves on.
LEMMA SelectTypes ==
  ASSUME TypeInv, NEW s \in Sessions, NEW t \in Triggers, SelectActive(s, t)
  PROVE  TypeInv'
  <1>1. TypeOK /\ PlanShape /\ KeyImpliesActive
    BY DEF TypeInv
  <1>2. /\ plan' = [plan EXCEPT ![s][t] = PlanFor(want[s][t], Active(t))]
        /\ UNCHANGED <<mode, samples, clock, status, trigger, key, count, notified, lastId,
                       announced, sample, want, raced, opc, opRow, faults>>
        /\ pc' = [pc EXCEPT ![s] = IF want[s][t] = "open" /\ Active(t) = {}
                                   THEN "insert" ELSE After(t)]
    BY DEF SelectActive, rowVars, operatorVars
  <1>3. want[s][t] \in {"none", "open", "resolve"}
    BY <1>1 DEF TypeOK
  <1>4. PlanShape' /\ plan' \in [Sessions -> [Triggers -> Plan]]
    <2> DEFINE p == PlanFor(want[s][t], Active(t))
    <2>1. /\ p \in Plan /\ (p.op = "none" <=> p.row = 0)
          /\ p.notify => p.op \in {"insert", "update"}
          /\ p.op = "insert" => p.notify
      BY <1>1, <1>3, PlanForShape
    <2> HIDE DEF p
    <2>2. plan' = [plan EXCEPT ![s][t] = p]
      BY <1>2 DEF p
    <2> QED
      BY <1>1, <2>1, <2>2, PlanSet
  <1>5. pc' \in [Sessions -> Control]
    BY <1>1, <1>2 DEF TypeOK, Control, After, Triggers
  <1>6. KeyImpliesActive'
    BY <1>1, <1>2 DEF KeyImpliesActive
  <1> QED
    BY <1>1, <1>2, <1>4, <1>5, <1>6 DEF TypeInv, TypeOK, Control

\* InsertIncident(s, t) plans a new row or ends the session.
LEMMA InsertTypes ==
  ASSUME TypeInv, NEW s \in Sessions, NEW t \in Triggers, InsertIncident(s, t)
  PROVE  TypeInv'
  <1>1. TypeOK /\ PlanShape /\ KeyImpliesActive
    BY DEF TypeInv
  <1>2. UNCHANGED <<mode, samples, clock, status, trigger, key, count, notified, announced,
                    raced, opc, opRow, faults>>
    BY DEF InsertIncident, rowVars, operatorVars
  <1>3. KeyImpliesActive'
    BY <1>1, <1>2 DEF KeyImpliesActive
  <1>4. CASE Active(t) = {}
    <2> DEFINE p == [op |-> "insert", row |-> lastId + 1, count |-> 1, notify |-> TRUE]
    <2>1. /\ lastId < MaxIncidents /\ lastId' = lastId + 1
          /\ plan' = [plan EXCEPT ![s][t] = p]
          /\ pc' = [pc EXCEPT ![s] = After(t)]
          /\ UNCHANGED <<sample, want>>
      BY <1>4 DEF InsertIncident
    <2>2. lastId + 1 \in 0..MaxIncidents /\ lastId + 1 # 0
      BY <1>1, <2>1 DEF TypeOK
    <2>3. p \in Plan
      BY <2>2 DEF Plan
    <2>4. p.op = "insert" /\ p.row # 0 /\ p.notify
      BY <2>2
    <2> HIDE DEF p
    <2>5. PlanShape' /\ plan' \in [Sessions -> [Triggers -> Plan]]
      BY <1>1, <2>1, <2>3, <2>4, PlanSet
    <2>6. pc' \in [Sessions -> Control]
      BY <1>1, <2>1 DEF TypeOK, Control, After, Triggers
    <2> QED
      BY <1>1, <1>2, <1>3, <2>1, <2>2, <2>5, <2>6 DEF TypeInv, TypeOK, Control
  <1>5. CASE Active(t) # {}
    <2>1. EndSession(s) /\ lastId' = lastId
      BY <1>5 DEF InsertIncident
    <2>2. SessionTypes /\ PlanShape'
      BY <1>1, <2>1, EndedShape
    <2> QED
      BY <1>1, <1>2, <1>3, <2>1, <2>2 DEF TypeInv, TypeOK, SessionTypes, Control
  <1> QED
    BY <1>4, <1>5

\* An operator's commit keeps types, and the key of active rows only.
LEMMA OperatorTypes ==
  ASSUME TypeInv, NEW o \in Operators, OperatorCommits(o)
  PROVE  TypeInv'
  <1>1. TypeOK /\ PlanShape /\ KeyImpliesActive
    BY DEF TypeInv
  <1>2. /\ UNCHANGED <<mode, samples, clock, trigger, count, notified, lastId, announced,
                       pc, sample, want, plan, faults>>
        /\ opc' = [opc EXCEPT ![o] = "idle"] /\ opRow' = [opRow EXCEPT ![o] = 0]
        /\ raced' = [x \in Sessions |->
             raced[x] \/ (x \in Sessions /\ pc[x] \in Triggers \cup {"insert", "commit"})]
    BY DEF OperatorCommits, sessionVars, Disturbs
  <1>3. status' \in [Rows -> Status] /\ key' \in [Rows -> BOOLEAN] /\ KeyImpliesActive'
    <2>1. CASE opc[o] = "acknowledge"
      <3>1. status' = [status EXCEPT ![opRow[o]] = "acknowledged"] /\ key' = key
        BY <2>1 DEF OperatorCommits
      <3> QED
        BY <1>1, <3>1 DEF TypeOK, KeyImpliesActive, Status, ACTIVE_INCIDENT_STATUSES
    <2>2. CASE opc[o] # "acknowledge"
      <3>1. /\ status' = [status EXCEPT ![opRow[o]] = "resolved"]
            /\ key' = [key EXCEPT ![opRow[o]] = FALSE]
        BY <2>2 DEF OperatorCommits
      <3> QED
        BY <1>1, <3>1 DEF TypeOK, KeyImpliesActive, Status
    <2> QED
      BY <2>1, <2>2
  <1>4. raced' \in [Sessions -> BOOLEAN]
    BY <1>2
  <1>5. opc' \in [Operators -> {"idle", "acknowledge", "resolve"}]
        /\ opRow' \in [Operators -> 0..MaxIncidents]
    BY <1>1, <1>2 DEF TypeOK
  <1>6. PlanShape'
    BY <1>1, <1>2, SamePlans
  <1> QED
    BY <1>1, <1>2, <1>3, <1>4, <1>5, <1>6 DEF TypeInv, TypeOK

\* A sample with one field replaced.
LEMMA SampleFields ==
  ASSUME NEW smp \in [at : 0..MaxSamples, kind : Kinds], NEW i, NEW k
  PROVE  /\ [smp EXCEPT !.at = i] = [at |-> i, kind |-> smp.kind]
         /\ [smp EXCEPT !.kind = k] = [at |-> smp.at, kind |-> k]
  OBVIOUS

\* Every step keeps the types.
LEMMA TypeStep ==
  ASSUME TypeInv, [Next]_vars
  PROVE  TypeInv'
  <1>1. TypeOK /\ PlanShape /\ KeyImpliesActive
    BY DEF TypeInv
  <1>2. ASSUME NEW s \in Sessions, ProbeStarts(s)
        PROVE  TypeInv'
    <2>1. /\ clock' \in 0..MaxSamples
          /\ sample' \in [Sessions -> [at : 0..MaxSamples, kind : Kinds]]
          /\ pc' \in [Sessions -> Control]
      <3>1. clock' = clock + 1 /\ clock' \in 0..MaxSamples
        BY <1>1, <1>2 DEF ProbeStarts, TypeOK
      <3>2. sample' = [sample EXCEPT ![s] = [at |-> clock', kind |-> sample[s].kind]]
        <4>1. sample[s] \in [at : 0..MaxSamples, kind : Kinds]
          BY <1>1 DEF TypeOK
        <4>2. [sample[s] EXCEPT !.at = clock + 1] = [at |-> clock + 1, kind |-> sample[s].kind]
          BY <4>1, SampleFields
        <4>3. sample' = [sample EXCEPT ![s] = [sample[s] EXCEPT !.at = clock + 1]]
          BY <1>2 DEF ProbeStarts
        <4> QED
          BY <3>1, <4>2, <4>3
      <3>3. [at |-> clock', kind |-> sample[s].kind] \in [at : 0..MaxSamples, kind : Kinds]
        BY <1>1, <3>1 DEF TypeOK
      <3>4. sample' \in [Sessions -> [at : 0..MaxSamples, kind : Kinds]]
        BY <1>1, <3>2, <3>3 DEF TypeOK
      <3>5. pc' \in [Sessions -> Control]
        BY <1>1, <1>2 DEF ProbeStarts, TypeOK, Control
      <3> QED
        BY <3>1, <3>4, <3>5
    <2>2. KeyImpliesActive' /\ PlanShape'
      BY <1>1, <1>2, SamePlans DEF ProbeStarts, KeyImpliesActive, rowVars
    <2> QED
      BY <1>1, <1>2, <2>1, <2>2 DEF ProbeStarts, TypeInv, TypeOK, Control, rowVars, operatorVars
  <1>3. ASSUME NEW s \in Sessions, NEW k \in Kinds, FlushSample(s, k)
        PROVE  TypeInv'
    <2> DEFINE smp == [sample[s] EXCEPT !.kind = k]
    <2>1. /\ sample' = [sample EXCEPT ![s] = smp] /\ want' = [want EXCEPT ![s] = Wants(smp)]
          /\ pc' = [pc EXCEPT ![s] = "availability"]
          /\ raced' = [raced EXCEPT ![s] = FALSE]
      BY <1>3 DEF FlushSample
    <2>2. smp \in [at : 0..MaxSamples, kind : Kinds]
      BY <1>1, SampleFields DEF TypeOK
    <2>3. Wants(smp) \in [Triggers -> {"none", "open", "resolve"}]
      BY WantsType
    <2> HIDE DEF smp
    <2>4. /\ sample' \in [Sessions -> [at : 0..MaxSamples, kind : Kinds]]
          /\ want' \in [Sessions -> [Triggers -> {"none", "open", "resolve"}]]
          /\ pc' \in [Sessions -> Control]
      BY <1>1, <2>1, <2>2, <2>3 DEF TypeOK, Control, Triggers
    <2>5. raced' \in [Sessions -> BOOLEAN]
      BY <1>1, <2>1 DEF TypeOK
    <2>6. KeyImpliesActive' /\ PlanShape'
      BY <1>1, <1>3, SamePlans DEF FlushSample, KeyImpliesActive, rowVars
    <2> QED
      BY <1>1, <1>3, <2>4, <2>5, <2>6
      DEF FlushSample, TypeInv, TypeOK, Control, rowVars, operatorVars
  <1>4. ASSUME NEW s \in Sessions, NEW t \in Triggers, SelectActive(s, t)
        PROVE  TypeInv'
    BY <1>4, SelectTypes
  <1>5. ASSUME NEW s \in Sessions, NEW t \in Triggers, InsertIncident(s, t)
        PROVE  TypeInv'
    BY <1>5, InsertTypes
  <1>6. ASSUME NEW s \in Sessions, CommitSample(s)
        PROVE  TypeInv'
    BY <1>6, CommitTypes
  <1>7. ASSUME NEW s \in Sessions, Dispatch(s)
        PROVE  TypeInv'
    <2>1. announced' \in SUBSET (Rows \X Nat)
      BY <1>1, <1>7, MessagesType DEF Dispatch, TypeOK
    <2>2. pc' \in [Sessions -> Control]
      BY <1>1, <1>7 DEF Dispatch, TypeOK, Control
    <2>3. KeyImpliesActive' /\ PlanShape'
      BY <1>1, <1>7, SamePlans DEF Dispatch, KeyImpliesActive, rowVars
    <2> QED
      BY <1>1, <1>7, <2>1, <2>2, <2>3
      DEF Dispatch, TypeInv, TypeOK, Control, rowVars, operatorVars
  <1>8. ASSUME NEW s \in Sessions, MarkNotificationAttempted(s)
        PROVE  TypeInv'
    <2>1. notified' \in [Rows -> {"never", "recent", "due"}]
      BY <1>1, <1>8 DEF MarkNotificationAttempted, TypeOK
    <2>2. SessionTypes /\ PlanShape'
      BY <1>1, <1>8, EndedShape DEF MarkNotificationAttempted
    <2>3. KeyImpliesActive'
      BY <1>1, <1>8 DEF MarkNotificationAttempted, KeyImpliesActive
    <2> QED
      BY <1>1, <1>8, <2>1, <2>2, <2>3
      DEF MarkNotificationAttempted, TypeInv, TypeOK, Control, SessionTypes, operatorVars
  <1>9. ASSUME NEW s \in Sessions, Crash(s)
        PROVE  TypeInv'
    <2>1. faults' \in 0..MaxFaults
      BY <1>1, <1>9 DEF Crash, TypeOK
    <2>2. SessionTypes /\ PlanShape'
      BY <1>1, <1>9, EndedShape DEF Crash
    <2>3. KeyImpliesActive'
      BY <1>1, <1>9 DEF Crash, KeyImpliesActive, rowVars
    <2> QED
      BY <1>1, <1>9, <2>1, <2>2, <2>3
      DEF Crash, TypeInv, TypeOK, Control, SessionTypes, rowVars, operatorVars
  <1>10. ASSUME NEW r \in Rows, CooldownElapses(r)
         PROVE  TypeInv'
    <2>1. notified' \in [Rows -> {"never", "recent", "due"}]
      BY <1>1, <1>10 DEF CooldownElapses, TypeOK
    <2>2. KeyImpliesActive' /\ PlanShape'
      BY <1>1, <1>10, SamePlans DEF CooldownElapses, KeyImpliesActive, sessionVars
    <2> QED
      BY <1>1, <1>10, <2>1, <2>2 DEF CooldownElapses, TypeInv, TypeOK, sessionVars, operatorVars
  <1>11. ASSUME NEW o \in Operators, NEW r \in Rows, NEW q \in {"acknowledge", "resolve"},
                OperatorReads(o, r, q)
         PROVE  TypeInv'
    <2>1. /\ opc' \in [Operators -> {"idle", "acknowledge", "resolve"}]
          /\ opRow' \in [Operators -> 0..MaxIncidents]
      BY <1>1, <1>11 DEF OperatorReads, TypeOK, Rows
    <2>2. KeyImpliesActive' /\ PlanShape'
      BY <1>1, <1>11, SamePlans DEF OperatorReads, KeyImpliesActive, sessionVars, rowVars
    <2> QED
      BY <1>1, <1>11, <2>1, <2>2 DEF OperatorReads, TypeInv, TypeOK, sessionVars, rowVars
  <1>12. ASSUME NEW o \in Operators, OperatorCommits(o)
         PROVE  TypeInv'
    BY <1>12, OperatorTypes
  <1>13. CASE UNCHANGED vars
    <2>1. KeyImpliesActive' /\ PlanShape'
      BY <1>1, <1>13, SamePlans DEF vars, sessionVars, rowVars, KeyImpliesActive
    <2> QED
      BY <1>1, <1>13, <2>1 DEF vars, TypeInv, TypeOK, sessionVars, rowVars, operatorVars
  <1> QED
    BY <1>2, <1>3, <1>4, <1>5, <1>6, <1>7, <1>8, <1>9, <1>10, <1>11, <1>12, <1>13 DEF Next

\* The initial state is well typed.
LEMMA TypeInit == Init => TypeInv
  <1> SUFFICES ASSUME Init PROVE TypeInv
    OBVIOUS
  <1>1. NoPlans \in [Triggers -> Plan] /\ \A t \in Triggers : NoPlans[t] = NoPlan
    BY DEF NoPlans, NoPlan, Plan
  <1>2. NoWants \in [Triggers -> {"none", "open", "resolve"}]
    BY DEF NoWants
  <1>3. NoSample \in [at : 0..MaxSamples, kind : Kinds]
    BY DEF NoSample, Kinds
  <1>4. KeyImpliesActive
    BY DEF Init, KeyImpliesActive
  <1>5. PlanShape
    BY <1>1 DEF Init, PlanShape, NoPlan
  <1>6. /\ samples \in [Times -> Kinds \cup {"none"}]
        /\ sample \in [Sessions -> [at : 0..MaxSamples, kind : Kinds]]
        /\ want \in [Sessions -> [Triggers -> {"none", "open", "resolve"}]]
        /\ plan \in [Sessions -> [Triggers -> Plan]]
    BY <1>1, <1>2, <1>3 DEF Init
  <1> QED
    BY <1>4, <1>5, <1>6 DEF Init, TypeInv, TypeOK, Status

\* Types, for every number of sessions, operators, samples and incidents.
THEOREM TypeCorrect == Spec => []TypeInv
  BY TypeInit, TypeStep, PTL DEF Spec

\* "Only active incidents retain an active_key", whatever stale commits of probes
\* and operators follow each other.
THEOREM KeysOnActiveRows == Spec => []KeyImpliesActive
  <1>1. TypeInv => KeyImpliesActive
    BY DEF TypeInv
  <1> QED
    BY <1>1, TypeCorrect, PTL

-----------------------------------------------------------------------------
(* Nobody is left untold.  A cooldown is only ever started for a message that *)
(* was handed over, and in broker mode the message is part of the insert.     *)

Announced(r) == \E a \in announced : a[1] = r

\* The rows that sessions will change and operators have read exist.
RowsInHand ==
  /\ \A s \in Sessions, t \in Triggers :
       plan[s][t].op \in {"update", "resolve"} => status[plan[s][t].row] # "absent"
  /\ \A o \in Operators : opc[o] # "idle" => opRow[o] \in Rows /\ status[opRow[o]] # "absent"

Told ==
  /\ \A r \in Rows : notified[r] # "never" => Announced(r)
  /\ mode = "broker" => \A r \in Rows : status[r] # "absent" => Announced(r)
  /\ \A s \in Sessions : pc[s] = "mark" => MessageIds(s) \subseteq announced

ToldInv == TypeInv /\ RowsInHand /\ Told

\* No row disappears.
RowsStay == \A r \in Rows : status[r] # "absent" => status'[r] # "absent"

\* The plans of session x are the ones it had, or it has none.
PlansStay(x) == plan'[x] = plan[x] \/ plan'[x] = NoPlans

\* A plan that changes a row names one.
LEMMA PlannedRow ==
  ASSUME TypeInv, NEW s \in Sessions, NEW t \in Triggers, plan[s][t].op # "none"
  PROVE  plan[s][t].row \in Rows
  <1>1. plan[s][t].row \in 0..MaxIncidents
    BY DEF TypeInv, TypeOK, Plan
  <1>2. plan[s][t].row # 0
    BY DEF TypeInv, PlanShape
  <1> QED
    BY <1>1, <1>2 DEF Rows

\* Rows in hand stay in hand while nobody plans anything and no row disappears.
LEMMA InHandKept ==
  ASSUME TypeInv, RowsInHand, RowsStay, \A x \in Sessions : PlansStay(x),
         \A o \in Operators : opc'[o] # "idle" => opc'[o] = opc[o] /\ opRow'[o] = opRow[o]
  PROVE  RowsInHand'
  <1>1. ASSUME NEW s \in Sessions, NEW t \in Triggers, plan'[s][t].op \in {"update", "resolve"}
        PROVE  status'[plan'[s][t].row] # "absent"
    <2>1. plan'[s] # NoPlans
      BY <1>1 DEF NoPlans, NoPlan
    <2>2. plan'[s] = plan[s]
      BY <2>1 DEF PlansStay
    <2>3. plan[s][t].row \in Rows
      BY <1>1, <2>2, PlannedRow
    <2>4. status[plan[s][t].row] # "absent"
      BY <1>1, <2>2 DEF RowsInHand
    <2> QED
      BY <2>2, <2>3, <2>4 DEF RowsStay
  <1>2. ASSUME NEW o \in Operators, opc'[o] # "idle"
        PROVE  opRow'[o] \in Rows /\ status'[opRow'[o]] # "absent"
    BY <1>2 DEF RowsInHand, RowsStay
  <1> QED
    BY <1>1, <1>2 DEF RowsInHand

\* A step that announces at least as much, starts no cooldown, inserts no row and
\* leaves who is about to start one alone.
LEMMA ToldKept ==
  ASSUME Told, mode' = mode, announced \subseteq announced',
         \A r \in Rows : notified'[r] = "never" \/ notified[r] # "never",
         \A r \in Rows : status'[r] = "absent" \/ status[r] # "absent",
         \A x \in Sessions : pc'[x] = "mark" => pc[x] = "mark" /\ plan'[x] = plan[x]
  PROVE  Told'
  <1>1. \A r \in Rows : Announced(r) => Announced(r)'
    BY DEF Announced
  <1>2. ASSUME NEW x \in Sessions, pc'[x] = "mark"
        PROVE  MessageIds(x)' \subseteq announced'
    <2>1. MessageIds(x)' = MessageIds(x)
      BY <1>2 DEF MessageIds, Notifies
    <2> QED
      BY <1>2, <2>1 DEF Told
  <1> QED
    BY <1>1, <1>2 DEF Told

\* The rows of a session's messages.
LEMMA MessageOf ==
  ASSUME NEW s \in Sessions, NEW t \in Triggers, plan[s][t].notify,
         MessageIds(s) \subseteq announced
  PROVE  Announced(plan[s][t].row)
  <1>1. <<plan[s][t].row, plan[s][t].count>> \in announced
    BY DEF MessageIds, Notifies
  <1> QED
    BY <1>1 DEF Announced

\* A commit inserts no row it does not announce in broker mode.
LEMMA CommitTold ==
  ASSUME ToldInv, NEW s \in Sessions, CommitSample(s)
  PROVE  RowsInHand' /\ Told'
  <1>1. TypeInv /\ TypeOK /\ PlanShape /\ RowsInHand /\ Told
    BY DEF ToldInv, TypeInv
  <1>2. RowsStay
    <2> SUFFICES ASSUME NEW r \in Rows, status[r] # "absent"
                 PROVE  status'[r] # "absent"
      BY DEF RowsStay
    <2>1. CASE Untouched(r)
      BY <2>1 DEF Untouched
    <2>2. ASSUME NEW t \in Triggers, Written(s, r, t)
          PROVE  status'[r] # "absent"
      BY <2>2 DEF Written
    <2> QED
      BY <1>1, <2>1, <2>2, CommitWrites
  <1>3. \A x \in Sessions : PlansStay(x)
    <2>1. CASE mode = "direct" /\ Notifies(s) # {}
      BY <2>1 DEF CommitSample, PlansStay
    <2>2. CASE ~(mode = "direct" /\ Notifies(s) # {})
      <3>1. EndSession(s)
        BY <2>2 DEF CommitSample
      <3> QED
        BY <1>1, <3>1, Ended DEF PlansStay
    <2> QED
      BY <2>1, <2>2
  <1>4. UNCHANGED <<mode, opc, opRow>>
    BY DEF CommitSample, operatorVars
  <1>5. RowsInHand'
    BY <1>1, <1>2, <1>3, <1>4, InHandKept
  <1>6. \A x \in Sessions : pc'[x] = "mark" => pc[x] = "mark" /\ plan'[x] = plan[x]
    <2>1. CASE mode = "direct" /\ Notifies(s) # {}
      BY <1>1, <2>1 DEF CommitSample, TypeOK
    <2>2. CASE ~(mode = "direct" /\ Notifies(s) # {})
      <3>1. EndSession(s)
        BY <2>2 DEF CommitSample
      <3> QED
        BY <1>1, <3>1, Ended
    <2> QED
      BY <2>1, <2>2
  <1>7. CASE mode # "broker"
    <2>1. UNCHANGED <<announced, notified>>
      BY <1>7 DEF CommitSample, EnqueueRequests
    <2>2. ASSUME NEW x \in Sessions, pc'[x] = "mark"
          PROVE  MessageIds(x)' \subseteq announced'
      <3>1. MessageIds(x)' = MessageIds(x)
        BY <1>6, <2>2 DEF MessageIds, Notifies
      <3> QED
        BY <1>1, <1>6, <2>1, <2>2, <3>1 DEF Told
    <2>3. \A r \in Rows : Announced(r)' <=> Announced(r)
      BY <2>1 DEF Announced
    <2>4. Told'
      BY <1>1, <1>4, <1>7, <2>1, <2>2, <2>3 DEF Told
    <2> QED
      BY <1>5, <2>4
  <1>8. CASE mode = "broker"
    <2>1. announced' = announced \cup MessageIds(s)
      BY <1>8 DEF CommitSample, EnqueueRequests
    <2>2. ASSUME NEW x \in Sessions, pc'[x] = "mark"
          PROVE  MessageIds(x)' \subseteq announced'
      <3>1. MessageIds(x)' = MessageIds(x)
        BY <1>6, <2>2 DEF MessageIds, Notifies
      <3> QED
        BY <1>1, <1>6, <2>1, <2>2, <3>1 DEF Told
    <2>3. ASSUME NEW r \in Rows, Announced(r)
          PROVE  Announced(r)'
      BY <2>1, <2>3 DEF Announced
    <2>4. ASSUME NEW r \in Rows, NEW t \in Triggers, plan[s][t].notify, plan[s][t].row = r
          PROVE  Announced(r)'
      <3>1. <<r, plan[s][t].count>> \in announced'
        BY <2>1, <2>4 DEF MessageIds, Notifies
      <3> QED
        BY <3>1 DEF Announced
    <2>5. ASSUME NEW r \in Rows
          PROVE  /\ notified'[r] # "never" => Announced(r)'
                 /\ status'[r] # "absent" => Announced(r)'
      <3>1. /\ notified[r] # "never" => Announced(r)'
            /\ status[r] # "absent" => Announced(r)'
        BY <1>1, <1>8, <2>3 DEF Told
      <3>2. CASE Untouched(r)
        BY <3>1, <3>2 DEF Untouched
      <3>3. ASSUME NEW t \in Triggers, Written(s, r, t)
            PROVE  /\ notified'[r] # "never" => Announced(r)'
                   /\ status'[r] # "absent" => Announced(r)'
        <4>1. CASE plan[s][t].notify
          BY <2>4, <3>3, <4>1 DEF Written
        <4>2. CASE ~plan[s][t].notify
          <5>1. plan[s][t].op # "insert"
            BY <1>1, <4>2 DEF PlanShape
          <5>2. notified'[r] = notified[r]
            BY <3>3, <4>2 DEF Written
          <5>3. CASE plan[s][t].op = "resolve"
            <6>1. status[r] # "absent"
              BY <1>1, <3>3, <5>3 DEF RowsInHand, Written
            <6> QED
              BY <3>1, <5>2, <6>1
          <5>4. CASE plan[s][t].op # "resolve"
            <6>1. status'[r] = status[r]
              BY <3>3, <5>1, <5>4 DEF Written
            <6> QED
              BY <3>1, <5>2, <6>1
          <5> QED
            BY <5>3, <5>4
        <4> QED
          BY <4>1, <4>2
      <3> QED
        BY <1>1, <3>2, <3>3, CommitWrites
    <2> QED
      BY <1>5, <2>2, <2>5 DEF Told
  <1> QED
    BY <1>7, <1>8

\* Ending a session, as Crash, a refused insert and the end of the dispatch do.
LEMMA EndedStays ==
  ASSUME TypeOK, NEW s \in Sessions, EndSession(s)
  PROVE  /\ \A x \in Sessions : PlansStay(x)
         /\ \A x \in Sessions : pc'[x] = "mark" => pc[x] = "mark" /\ plan'[x] = plan[x]
  BY Ended DEF PlansStay

\* Every step keeps the rows in hand and the told ones.
LEMMA ToldStep ==
  ASSUME ToldInv, [Next]_vars
  PROVE  ToldInv'
  <1>1. TypeInv /\ TypeOK /\ PlanShape /\ RowsInHand /\ Told
    BY DEF ToldInv, TypeInv
  <1> SUFFICES RowsInHand' /\ Told'
    BY <1>1, TypeStep DEF ToldInv
  <1>2. ASSUME NEW s \in Sessions, ProbeStarts(s) \/ \E k \in Kinds : FlushSample(s, k)
        PROVE  RowsInHand' /\ Told'
    <2>1. UNCHANGED <<mode, status, notified, announced, plan, opc, opRow>>
      BY <1>2 DEF ProbeStarts, FlushSample, rowVars, operatorVars
    <2>2. \A x \in Sessions : pc'[x] = "mark" => pc[x] = "mark"
      BY <1>1, <1>2 DEF ProbeStarts, FlushSample, TypeOK
    <2>3. RowsInHand'
      BY <1>1, <2>1 DEF RowsInHand
    <2> QED
      BY <1>1, <2>1, <2>2, <2>3, ToldKept
  <1>3. ASSUME NEW s \in Sessions, NEW t \in Triggers, SelectActive(s, t)
        PROVE  RowsInHand' /\ Told'
    <2> DEFINE p == PlanFor(want[s][t], Active(t))
    <2>1. /\ UNCHANGED <<mode, status, notified, announced, opc, opRow>>
          /\ plan' = [plan EXCEPT ![s][t] = p]
          /\ pc[s] = t
          /\ pc' = [pc EXCEPT ![s] = IF want[s][t] = "open" /\ Active(t) = {}
                                     THEN "insert" ELSE After(t)]
      BY <1>3 DEF SelectActive, rowVars, operatorVars
    <2>2. p.op # "none" => p.row \in Active(t)
      <3>1. want[s][t] \in {"none", "open", "resolve"}
        BY <1>1 DEF TypeOK
      <3> QED
        BY <1>1, <3>1, PlanForShape
    <2> HIDE DEF p
    <2>3. p.op # "none" => status[p.row] # "absent"
      BY <1>1, <2>2 DEF Active, TypeInv, KeyImpliesActive, ACTIVE_INCIDENT_STATUSES
    <2>4. plan \in [Sessions -> [Triggers -> Plan]] /\ pc \in [Sessions -> Control]
      BY <1>1 DEF TypeOK, Control
    <2>5. ASSUME NEW x \in Sessions, NEW u \in Triggers
          PROVE  plan'[x][u] = p \/ plan'[x][u] = plan[x][u]
      BY <2>1, <2>4
    <2>6. RowsInHand'
      BY <1>1, <2>1, <2>3, <2>5 DEF RowsInHand
    <2>7. \A x \in Sessions : pc'[x] = "mark" => pc[x] = "mark" /\ plan'[x] = plan[x]
      BY <2>1, <2>4 DEF After
    <2> QED
      BY <1>1, <2>1, <2>6, <2>7, ToldKept
  <1>4. ASSUME NEW s \in Sessions, NEW t \in Triggers, InsertIncident(s, t)
        PROVE  RowsInHand' /\ Told'
    <2>1. UNCHANGED <<mode, status, notified, announced, opc, opRow>> /\ pc[s] = "insert"
      BY <1>4 DEF InsertIncident, rowVars, operatorVars
    <2>2. CASE Active(t) = {}
      <3> DEFINE p == [op |-> "insert", row |-> lastId + 1, count |-> 1, notify |-> TRUE]
      <3>1. plan' = [plan EXCEPT ![s][t] = p] /\ pc' = [pc EXCEPT ![s] = After(t)]
        BY <1>4, <2>2 DEF InsertIncident
      <3>2. p.op = "insert"
        OBVIOUS
      <3> HIDE DEF p
      <3>3. plan \in [Sessions -> [Triggers -> Plan]] /\ pc \in [Sessions -> Control]
        BY <1>1 DEF TypeOK, Control
      <3>4. ASSUME NEW x \in Sessions, NEW u \in Triggers
            PROVE  plan'[x][u] = p \/ plan'[x][u] = plan[x][u]
        BY <3>1, <3>3
      <3>5. RowsInHand'
        BY <1>1, <2>1, <3>2, <3>4 DEF RowsInHand
      <3>6. \A x \in Sessions : pc'[x] = "mark" => pc[x] = "mark" /\ plan'[x] = plan[x]
        BY <3>1, <3>3 DEF After
      <3> QED
        BY <1>1, <2>1, <3>5, <3>6, ToldKept
    <2>3. CASE Active(t) # {}
      <3>1. EndSession(s)
        BY <1>4, <2>3 DEF InsertIncident
      <3>2. RowsInHand'
        BY <1>1, <2>1, <3>1, EndedStays, InHandKept DEF RowsStay
      <3> QED
        BY <1>1, <2>1, <3>1, <3>2, EndedStays, ToldKept
    <2> QED
      BY <2>2, <2>3
  <1>5. ASSUME NEW s \in Sessions, CommitSample(s)
        PROVE  RowsInHand' /\ Told'
    BY <1>5, CommitTold
  <1>6. ASSUME NEW s \in Sessions, Dispatch(s)
        PROVE  RowsInHand' /\ Told'
    <2>1. /\ UNCHANGED <<mode, status, notified, plan, opc, opRow>>
          /\ announced' = announced \cup MessageIds(s)
          /\ pc' = [pc EXCEPT ![s] = "mark"]
      BY <1>6 DEF Dispatch, rowVars, operatorVars
    <2>2. RowsInHand'
      BY <1>1, <2>1 DEF RowsInHand
    <2>3. ASSUME NEW x \in Sessions, pc'[x] = "mark"
          PROVE  MessageIds(x)' \subseteq announced'
      <3>1. MessageIds(x)' = MessageIds(x)
        BY <2>1 DEF MessageIds, Notifies
      <3>2. x = s \/ pc[x] = "mark"
        BY <1>1, <2>1, <2>3 DEF TypeOK
      <3> QED
        BY <1>1, <2>1, <3>1, <3>2 DEF Told
    <2>4. \A r \in Rows : Announced(r) => Announced(r)'
      BY <2>1 DEF Announced
    <2>5. Told'
      BY <1>1, <2>1, <2>3, <2>4 DEF Told
    <2> QED
      BY <2>2, <2>5
  <1>7. ASSUME NEW s \in Sessions, MarkNotificationAttempted(s)
        PROVE  RowsInHand' /\ Told'
    <2>1. /\ UNCHANGED <<mode, status, announced, opc, opRow>>
          /\ notified' = [r \in Rows |-> IF PlanOf(s, r).notify THEN "recent" ELSE notified[r]]
          /\ pc[s] = "mark" /\ EndSession(s)
      BY <1>7 DEF MarkNotificationAttempted, operatorVars
    <2>2. RowsInHand'
      BY <1>1, <2>1, EndedStays, InHandKept DEF RowsStay
    <2>3. \A r \in Rows : Announced(r) <=> Announced(r)'
      BY <2>1 DEF Announced
    <2>4. ASSUME NEW r \in Rows, notified'[r] # "never"
          PROVE  Announced(r)
      <3>1. CASE notified[r] # "never"
        BY <1>1, <3>1 DEF Told
      <3>2. CASE PlanOf(s, r).notify
        <4>1. PICK t \in Triggers : plan[s][t].row = r /\ PlanOf(s, r) = plan[s][t]
          BY <1>1, <3>2, PlanOfRow DEF NoPlan
        <4>2. MessageIds(s) \subseteq announced
          BY <1>1, <2>1 DEF Told
        <4> QED
          BY <3>2, <4>1, <4>2, MessageOf
      <3> QED
        BY <2>1, <2>4, <3>1, <3>2
    <2>5. ASSUME NEW x \in Sessions, pc'[x] = "mark"
          PROVE  MessageIds(x)' \subseteq announced'
      <3>1. pc[x] = "mark" /\ plan'[x] = plan[x]
        BY <1>1, <2>1, <2>5, EndedStays
      <3>2. MessageIds(x)' = MessageIds(x)
        BY <3>1 DEF MessageIds, Notifies
      <3> QED
        BY <1>1, <2>1, <3>1, <3>2 DEF Told
    <2>6. Told'
      BY <1>1, <2>1, <2>3, <2>4, <2>5 DEF Told
    <2> QED
      BY <2>2, <2>6
  <1>8. ASSUME NEW s \in Sessions, Crash(s)
        PROVE  RowsInHand' /\ Told'
    <2>1. UNCHANGED <<mode, status, notified, announced, opc, opRow>> /\ EndSession(s)
      BY <1>8 DEF Crash, rowVars, operatorVars
    <2>2. RowsInHand'
      BY <1>1, <2>1, EndedStays, InHandKept DEF RowsStay
    <2> QED
      BY <1>1, <2>1, <2>2, EndedStays, ToldKept
  <1>9. ASSUME NEW r \in Rows, CooldownElapses(r)
        PROVE  RowsInHand' /\ Told'
    <2>1. /\ UNCHANGED <<mode, status, announced, pc, plan, opc, opRow>>
          /\ notified[r] = "recent" /\ notified' = [notified EXCEPT ![r] = "due"]
      BY <1>9 DEF CooldownElapses, sessionVars, operatorVars
    <2>2. RowsInHand'
      BY <1>1, <2>1 DEF RowsInHand
    <2>3. \A q \in Rows : notified'[q] = "never" \/ notified[q] # "never"
      BY <1>1, <2>1 DEF TypeOK
    <2> QED
      BY <1>1, <2>1, <2>2, <2>3, ToldKept
  <1>10. ASSUME NEW o \in Operators, NEW r \in Rows, NEW q \in {"acknowledge", "resolve"},
                OperatorReads(o, r, q)
         PROVE  RowsInHand' /\ Told'
    <2>1. /\ UNCHANGED <<mode, status, notified, announced, pc, plan>>
          /\ status[r] # "absent"
          /\ opc' = [opc EXCEPT ![o] = q] /\ opRow' = [opRow EXCEPT ![o] = r]
      BY <1>10 DEF OperatorReads, sessionVars, rowVars, ACTIVE_INCIDENT_STATUSES
    <2>2. RowsInHand'
      <3>1. ASSUME NEW x \in Operators, opc'[x] # "idle"
            PROVE  opRow'[x] \in Rows /\ status'[opRow'[x]] # "absent"
        BY <1>1, <2>1, <3>1 DEF RowsInHand, TypeOK
      <3> QED
        BY <1>1, <2>1, <3>1 DEF RowsInHand
    <2> QED
      BY <1>1, <2>1, <2>2, ToldKept
  <1>11. ASSUME NEW o \in Operators, OperatorCommits(o)
         PROVE  RowsInHand' /\ Told'
    <2>1. /\ UNCHANGED <<mode, notified, announced, pc, plan>>
          /\ opc[o] # "idle"
          /\ \/ status' = [status EXCEPT ![opRow[o]] = "acknowledged"]
             \/ status' = [status EXCEPT ![opRow[o]] = "resolved"]
          /\ opc' = [opc EXCEPT ![o] = "idle"] /\ opRow' = [opRow EXCEPT ![o] = 0]
      BY <1>11 DEF OperatorCommits, sessionVars
    <2>2. opRow[o] \in Rows /\ status[opRow[o]] # "absent"
      BY <1>1, <2>1 DEF RowsInHand
    <2>3. \A r \in Rows : status'[r] # "absent" <=> status[r] # "absent"
      BY <1>1, <2>1, <2>2 DEF TypeOK
    <2>4. \A x \in Operators : opc'[x] # "idle" => opc'[x] = opc[x] /\ opRow'[x] = opRow[x]
      BY <1>1, <2>1 DEF TypeOK
    <2>5. RowsInHand'
      BY <1>1, <2>1, <2>3, <2>4, InHandKept DEF RowsStay, PlansStay
    <2> QED
      BY <1>1, <2>1, <2>3, <2>5, ToldKept
  <1>12. CASE UNCHANGED vars
    <2>1. UNCHANGED <<mode, status, notified, announced, pc, plan, opc, opRow>>
      BY <1>12 DEF vars, rowVars, sessionVars, operatorVars
    <2>2. RowsInHand'
      BY <1>1, <2>1 DEF RowsInHand
    <2> QED
      BY <1>1, <2>1, <2>2, ToldKept
  <1> QED
    BY <1>2, <1>3, <1>4, <1>5, <1>6, <1>7, <1>8, <1>9, <1>10, <1>11, <1>12 DEF Next

\* At the start no row exists.
LEMMA ToldInit == Init => ToldInv
  <1> SUFFICES ASSUME Init PROVE ToldInv
    OBVIOUS
  <1>1. RowsInHand
    BY DEF Init, RowsInHand, NoPlans, NoPlan
  <1>2. Told
    BY DEF Init, Told
  <1> QED
    BY <1>1, <1>2, TypeInit DEF ToldInv

\* The cooldown never silences an incident nobody was told about, whatever crashes
\* separate a commit, its dispatch and the mark that starts the cooldown.
THEOREM IncidentsAreTold == Spec => []NoSilentIncident
  <1>1. ToldInv => NoSilentIncident
    <2> SUFFICES ASSUME ToldInv, NEW r \in Rows, status[r] # "absent"
                 PROVE  Announced(r) \/ (mode = "direct" /\ notified[r] = "never")
      BY DEF NoSilentIncident, Announced
    <2>1. mode \in {"broker", "direct"}
      BY DEF ToldInv, TypeInv, TypeOK
    <2> QED
      BY <2>1 DEF ToldInv, Told
  <1> QED
    BY <1>1, ToldInit, ToldStep, PTL DEF Spec

-----------------------------------------------------------------------------
(* Incidents rest on evidence.  A session that wants to open one has counted   *)
(* its bad samples, all committed but its own, and its own commits with the    *)
(* incident; samples are never overwritten because no two share a sampled_at.  *)

Uncommitted(s) == pc[s] \notin {"idle", "dispatch", "mark"}

Bad(t, f) == {i \in Times : f[i] = BadKind(t)}

\* No two samples share a sampled_at.
SamplesApart ==
  /\ \A i \in Times : samples[i] # "none" => i <= clock
  /\ \A s \in Sessions : Uncommitted(s) =>
       sample[s].at \in 1..clock /\ samples[sample[s].at] = "none"
  /\ \A s, x \in Sessions :
       Uncommitted(s) /\ Uncommitted(x) /\ s # x => sample[s].at # sample[x].at

\* A session that has not inserted its sample has decided nothing.
Fresh == \A s \in Sessions : pc[s] \in {"idle", "probe"} => want[s] = NoWants /\ plan[s] = NoPlans

\* Session s may open an incident of kind t.
Grounded(s, t) == Cardinality(Bad(t, Visible(sample[s]))) >= Threshold

Grounds ==
  \A s \in Sessions, t \in Triggers : Uncommitted(s) =>
    /\ plan[s][t].op = "insert" => want[s][t] = "open"
    /\ want[s][t] = "open" => Grounded(s, t)

EvidenceInv == ToldInv /\ SamplesApart /\ Fresh /\ Grounds /\ IncidentHasEvidence

\* Every set of sample times is finite, and larger ones have more members.
LEMMA TimesFinite ==
  /\ \A S \in SUBSET Times : IsFiniteSet(S) /\ Cardinality(S) \in Nat
  /\ \A S, T \in SUBSET Times : S \subseteq T => Cardinality(S) <= Cardinality(T)
  <1>1. IsFiniteSet(Times)
    BY FS_Interval DEF Times
  <1>2. \A S \in SUBSET Times : IsFiniteSet(S) /\ Cardinality(S) \in Nat
    BY <1>1, FS_Subset, FS_CardinalityType
  <1> QED
    BY <1>2, FS_Subset

\* More bad samples are as good a reason.
LEMMA MoreGrounds ==
  ASSUME NEW t, NEW f, NEW g, Bad(t, f) \subseteq Bad(t, g),
         Cardinality(Bad(t, f)) >= Threshold
  PROVE  Cardinality(Bad(t, g)) >= Threshold
  <1>1. Bad(t, f) \in SUBSET Times /\ Bad(t, g) \in SUBSET Times
    BY DEF Bad
  <1>2. /\ Cardinality(Bad(t, f)) \in Nat /\ Cardinality(Bad(t, g)) \in Nat
        /\ Cardinality(Bad(t, f)) <= Cardinality(Bad(t, g))
    BY <1>1, TimesFinite
  <1> QED
    BY <1>2

\* The policies ask for an incident when the recent samples are all bad.
LEMMA OpenIsConsecutive ==
  ASSUME NEW smp, NEW t \in Triggers, Wants(smp)[t] = "open"
  PROVE  Consecutive(Visible(smp), BadKind(t))
  BY DEF Wants, Triggers, BadKind

\* Samples that are all bad are grounds.
LEMMA OpenHasGrounds ==
  ASSUME NEW smp, NEW t \in Triggers, Wants(smp)[t] = "open"
  PROVE  Cardinality(Bad(t, Visible(smp))) >= Threshold
  <1> DEFINE f == Visible(smp)
  <1>1. Consecutive(f, BadKind(t))
    BY OpenIsConsecutive
  <1> HIDE DEF f
  <1>2. Recent(f) \in SUBSET Times /\ Bad(t, f) \in SUBSET Times
    BY DEF Recent, Taken, Bad
  <1>3. Recent(f) \subseteq Bad(t, f)
    BY <1>1, <1>2 DEF Consecutive, Bad
  <1>4. Cardinality(Recent(f)) >= Threshold
    BY <1>1 DEF Consecutive
  <1>5. /\ Cardinality(Recent(f)) \in Nat /\ Cardinality(Bad(t, f)) \in Nat
        /\ Cardinality(Recent(f)) <= Cardinality(Bad(t, f))
    BY <1>2, <1>3, TimesFinite
  <1>6. Cardinality(Bad(t, f)) >= Threshold
    BY <1>4, <1>5
  <1> QED
    BY <1>6 DEF f

SameSession(x) ==
  pc'[x] = pc[x] /\ sample'[x] = sample[x] /\ want'[x] = want[x] /\ plan'[x] = plan[x]

\* Session x moves on, inserting only what it wants to open.
Advances(x) ==
  /\ Uncommitted(x) /\ pc[x] # "probe"
  /\ pc'[x] \in Triggers \cup {"insert", "commit"}
  /\ sample'[x] = sample[x] /\ want'[x] = want[x]
  /\ \A u \in Triggers : plan'[x][u].op = "insert" =>
       plan[x][u].op = "insert" \/ want[x][u] = "open"

Ends(x) ==
  \/ pc'[x] = "idle" /\ want'[x] = NoWants /\ plan'[x] = NoPlans
  \/ pc'[x] \in {"dispatch", "mark"}

\* Steps that neither sample nor commit keep samples apart and decisions grounded.
LEMMA GroundsKept ==
  ASSUME SamplesApart, Fresh, Grounds, samples' = samples, clock' = clock,
         \A x \in Sessions : SameSession(x) \/ Advances(x) \/ Ends(x)
  PROVE  SamplesApart' /\ Fresh' /\ Grounds'
  <1>1. ASSUME NEW x \in Sessions, Uncommitted(x)'
        PROVE  /\ SameSession(x) \/ Advances(x)
               /\ Uncommitted(x) /\ sample'[x] = sample[x] /\ want'[x] = want[x]
    BY <1>1 DEF Uncommitted, SameSession, Advances, Ends
  <1>2. SamplesApart'
    BY <1>1 DEF SamplesApart
  <1>3. Fresh'
    BY DEF Fresh, SameSession, Advances, Ends, Triggers
  <1>4. ASSUME NEW x \in Sessions, NEW t \in Triggers, Uncommitted(x)'
        PROVE  /\ plan'[x][t].op = "insert" => want'[x][t] = "open"
               /\ want'[x][t] = "open" => Grounded(x, t)'
    <2>1. Uncommitted(x) /\ sample'[x] = sample[x] /\ want'[x] = want[x]
      BY <1>1, <1>4
    <2>2. Grounded(x, t)' <=> Grounded(x, t)
      BY <2>1 DEF Grounded, Bad, Visible
    <2>3. plan'[x][t].op = "insert" => want[x][t] = "open"
      BY <1>1, <1>4, <2>1 DEF SameSession, Advances, Grounds
    <2> QED
      BY <2>1, <2>2, <2>3 DEF Grounds
  <1>5. Grounds'
    BY <1>4 DEF Grounds
  <1> QED
    BY <1>2, <1>3, <1>5

\* Rows keep their evidence while samples stay and no row is inserted.
LEMMA EvidenceKept ==
  ASSUME IncidentHasEvidence, samples' = samples, trigger' = trigger,
         \A r \in Rows : status'[r] = "absent" \/ status[r] # "absent"
  PROVE  IncidentHasEvidence'
  BY DEF IncidentHasEvidence

\* ProbeStarts takes a sampled_at nobody has.
LEMMA ProbeEvidence ==
  ASSUME EvidenceInv, NEW s \in Sessions, ProbeStarts(s)
  PROVE  SamplesApart' /\ Fresh' /\ Grounds' /\ IncidentHasEvidence'
  <1>1. TypeOK /\ SamplesApart /\ Fresh /\ Grounds /\ IncidentHasEvidence
    BY DEF EvidenceInv, ToldInv, TypeInv
  <1>2. /\ UNCHANGED <<samples, status, trigger, want, plan>>
        /\ clock < MaxSamples /\ clock' = clock + 1
        /\ pc[s] = "idle" /\ pc' = [pc EXCEPT ![s] = "probe"]
        /\ sample' = [sample EXCEPT ![s].at = clock + 1]
    BY DEF ProbeStarts, rowVars
  <1>3. /\ pc'[s] = "probe" /\ sample'[s].at = clock + 1
        /\ \A x \in Sessions : x # s => pc'[x] = pc[x] /\ sample'[x] = sample[x]
    BY <1>1, <1>2 DEF TypeOK
  <1>4. clock \in Nat /\ clock' \in Times /\ samples'[clock'] = "none"
    <2>1. clock \in Nat /\ clock' \in Times /\ ~(clock' <= clock)
      BY <1>1, <1>2 DEF TypeOK, Times
    <2> QED
      BY <1>1, <1>2, <2>1 DEF SamplesApart
  <1>5. SamplesApart'
    <2>1. \A i \in Times : samples'[i] # "none" => i <= clock'
      BY <1>1, <1>2, <1>4 DEF SamplesApart, Times
    <2>2. ASSUME NEW x \in Sessions, Uncommitted(x)'
          PROVE  /\ sample'[x].at \in 1..clock' /\ samples'[sample'[x].at] = "none"
                 /\ x # s => Uncommitted(x) /\ sample'[x].at \in 1..clock
      <3>1. CASE x = s
        BY <1>2, <1>3, <1>4, <3>1
      <3>2. CASE x # s
        <4>1. Uncommitted(x) /\ sample'[x] = sample[x]
          BY <1>3, <2>2, <3>2 DEF Uncommitted
        <4>2. sample[x].at \in 1..clock /\ samples[sample[x].at] = "none"
          BY <1>1, <4>1 DEF SamplesApart
        <4> QED
          BY <1>2, <1>4, <4>1, <4>2
      <3> QED
        BY <3>1, <3>2
    <2>3. ASSUME NEW x \in Sessions, NEW y \in Sessions, Uncommitted(x)', Uncommitted(y)', x # y
          PROVE  sample'[x].at # sample'[y].at
      <3>1. CASE x = s
        BY <1>2, <1>3, <1>4, <2>2, <2>3, <3>1
      <3>2. CASE y = s
        BY <1>2, <1>3, <1>4, <2>2, <2>3, <3>2
      <3>3. CASE x # s /\ y # s
        BY <1>1, <1>3, <2>2, <2>3, <3>3 DEF SamplesApart
      <3> QED
        BY <3>1, <3>2, <3>3
    <2> QED
      BY <2>1, <2>2, <2>3 DEF SamplesApart
  <1>6. Fresh'
    BY <1>1, <1>2, <1>3 DEF Fresh
  <1>7. ASSUME NEW x \in Sessions, NEW t \in Triggers, Uncommitted(x)'
        PROVE  /\ plan'[x][t].op = "insert" => want'[x][t] = "open"
               /\ want'[x][t] = "open" => Grounded(x, t)'
    <2>1. CASE x = s
      <3>1. want'[x][t] = "none" /\ plan'[x][t].op = "none"
        BY <1>1, <1>2, <2>1 DEF Fresh, NoWants, NoPlans, NoPlan
      <3> QED
        BY <3>1
    <2>2. CASE x # s
      <3>1. Uncommitted(x) /\ sample'[x] = sample[x]
        BY <1>3, <1>7, <2>2 DEF Uncommitted
      <3>2. Grounded(x, t)' <=> Grounded(x, t)
        BY <1>2, <3>1 DEF Grounded, Bad, Visible
      <3> QED
        BY <1>1, <1>2, <3>1, <3>2 DEF Grounds
    <2> QED
      BY <2>1, <2>2
  <1> QED
    BY <1>1, <1>2, <1>5, <1>6, <1>7, EvidenceKept DEF Grounds

\* FlushSample decides on the samples it sees.
LEMMA FlushEvidence ==
  ASSUME EvidenceInv, NEW s \in Sessions, NEW k \in Kinds, FlushSample(s, k)
  PROVE  SamplesApart' /\ Fresh' /\ Grounds' /\ IncidentHasEvidence'
  <1>1. TypeOK /\ SamplesApart /\ Fresh /\ Grounds /\ IncidentHasEvidence
    BY DEF EvidenceInv, ToldInv, TypeInv
  <1> DEFINE smp == [sample[s] EXCEPT !.kind = k]
  <1>2. /\ UNCHANGED <<samples, clock, status, trigger, plan>>
        /\ pc[s] = "probe" /\ pc' = [pc EXCEPT ![s] = "availability"]
        /\ sample' = [sample EXCEPT ![s] = smp]
        /\ want' = [want EXCEPT ![s] = Wants(smp)]
    BY DEF FlushSample, rowVars
  <1>3. smp.at = sample[s].at
    <2>1. sample[s] \in [at : 0..MaxSamples, kind : Kinds]
      BY <1>1 DEF TypeOK
    <2> QED
      BY <2>1
  <1> HIDE DEF smp
  <1>4. /\ pc'[s] = "availability" /\ sample'[s] = smp /\ want'[s] = Wants(smp)
        /\ \A x \in Sessions : x # s =>
             pc'[x] = pc[x] /\ sample'[x] = sample[x] /\ want'[x] = want[x]
    BY <1>1, <1>2 DEF TypeOK
  <1>5. ASSUME NEW x \in Sessions, Uncommitted(x)'
        PROVE  Uncommitted(x) /\ sample'[x].at = sample[x].at
    BY <1>2, <1>3, <1>4, <1>5 DEF Uncommitted
  <1>6. SamplesApart'
    BY <1>1, <1>2, <1>5 DEF SamplesApart
  <1>7. Fresh'
    BY <1>1, <1>2, <1>4 DEF Fresh
  <1>8. ASSUME NEW x \in Sessions, NEW t \in Triggers, Uncommitted(x)'
        PROVE  /\ plan'[x][t].op = "insert" => want'[x][t] = "open"
               /\ want'[x][t] = "open" => Grounded(x, t)'
    <2>1. CASE x = s
      <3>1. plan'[x][t].op = "none"
        BY <1>1, <1>2, <2>1 DEF Fresh, NoPlans, NoPlan
      <3>2. Visible(sample[x])' = Visible(smp)
        BY <1>2, <1>4, <2>1 DEF Visible
      <3>3. want'[x][t] = "open" => Cardinality(Bad(t, Visible(smp))) >= Threshold
        BY <1>4, <2>1, OpenHasGrounds
      <3>4. Grounded(x, t)' <=> Cardinality(Bad(t, Visible(smp))) >= Threshold
        BY <3>2 DEF Grounded, Bad
      <3> QED
        BY <3>1, <3>3, <3>4
    <2>2. CASE x # s
      <3>1. Uncommitted(x) /\ sample'[x] = sample[x] /\ want'[x] = want[x]
        BY <1>4, <1>5, <1>8, <2>2
      <3>2. Grounded(x, t)' <=> Grounded(x, t)
        BY <1>2, <3>1 DEF Grounded, Bad, Visible
      <3> QED
        BY <1>1, <1>2, <3>1, <3>2 DEF Grounds
    <2> QED
      BY <2>1, <2>2
  <1> QED
    BY <1>1, <1>2, <1>6, <1>7, <1>8, EvidenceKept DEF Grounds

\* The committed samples are the ones the session saw.
LEMMA CommittedSamples ==
  ASSUME TypeOK, SamplesApart, NEW s \in Sessions, CommitSample(s)
  PROVE  /\ samples' = Visible(sample[s])
         /\ sample[s].at \in Times /\ sample[s].at \in 1..clock
         /\ samples[sample[s].at] = "none"
         /\ sample[s].kind \in Kinds
  <1>1. pc[s] = "commit" /\ samples' = [samples EXCEPT ![sample[s].at] = sample[s].kind]
    BY DEF CommitSample, WriteSample
  <1>2. sample[s].at \in 1..clock /\ samples[sample[s].at] = "none"
    BY <1>1 DEF SamplesApart, Uncommitted
  <1>3. clock \in 0..MaxSamples /\ sample[s].kind \in Kinds
    BY DEF TypeOK
  <1>4. sample[s].at \in Times
    BY <1>2, <1>3 DEF Times
  <1>5. samples' = Visible(sample[s])
    BY <1>1, <1>4 DEF TypeOK, Visible
  <1> QED
    BY <1>2, <1>3, <1>4, <1>5

\* After a commit the session has ended, in one transaction or by dispatching, and
\* the others are as they were.
LEMMA CommitSessions ==
  ASSUME TypeOK, NEW s \in Sessions, CommitSample(s)
  PROVE  Ends(s) /\ \A x \in Sessions : x # s => SameSession(x)
  <1>1. CASE mode = "direct" /\ Notifies(s) # {}
    <2>1. pc' = [pc EXCEPT ![s] = "dispatch"] /\ UNCHANGED <<sample, want, plan>>
      BY <1>1 DEF CommitSample
    <2> QED
      BY <2>1 DEF Ends, SameSession, TypeOK
  <1>2. CASE ~(mode = "direct" /\ Notifies(s) # {})
    <2>1. EndSession(s)
      BY <1>2 DEF CommitSample
    <2> QED
      BY <2>1, Ended DEF Ends, SameSession
  <1> QED
    BY <1>1, <1>2

\* A session that ends itself leaves the others as they were.
LEMMA EndedSessions ==
  ASSUME TypeOK, NEW s \in Sessions, EndSession(s)
  PROVE  \A x \in Sessions : SameSession(x) \/ Advances(x) \/ Ends(x)
  BY Ended DEF Ends, SameSession

\* A commit adds a sample, and the incidents it inserts have their evidence.
LEMMA CommitEvidence ==
  ASSUME EvidenceInv, NEW s \in Sessions, CommitSample(s)
  PROVE  SamplesApart' /\ Fresh' /\ Grounds' /\ IncidentHasEvidence'
  <1>1. /\ TypeInv /\ TypeOK /\ RowsInHand
        /\ SamplesApart /\ Fresh /\ Grounds /\ IncidentHasEvidence
    BY DEF EvidenceInv, ToldInv, TypeInv
  <1>2. /\ samples' = Visible(sample[s])
        /\ sample[s].at \in Times /\ sample[s].at \in 1..clock
        /\ samples[sample[s].at] = "none"
    BY <1>1, CommittedSamples
  <1>3. pc[s] = "commit" /\ clock' = clock /\ clock \in Nat
    BY <1>1 DEF CommitSample, TypeOK
  <1>4. Ends(s) /\ \A x \in Sessions : x # s => SameSession(x)
    BY <1>1, CommitSessions
  <1>5. \A i \in Times : i # sample[s].at => samples'[i] = samples[i]
    BY <1>2 DEF Visible
  <1>6. ASSUME NEW x \in Sessions, Uncommitted(x)'
        PROVE  x # s /\ SameSession(x) /\ Uncommitted(x) /\ sample[x].at # sample[s].at
               /\ sample[x].at \in Times
    <2>1. x # s
      BY <1>4, <1>6 DEF Ends, Uncommitted
    <2>2. SameSession(x)
      BY <1>4, <2>1
    <2>3. Uncommitted(x) /\ Uncommitted(s)
      BY <1>3, <1>6, <2>2 DEF Uncommitted, SameSession
    <2>4. sample[x].at # sample[s].at /\ sample[x].at \in 1..clock
      BY <1>1, <2>1, <2>3 DEF SamplesApart
    <2>5. clock \in 0..MaxSamples
      BY <1>1 DEF TypeOK
    <2> QED
      BY <2>1, <2>2, <2>3, <2>4, <2>5 DEF Times
  <1>7. SamplesApart'
    <2>1. \A i \in Times : samples'[i] # "none" => i <= clock'
      BY <1>1, <1>2, <1>3, <1>5 DEF SamplesApart
    <2>2. ASSUME NEW x \in Sessions, Uncommitted(x)'
          PROVE  sample'[x].at \in 1..clock' /\ samples'[sample'[x].at] = "none"
      <3>1. /\ sample'[x] = sample[x] /\ Uncommitted(x) /\ sample[x].at # sample[s].at
            /\ sample[x].at \in Times
        BY <1>6, <2>2 DEF SameSession
      <3>2. sample[x].at \in 1..clock /\ samples[sample[x].at] = "none"
        BY <1>1, <3>1 DEF SamplesApart
      <3> QED
        BY <1>3, <1>5, <3>1, <3>2
    <2>3. ASSUME NEW x \in Sessions, NEW y \in Sessions, Uncommitted(x)', Uncommitted(y)', x # y
          PROVE  sample'[x].at # sample'[y].at
      BY <1>1, <1>6, <2>3 DEF SamplesApart, SameSession
    <2> QED
      BY <2>1, <2>2, <2>3 DEF SamplesApart
  <1>8. Fresh'
    BY <1>1, <1>4 DEF Fresh, Ends, SameSession
  <1>9. ASSUME NEW x \in Sessions, NEW t \in Triggers, Uncommitted(x)'
        PROVE  /\ plan'[x][t].op = "insert" => want'[x][t] = "open"
               /\ want'[x][t] = "open" => Grounded(x, t)'
    <2>1. SameSession(x) /\ Uncommitted(x)
      BY <1>6, <1>9
    <2>2. Bad(t, Visible(sample[x])) \subseteq Bad(t, Visible(sample[x])')
      <3> SUFFICES ASSUME NEW i \in Times, Visible(sample[x])[i] = BadKind(t)
                   PROVE  Visible(sample[x])'[i] = BadKind(t)
        BY DEF Bad
      <3>1. BadKind(t) # "none"
        BY DEF BadKind
      <3>2. CASE i = sample[x].at
        BY <2>1, <3>2 DEF Visible, SameSession
      <3>3. CASE i # sample[x].at
        <4>1. samples[i] = BadKind(t)
          BY <3>3 DEF Visible
        <4>2. samples'[i] = samples[i]
          BY <1>2, <1>5, <3>1, <4>1
        <4> QED
          BY <2>1, <3>3, <4>1, <4>2 DEF Visible, SameSession
      <3> QED
        BY <3>2, <3>3
    <2>3. ASSUME Grounded(x, t)
          PROVE  Grounded(x, t)'
      <3>1. Cardinality(Bad(t, Visible(sample[x])')) >= Threshold
        BY <2>2, <2>3, MoreGrounds DEF Grounded
      <3>2. Bad(t, Visible(sample[x])') = Bad(t, Visible(sample[x]))'
        BY DEF Bad
      <3> QED
        BY <3>1, <3>2 DEF Grounded
    <2> QED
      BY <1>1, <2>1, <2>3 DEF Grounds, SameSession
  <1>10. ASSUME NEW r \in Rows, status'[r] # "absent"
         PROVE  Cardinality({i \in Times : samples'[i] = BadKind(trigger'[r])}) >= Threshold
    <2>1. ASSUME status[r] # "absent", trigger'[r] = trigger[r]
          PROVE  Cardinality(Bad(trigger'[r], samples')) >= Threshold
      <3>1. Cardinality(Bad(trigger[r], samples)) >= Threshold
        BY <1>1, <2>1 DEF IncidentHasEvidence, Bad
      <3>2. BadKind(trigger[r]) # "none"
        BY DEF BadKind
      <3>3. Bad(trigger[r], samples) \subseteq Bad(trigger[r], samples')
        BY <1>2, <1>5, <3>2 DEF Bad
      <3>4. Cardinality(Bad(trigger[r], samples')) >= Threshold
        BY <3>1, <3>3, MoreGrounds
      <3> QED
        BY <2>1, <3>4
    <2>2. CASE Untouched(r)
      BY <1>10, <2>1, <2>2 DEF Untouched, Bad
    <2>3. ASSUME NEW t \in Triggers, Written(s, r, t)
          PROVE  Cardinality(Bad(trigger'[r], samples')) >= Threshold
      <3>1. CASE plan[s][t].op = "insert"
        <4>1. Cardinality(Bad(t, Visible(sample[s]))) >= Threshold
          BY <1>1, <1>3, <3>1 DEF Grounds, Grounded, Uncommitted
        <4>2. trigger'[r] = t
          BY <2>3, <3>1 DEF Written
        <4> QED
          BY <1>2, <4>1, <4>2
      <3>2. CASE plan[s][t].op # "insert"
        <4>1. trigger'[r] = trigger[r]
          BY <2>3, <3>2 DEF Written
        <4>2. status[r] # "absent"
          BY <1>1, <1>10, <2>3, <3>2 DEF Written, RowsInHand
        <4> QED
          BY <2>1, <4>1, <4>2
      <3> QED
        BY <3>1, <3>2
    <2>4. CASE \E t \in Triggers : Written(s, r, t)
      BY <2>3, <2>4 DEF Bad
    <2> QED
      BY <1>1, <2>2, <2>4, CommitWrites
  <1> QED
    BY <1>7, <1>8, <1>9, <1>10 DEF Grounds, IncidentHasEvidence

\* Every step keeps the evidence.
LEMMA EvidenceStep ==
  ASSUME EvidenceInv, [Next]_vars
  PROVE  EvidenceInv'
  <1>1. /\ ToldInv /\ TypeInv /\ TypeOK /\ RowsInHand
        /\ SamplesApart /\ Fresh /\ Grounds /\ IncidentHasEvidence
    BY DEF EvidenceInv, ToldInv, TypeInv
  <1> SUFFICES SamplesApart' /\ Fresh' /\ Grounds' /\ IncidentHasEvidence'
    BY <1>1, ToldStep DEF EvidenceInv
  <1>2. ASSUME NEW s \in Sessions, ProbeStarts(s)
        PROVE  SamplesApart' /\ Fresh' /\ Grounds' /\ IncidentHasEvidence'
    BY <1>2, ProbeEvidence
  <1>3. ASSUME NEW s \in Sessions, NEW k \in Kinds, FlushSample(s, k)
        PROVE  SamplesApart' /\ Fresh' /\ Grounds' /\ IncidentHasEvidence'
    BY <1>3, FlushEvidence
  <1>4. ASSUME NEW s \in Sessions, NEW t \in Triggers, SelectActive(s, t)
        PROVE  SamplesApart' /\ Fresh' /\ Grounds' /\ IncidentHasEvidence'
    <2> DEFINE p == PlanFor(want[s][t], Active(t))
    <2>1. /\ UNCHANGED <<samples, clock, status, trigger, sample, want>>
          /\ plan' = [plan EXCEPT ![s][t] = p]
          /\ pc[s] = t
          /\ pc' = [pc EXCEPT ![s] = IF want[s][t] = "open" /\ Active(t) = {}
                                     THEN "insert" ELSE After(t)]
      BY <1>4 DEF SelectActive, rowVars
    <2>2. p.op # "insert"
      <3>1. want[s][t] \in {"none", "open", "resolve"}
        BY <1>1 DEF TypeOK
      <3>2. p.op \in {"none", "update", "resolve"}
        BY <1>1, <3>1, PlanForShape
      <3> QED
        BY <3>2
    <2> HIDE DEF p
    <2>3. plan \in [Sessions -> [Triggers -> Plan]] /\ pc \in [Sessions -> Control]
      BY <1>1 DEF TypeOK, Control
    <2>4. \A x \in Sessions : x # s => SameSession(x)
      BY <2>1, <2>3 DEF SameSession
    <2>5. pc'[s] \in Triggers \cup {"insert", "commit"}
      BY <2>1, <2>3 DEF After, Triggers
    <2>6. \A u \in Triggers : plan'[s][u] = p \/ plan'[s][u] = plan[s][u]
      BY <2>1, <2>3
    <2>7. Advances(s)
      BY <2>1, <2>2, <2>5, <2>6 DEF Advances, Uncommitted, Triggers
    <2> QED
      BY <1>1, <2>1, <2>4, <2>7, GroundsKept, EvidenceKept
  <1>5. ASSUME NEW s \in Sessions, NEW t \in Triggers, InsertIncident(s, t)
        PROVE  SamplesApart' /\ Fresh' /\ Grounds' /\ IncidentHasEvidence'
    <2>1. UNCHANGED <<samples, clock, status, trigger>> /\ pc[s] = "insert" /\ want[s][t] = "open"
      BY <1>5 DEF InsertIncident, rowVars
    <2>2. CASE Active(t) = {}
      <3> DEFINE p == [op |-> "insert", row |-> lastId + 1, count |-> 1, notify |-> TRUE]
      <3>1. /\ plan' = [plan EXCEPT ![s][t] = p] /\ pc' = [pc EXCEPT ![s] = After(t)]
            /\ UNCHANGED <<sample, want>>
        BY <1>5, <2>2 DEF InsertIncident
      <3> HIDE DEF p
      <3>2. plan \in [Sessions -> [Triggers -> Plan]] /\ pc \in [Sessions -> Control]
        BY <1>1 DEF TypeOK, Control
      <3>3. \A x \in Sessions : x # s => SameSession(x)
        BY <3>1, <3>2 DEF SameSession
      <3>4. pc'[s] \in Triggers \cup {"insert", "commit"}
        BY <3>1, <3>2 DEF After, Triggers
      <3>5. \A u \in Triggers : u # t => plan'[s][u] = plan[s][u]
        BY <3>1, <3>2
      <3>6. Advances(s)
        BY <2>1, <3>1, <3>4, <3>5 DEF Advances, Uncommitted
      <3> QED
        BY <1>1, <2>1, <3>3, <3>6, GroundsKept, EvidenceKept
    <2>3. CASE Active(t) # {}
      <3>1. EndSession(s)
        BY <1>5, <2>3 DEF InsertIncident
      <3> QED
        BY <1>1, <2>1, <3>1, EndedSessions, GroundsKept, EvidenceKept
    <2> QED
      BY <2>2, <2>3
  <1>6. ASSUME NEW s \in Sessions, CommitSample(s)
        PROVE  SamplesApart' /\ Fresh' /\ Grounds' /\ IncidentHasEvidence'
    BY <1>6, CommitEvidence
  <1>7. ASSUME NEW s \in Sessions, Dispatch(s)
        PROVE  SamplesApart' /\ Fresh' /\ Grounds' /\ IncidentHasEvidence'
    <2>1. /\ UNCHANGED <<samples, clock, status, trigger, sample, want, plan>>
          /\ pc' = [pc EXCEPT ![s] = "mark"]
      BY <1>7 DEF Dispatch, rowVars
    <2>2. \A x \in Sessions : SameSession(x) \/ Ends(x)
      BY <1>1, <2>1 DEF SameSession, Ends, TypeOK
    <2> QED
      BY <1>1, <2>1, <2>2, GroundsKept, EvidenceKept
  <1>8. ASSUME NEW s \in Sessions, MarkNotificationAttempted(s) \/ Crash(s)
        PROVE  SamplesApart' /\ Fresh' /\ Grounds' /\ IncidentHasEvidence'
    <2>1. UNCHANGED <<samples, clock, status, trigger>> /\ EndSession(s)
      BY <1>8 DEF MarkNotificationAttempted, Crash, rowVars
    <2> QED
      BY <1>1, <2>1, EndedSessions, GroundsKept, EvidenceKept
  <1>9. ASSUME UNCHANGED <<samples, clock, trigger, pc, sample, want, plan>>,
               \A r \in Rows : status'[r] = "absent" \/ status[r] # "absent"
        PROVE  SamplesApart' /\ Fresh' /\ Grounds' /\ IncidentHasEvidence'
    BY <1>1, <1>9, GroundsKept, EvidenceKept DEF SameSession
  <1>10. ASSUME NEW r \in Rows, CooldownElapses(r)
         PROVE  SamplesApart' /\ Fresh' /\ Grounds' /\ IncidentHasEvidence'
    BY <1>9, <1>10 DEF CooldownElapses, sessionVars
  <1>11. ASSUME NEW o \in Operators, NEW r \in Rows, NEW q \in {"acknowledge", "resolve"},
                OperatorReads(o, r, q)
         PROVE  SamplesApart' /\ Fresh' /\ Grounds' /\ IncidentHasEvidence'
    BY <1>9, <1>11 DEF OperatorReads, sessionVars, rowVars
  <1>12. ASSUME NEW o \in Operators, OperatorCommits(o)
         PROVE  SamplesApart' /\ Fresh' /\ Grounds' /\ IncidentHasEvidence'
    <2>1. /\ UNCHANGED <<samples, clock, trigger, pc, sample, want, plan>>
          /\ opc[o] # "idle"
          /\ \/ status' = [status EXCEPT ![opRow[o]] = "acknowledged"]
             \/ status' = [status EXCEPT ![opRow[o]] = "resolved"]
      BY <1>12 DEF OperatorCommits, sessionVars
    <2>2. opRow[o] \in Rows /\ status[opRow[o]] # "absent"
      BY <1>1, <2>1 DEF RowsInHand
    <2>3. \A r \in Rows : status'[r] = "absent" \/ status[r] # "absent"
      BY <1>1, <2>1, <2>2 DEF TypeOK
    <2> QED
      BY <1>9, <2>1, <2>3
  <1>13. CASE UNCHANGED vars
    BY <1>9, <1>13 DEF vars, rowVars, sessionVars
  <1> QED
    BY <1>2, <1>3, <1>4, <1>5, <1>6, <1>7, <1>8, <1>10, <1>11, <1>12, <1>13 DEF Next

\* At the start nothing is sampled.
LEMMA EvidenceInit == Init => EvidenceInv
  <1> SUFFICES ASSUME Init PROVE EvidenceInv
    OBVIOUS
  <1>1. SamplesApart
    BY DEF Init, SamplesApart, Uncommitted
  <1>2. Fresh
    BY DEF Init, Fresh
  <1>3. Grounds
    BY DEF Init, Grounds, Uncommitted
  <1>4. IncidentHasEvidence
    BY DEF Init, IncidentHasEvidence
  <1> QED
    BY <1>1, <1>2, <1>3, <1>4, ToldInit DEF EvidenceInv

\* Every incident rests on Threshold committed bad samples, however sessions
\* interleave, roll back or crash.
THEOREM IncidentsHaveEvidence == Spec => []IncidentHasEvidence
  <1>1. EvidenceInv => IncidentHasEvidence
    BY DEF EvidenceInv
  <1> QED
    BY <1>1, EvidenceInit, EvidenceStep, PTL DEF Spec

-----------------------------------------------------------------------------
(* What "consecutive" means.  The code reads the newest Threshold samples and  *)
(* counts them; InTrouble says that some Threshold samples, all bad, are newer *)
(* than every other one.                                                       *)

Newer(f, i) == {j \in Taken(f) : j > i}

\* At most Threshold samples are recent: all but the oldest of them are newer than it.
LEMMA RecentBound ==
  ASSUME NEW f
  PROVE  Cardinality(Recent(f)) <= Threshold
  <1>1. Recent(f) \in SUBSET Times /\ Recent(f) \subseteq Nat /\ Recent(f) \subseteq Taken(f)
    BY DEF Recent, Taken, Times
  <1>2. CASE Recent(f) = {}
    BY <1>2, FS_EmptySet
  <1>3. CASE Recent(f) # {}
    <2>1. PICK m \in Recent(f) : \A y \in Recent(f) : ~ (<<y, m>> \in OpToRel(<, Nat))
      BY <1>1, <1>3, NatLessThanWellFounded, WFMin
    <2>2. ASSUME NEW y \in Recent(f)
          PROVE  y >= m
      <3>1. y \in Nat /\ m \in Nat
        BY <1>1, <2>1
      <3>2. ~(y < m)
        BY <2>1, <3>1 DEF OpToRel
      <3> QED
        BY <3>1, <3>2
    <2>3. Recent(f) \ {m} \subseteq Newer(f, m)
      BY <1>1, <2>2 DEF Newer
    <2>4. Newer(f, m) \in SUBSET Times /\ Recent(f) \ {m} \in SUBSET Times
      BY <1>1 DEF Newer, Taken
    <2>5. /\ Cardinality(Newer(f, m)) \in Nat
          /\ Cardinality(Recent(f) \ {m}) \in Nat
          /\ Cardinality(Recent(f) \ {m}) <= Cardinality(Newer(f, m))
      BY <2>3, <2>4, TimesFinite
    <2>6. Cardinality(Newer(f, m)) < Threshold
      BY <2>1 DEF Recent, Newer
    <2>7. IsFiniteSet(Recent(f)) /\ Cardinality(Recent(f)) \in Nat
      BY <1>1, TimesFinite
    <2>8. Cardinality(Recent(f) \ {m}) = Cardinality(Recent(f)) - 1
      BY <2>1, <2>7, FS_RemoveElement
    <2> QED
      BY <2>5, <2>6, <2>7, <2>8
  <1> QED
    BY <1>2, <1>3

\* The code's test is the declarative one.
LEMMA TroubleIsConsecutive ==
  ASSUME NEW f, NEW t \in Triggers
  PROVE  InTrouble(t, f) <=> Consecutive(f, BadKind(t))
  <1>1. /\ Recent(f) \in SUBSET Times /\ Taken(f) \in SUBSET Times
        /\ Recent(f) \subseteq Taken(f) /\ Taken(f) \subseteq Nat
        /\ \A i : Newer(f, i) \in SUBSET Times
    BY DEF Recent, Taken, Times, Newer
  <1>2. ASSUME Consecutive(f, BadKind(t))
        PROVE  InTrouble(t, f)
    <2>1. Cardinality(Recent(f)) = Threshold
      <3>1. Cardinality(Recent(f)) \in Nat /\ Cardinality(Recent(f)) >= Threshold
        BY <1>1, <1>2, TimesFinite DEF Consecutive
      <3> QED
        BY <3>1, RecentBound
    <2>2. ASSUME NEW i \in Recent(f), NEW j \in Taken(f) \ Recent(f)
          PROVE  j < i
      <3>1. SUFFICES ASSUME ~(j < i) PROVE FALSE
        OBVIOUS
      <3>2. i \in Nat /\ j \in Nat /\ i # j /\ j > i
        BY <1>1, <3>1
      <3>3. Newer(f, j) \subseteq Newer(f, i)
        BY <1>1, <3>2 DEF Newer
      <3>4. /\ Cardinality(Newer(f, j)) \in Nat /\ Cardinality(Newer(f, i)) \in Nat
            /\ Cardinality(Newer(f, j)) <= Cardinality(Newer(f, i))
        BY <1>1, <3>3, TimesFinite
      <3>5. Cardinality(Newer(f, i)) < Threshold
        BY DEF Recent, Newer
      <3>6. Cardinality(Newer(f, j)) < Threshold
        BY <3>4, <3>5
      <3> QED
        BY <3>6 DEF Recent, Newer
    <2>3. \A i \in Recent(f) : f[i] = BadKind(t)
      BY <1>2 DEF Consecutive
    <2> QED
      BY <1>1, <2>1, <2>2, <2>3 DEF InTrouble
  <1>3. ASSUME InTrouble(t, f)
        PROVE  Consecutive(f, BadKind(t))
    <2>1. PICK S \in SUBSET Taken(f) :
            /\ Cardinality(S) = Threshold
            /\ \A i \in S : f[i] = BadKind(t)
            /\ \A i \in S : \A j \in Taken(f) \ S : j < i
      BY <1>3 DEF InTrouble
    <2>2. S \in SUBSET Times /\ S \subseteq Nat
      BY <1>1
    <2>3. ASSUME NEW i \in S
          PROVE  i \in Recent(f)
      <3>1. Newer(f, i) \subseteq S \ {i}
        BY <1>1, <2>1, <2>2 DEF Newer
      <3>2. Cardinality(Newer(f, i)) \in Nat /\ Cardinality(S \ {i}) \in Nat
            /\ Cardinality(Newer(f, i)) <= Cardinality(S \ {i})
        BY <1>1, <2>2, <3>1, TimesFinite
      <3>3. Cardinality(S \ {i}) = Cardinality(S) - 1
        BY <2>2, TimesFinite, FS_RemoveElement
      <3>4. Cardinality(Newer(f, i)) < Threshold
        BY <2>1, <3>2, <3>3
      <3> QED
        BY <3>4 DEF Recent, Newer
    <2>4. Cardinality(Recent(f)) >= Threshold
      <3>1. S \subseteq Recent(f)
        BY <2>3
      <3>2. Cardinality(S) <= Cardinality(Recent(f)) /\ Cardinality(Recent(f)) \in Nat
        BY <1>1, <2>2, <3>1, TimesFinite
      <3> QED
        BY <2>1, <3>2
    <2>5. ASSUME NEW i \in Recent(f)
          PROVE  i \in S
      <3>1. SUFFICES ASSUME i \notin S PROVE FALSE
        OBVIOUS
      <3>2. i \in Taken(f) \ S /\ i \in Nat
        BY <1>1, <3>1
      <3>3. S \subseteq Newer(f, i)
        BY <2>1, <2>2, <3>2 DEF Newer
      <3>4. /\ Cardinality(S) <= Cardinality(Newer(f, i))
            /\ Cardinality(Newer(f, i)) \in Nat
        BY <1>1, <2>2, <3>3, TimesFinite
      <3>5. Cardinality(Newer(f, i)) < Threshold
        BY DEF Recent, Newer
      <3> QED
        BY <2>1, <3>4, <3>5
    <2> QED
      BY <2>1, <2>4, <2>5 DEF Consecutive
  <1> QED
    BY <1>2, <1>3

-----------------------------------------------------------------------------
(* The unique index, and what an undisturbed session leaves.  An uncommitted   *)
(* insert holds its key against every other one, so no two rows carry the same *)
(* key; a session nobody disturbed still acts on what it read.                 *)

Inserting(s, t) == Uncommitted(s) /\ plan[s][t].op = "insert"

\* Primary keys are given out once, and a plan changes rows of its own trigger.
RowsApart ==
  /\ \A r \in Rows : r > lastId => status[r] = "absent"
  /\ \A s \in Sessions, t \in Triggers : Inserting(s, t) =>
       plan[s][t].row <= lastId /\ status[plan[s][t].row] = "absent"
  /\ \A s, x \in Sessions, t, u \in Triggers :
       Inserting(s, t) /\ Inserting(x, u) /\ plan[s][t].row = plan[x][u].row => s = x /\ t = u
  /\ \A s \in Sessions, t \in Triggers :
       plan[s][t].op \in {"update", "resolve"} => trigger[plan[s][t].row] = t

\* The unique index on active_key.
KeysApart ==
  /\ \A q, r \in Rows : key[q] /\ key[r] /\ trigger[q] = trigger[r] => q = r
  /\ \A s \in Sessions, t \in Triggers : Inserting(s, t) => Active(t) = {}
  /\ \A s, x \in Sessions, t \in Triggers : Inserting(s, t) /\ Inserting(x, t) => s = x

\* A session opens at most one incident.
OneWant ==
  \A s \in Sessions :
    /\ \E t \in Triggers : want[s][t] # "open"
    /\ pc[s] = "insert" => \E t \in Triggers : want[s][t] = "open"

Deciding(s) == pc[s] \in Triggers \cup {"insert", "commit"}

\* Session s has decided on trigger t.
Decided(s, t) ==
  \/ pc[s] = "commit"
  \/ t = "availability" /\ pc[s] = "latency"
  \/ t = "availability" /\ pc[s] = "insert" /\ want[s]["latency"] = "open"

\* Plan p does what w asks for where rows are the active ones.
Follows(p, w, rows) ==
  /\ w = "open" => \/ p.op = "update" /\ p.row \in rows
                   \/ p.op = "insert" /\ rows = {}
  /\ w = "resolve" => \/ p.op = "resolve" /\ p.row \in rows
                      \/ p.op = "none" /\ rows = {}
  /\ w = "none" => p.op = "none"

UpToDate(s) ==
  /\ want[s] = Wants(sample[s])
  /\ \A t \in Triggers : Decided(s, t) => Follows(plan[s][t], want[s][t], Active(t))

Current == \A s \in Sessions : Deciding(s) /\ ~raced[s] => UpToDate(s)

ReconcileInv == EvidenceInv /\ RowsApart /\ KeysApart /\ OneWant /\ Current

\* The recent samples cannot be all failed and all slow.
LEMMA WantsOne ==
  ASSUME NEW smp
  PROVE  \E t \in Triggers : Wants(smp)[t] # "open"
  <1> DEFINE f == Visible(smp)
  <1>1. SUFFICES ASSUME \A t \in Triggers : Wants(smp)[t] = "open" PROVE FALSE
    OBVIOUS
  <1>2. "availability" \in Triggers /\ "latency" \in Triggers
    BY DEF Triggers
  <1>3. Consecutive(f, "failed") /\ Consecutive(f, "slow")
    BY <1>1, <1>2, OpenIsConsecutive DEF BadKind
  <1> HIDE DEF f
  <1>4. Recent(f) = {}
    BY <1>3 DEF Consecutive
  <1>5. Cardinality(Recent(f)) = 0
    BY <1>4, FS_EmptySet
  <1> QED
    BY <1>3, <1>5 DEF Consecutive

\* A step plans nothing: what is still planned was planned before.
PlansNothing ==
  \A x \in Sessions, u \in Triggers :
    /\ Inserting(x, u)' => Inserting(x, u) /\ plan'[x][u] = plan[x][u]
    /\ plan'[x][u].op \in {"update", "resolve"} => plan'[x][u] = plan[x][u]

\* The index and the primary keys of a step that plans nothing and writes nothing but
\* a status or the end of a key.
LEMMA ApartKept ==
  ASSUME TypeInv, RowsInHand, RowsApart, KeysApart, PlansNothing, lastId' = lastId, trigger' = trigger,
         \A r \in Rows : status'[r] = "absent" <=> status[r] = "absent",
         \A r \in Rows : key'[r] => key[r]
  PROVE  RowsApart' /\ KeysApart'
  <1>1. ASSUME NEW s \in Sessions, NEW t \in Triggers, Inserting(s, t)'
        PROVE  /\ Inserting(s, t) /\ plan'[s][t] = plan[s][t]
               /\ plan[s][t].row \in Rows
    BY <1>1, PlannedRow DEF PlansNothing, Inserting
  <1>2. RowsApart'
    <2>1. \A r \in Rows : r > lastId' => status'[r] = "absent"
      BY DEF RowsApart
    <2>2. ASSUME NEW s \in Sessions, NEW t \in Triggers, Inserting(s, t)'
          PROVE  plan'[s][t].row <= lastId' /\ status'[plan'[s][t].row] = "absent"
      BY <1>1, <2>2 DEF RowsApart
    <2>3. ASSUME NEW s \in Sessions, NEW x \in Sessions, NEW t \in Triggers, NEW u \in Triggers,
                 Inserting(s, t)', Inserting(x, u)', plan'[s][t].row = plan'[x][u].row
          PROVE  s = x /\ t = u
      BY <1>1, <2>3 DEF RowsApart
    <2>4. ASSUME NEW s \in Sessions, NEW t \in Triggers, plan'[s][t].op \in {"update", "resolve"}
          PROVE  trigger'[plan'[s][t].row] = t
      <3>1. plan'[s][t] = plan[s][t]
        BY <2>4 DEF PlansNothing
      <3> QED
        BY <2>4, <3>1 DEF RowsApart
    <2> QED
      BY <2>1, <2>2, <2>3, <2>4 DEF RowsApart
  <1>3. KeysApart'
    <2>1. \A q, r \in Rows : key'[q] /\ key'[r] /\ trigger'[q] = trigger'[r] => q = r
      BY DEF KeysApart
    <2>2. \A t \in Triggers : Active(t)' \subseteq Active(t)
      BY DEF Active
    <2>3. ASSUME NEW s \in Sessions, NEW t \in Triggers, Inserting(s, t)'
          PROVE  Active(t)' = {}
      BY <1>1, <2>2, <2>3 DEF KeysApart
    <2>4. ASSUME NEW s \in Sessions, NEW x \in Sessions, NEW t \in Triggers,
                 Inserting(s, t)', Inserting(x, t)'
          PROVE  s = x
      BY <1>1, <2>4 DEF KeysApart
    <2> QED
      BY <2>1, <2>3, <2>4 DEF KeysApart
  <1> QED
    BY <1>2, <1>3

\* A session that nobody touched stays up to date while samples and keys stay.
LEMMA UpToDateKept ==
  ASSUME NEW x \in Sessions, UpToDate(x), SameSession(x), UNCHANGED <<samples, trigger, key>>
  PROVE  UpToDate(x)'
  <1>1. Wants(sample[x])' = Wants(sample[x])
    <2>1. Visible(sample[x])' = Visible(sample[x])
      BY DEF Visible, SameSession
    <2> QED
      BY <2>1 DEF Wants, Consecutive, Recent, Taken, SameSession
  <1>2. \A t \in Triggers : Active(t)' = Active(t)
    BY DEF Active
  <1>3. ASSUME NEW t \in Triggers, Decided(x, t)'
        PROVE  Follows(plan[x][t], want[x][t], Active(t))'
    <2>1. Decided(x, t)
      BY <1>3 DEF Decided, SameSession
    <2>2. Follows(plan[x][t], want[x][t], Active(t))
      BY <2>1 DEF UpToDate
    <2> QED
      BY <1>2, <2>2 DEF Follows, SameSession
  <1> QED
    BY <1>1, <1>3 DEF UpToDate, SameSession

\* Steps that commit nothing leave the other sessions up to date.
LEMMA CurrentKept ==
  ASSUME Current, UNCHANGED <<samples, trigger, key>>,
         \A x \in Sessions : \/ SameSession(x) /\ raced'[x] = raced[x]
                             \/ ~Deciding(x)'
                             \/ UpToDate(x)'
  PROVE  Current'
  <1> SUFFICES ASSUME NEW x \in Sessions, Deciding(x)', ~raced'[x]
               PROVE  UpToDate(x)'
    BY DEF Current
  <1>1. CASE SameSession(x) /\ raced'[x] = raced[x]
    <2>1. Deciding(x)
      BY <1>1 DEF Deciding, SameSession
    <2> QED
      BY <1>1, <2>1, UpToDateKept DEF Current
  <1> QED
    BY <1>1

\* The rows of one session's plans are different ones.
LEMMA PlansApart ==
  ASSUME TypeInv, RowsInHand, RowsApart, NEW s \in Sessions, Uncommitted(s),
         NEW t \in Triggers, NEW u \in Triggers, plan[s][t].op # "none",
         plan[s][t].row = plan[s][u].row
  PROVE  t = u
  <1>1. plan[s][u].op # "none"
    BY DEF TypeInv, PlanShape
  <1>2. /\ plan[s][t].op \in {"insert", "update", "resolve"}
        /\ plan[s][u].op \in {"insert", "update", "resolve"}
    BY <1>1 DEF TypeInv, TypeOK, Plan
  <1>3. CASE plan[s][t].op = "insert" /\ plan[s][u].op = "insert"
    BY <1>3 DEF RowsApart, Inserting
  <1>4. CASE plan[s][t].op # "insert" /\ plan[s][u].op # "insert"
    BY <1>2, <1>4 DEF RowsApart
  <1>5. CASE plan[s][t].op = "insert" /\ plan[s][u].op # "insert"
    BY <1>2, <1>5 DEF RowsApart, RowsInHand, Inserting
  <1>6. CASE plan[s][t].op # "insert" /\ plan[s][u].op = "insert"
    BY <1>2, <1>6 DEF RowsApart, RowsInHand, Inserting
  <1> QED
    BY <1>3, <1>4, <1>5, <1>6

\* What a commit does to one row: an existing row keeps its trigger and gets no key,
\* and only the row a plan inserts gets one.
LEMMA CommitRow ==
  ASSUME TypeInv, RowsInHand, RowsApart, NEW s \in Sessions, CommitSample(s), NEW r \in Rows
  PROVE  /\ status[r] # "absent" =>
              trigger'[r] = trigger[r] /\ (key'[r] => key[r]) /\ status'[r] # "absent"
         /\ status'[r] # "absent" => \/ status[r] # "absent"
                                     \/ \E t \in Triggers : Inserting(s, t) /\ plan[s][t].row = r
         /\ key'[r] => \/ key[r] /\ trigger'[r] = trigger[r]
                       \/ Inserting(s, trigger'[r]) /\ plan[s][trigger'[r]].row = r
                            /\ trigger'[r] \in Triggers
  <1>1. Uncommitted(s)
    BY DEF CommitSample, Uncommitted
  <1>2. CASE Untouched(r)
    BY <1>2 DEF Untouched
  <1>3. ASSUME NEW t \in Triggers, Written(s, r, t)
        PROVE  /\ status[r] # "absent" =>
                    trigger'[r] = trigger[r] /\ (key'[r] => key[r]) /\ status'[r] # "absent"
               /\ status'[r] # "absent" => \/ status[r] # "absent"
                                           \/ Inserting(s, t) /\ plan[s][t].row = r
               /\ key'[r] => \/ key[r] /\ trigger'[r] = trigger[r]
                             \/ Inserting(s, trigger'[r]) /\ plan[s][trigger'[r]].row = r
                                  /\ trigger'[r] \in Triggers
    <2>1. CASE plan[s][t].op = "insert"
      <3>1. Inserting(s, t) /\ plan[s][t].row = r /\ status[r] = "absent"
        BY <1>1, <1>3, <2>1 DEF Written, Inserting, RowsApart
      <3>2. trigger'[r] = t
        BY <1>3, <2>1 DEF Written
      <3> QED
        BY <3>1, <3>2
    <2>2. CASE plan[s][t].op # "insert"
      <3>1. plan[s][t].op \in {"update", "resolve"}
        BY <1>3, <2>2 DEF TypeInv, TypeOK, Plan, Written
      <3>2. status[r] # "absent"
        BY <1>3, <3>1 DEF RowsInHand, Written
      <3>3. trigger'[r] = trigger[r] /\ status'[r] # "absent"
        BY <1>3, <2>2, <3>2 DEF Written
      <3>4. key'[r] => key[r]
        <4>1. CASE plan[s][t].op = "resolve"
          BY <1>3, <4>1 DEF Written
        <4>2. CASE plan[s][t].op # "resolve"
          BY <1>3, <2>2, <4>2 DEF Written
        <4> QED
          BY <4>1, <4>2
      <3> QED
        BY <3>2, <3>3, <3>4
    <2> QED
      BY <2>1, <2>2
  <1>4. CASE \E t \in Triggers : Written(s, r, t)
    BY <1>3, <1>4
  <1> QED
    BY <1>2, <1>4, CommitWrites

\* A commit keeps the index and the primary keys.
LEMMA CommitApart ==
  ASSUME TypeInv, RowsInHand, RowsApart, KeysApart, NEW s \in Sessions, CommitSample(s)
  PROVE  RowsApart' /\ KeysApart'
  <1>1. TypeOK /\ KeyImpliesActive
    BY DEF TypeInv
  <1>2. Uncommitted(s) /\ lastId' = lastId
    BY DEF CommitSample, Uncommitted
  <1>3. Ends(s) /\ \A x \in Sessions : x # s => SameSession(x)
    BY <1>1, CommitSessions
  <1>4. ASSUME NEW x \in Sessions, NEW t \in Triggers, Inserting(x, t)'
        PROVE  /\ x # s /\ Inserting(x, t) /\ plan'[x][t] = plan[x][t]
               /\ plan[x][t].row \in Rows
    <2>1. x # s
      BY <1>3, <1>4 DEF Ends, Inserting, Uncommitted
    <2>2. SameSession(x)
      BY <1>3, <2>1
    <2>3. Inserting(x, t) /\ plan'[x][t] = plan[x][t]
      BY <1>4, <2>2 DEF SameSession, Inserting, Uncommitted
    <2> QED
      BY <2>1, <2>3, PlannedRow DEF Inserting
  <1>5. ASSUME NEW x \in Sessions, NEW t \in Triggers, plan'[x][t].op \in {"update", "resolve"}
        PROVE  plan'[x][t] = plan[x][t] /\ plan[x][t].row \in Rows
    <2>1. plan'[x][t] = plan[x][t]
      <3>1. CASE x # s
        BY <1>3, <3>1 DEF SameSession
      <3>2. CASE x = s /\ mode = "direct" /\ Notifies(s) # {}
        BY <3>2 DEF CommitSample
      <3>3. CASE x = s /\ ~(mode = "direct" /\ Notifies(s) # {})
        <4>1. plan'[x] = NoPlans
          BY <1>1, <3>3, Ended DEF CommitSample
        <4> QED
          BY <1>5, <4>1 DEF NoPlans, NoPlan
      <3> QED
        BY <3>1, <3>2, <3>3
    <2> QED
      BY <1>5, <2>1, PlannedRow
  <1>6. ASSUME NEW r \in Rows, r > lastId
        PROVE  status'[r] = "absent"
    <2>1. status[r] = "absent"
      BY <1>6 DEF RowsApart
    <2>2. \A t \in Triggers : Inserting(s, t) => plan[s][t].row # r
      <3> SUFFICES ASSUME NEW t \in Triggers, Inserting(s, t), plan[s][t].row = r
                   PROVE  FALSE
        OBVIOUS
      <3>1. r <= lastId
        BY DEF RowsApart
      <3>2. r \in Nat /\ lastId \in Nat
        BY <1>1 DEF Rows, TypeOK
      <3> QED
        BY <1>6, <3>1, <3>2
    <2> QED
      BY <2>1, <2>2, CommitRow
  <1>7. ASSUME NEW x \in Sessions, NEW t \in Triggers, Inserting(x, t)'
        PROVE  plan'[x][t].row <= lastId' /\ status'[plan'[x][t].row] = "absent"
    <2>1. /\ x # s /\ Inserting(x, t) /\ plan'[x][t] = plan[x][t]
          /\ plan[x][t].row \in Rows
      BY <1>4, <1>7
    <2>2. plan[x][t].row <= lastId /\ status[plan[x][t].row] = "absent"
      BY <2>1 DEF RowsApart
    <2>3. \A u \in Triggers : Inserting(s, u) => plan[s][u].row # plan[x][t].row
      BY <2>1 DEF RowsApart
    <2>4. status'[plan[x][t].row] = "absent"
      BY <2>1, <2>2, <2>3, CommitRow
    <2> QED
      BY <1>2, <2>1, <2>2, <2>4
  <1>8. ASSUME NEW x \in Sessions, NEW y \in Sessions, NEW t \in Triggers, NEW u \in Triggers,
               Inserting(x, t)', Inserting(y, u)', plan'[x][t].row = plan'[y][u].row
        PROVE  x = y /\ t = u
    BY <1>4, <1>8 DEF RowsApart
  <1>9. ASSUME NEW x \in Sessions, NEW t \in Triggers, plan'[x][t].op \in {"update", "resolve"}
        PROVE  trigger'[plan'[x][t].row] = t
    <2>1. plan'[x][t] = plan[x][t] /\ plan[x][t].row \in Rows
      BY <1>5, <1>9
    <2>2. trigger[plan[x][t].row] = t /\ status[plan[x][t].row] # "absent"
      BY <1>9, <2>1 DEF RowsApart, RowsInHand
    <2>3. trigger'[plan[x][t].row] = trigger[plan[x][t].row]
      BY <2>1, <2>2, CommitRow
    <2> QED
      BY <2>1, <2>2, <2>3
  <1>10. RowsApart'
    BY <1>2, <1>6, <1>7, <1>8, <1>9 DEF RowsApart
  <1>11. ASSUME NEW q \in Rows, NEW r \in Rows, key'[q], key'[r], trigger'[q] = trigger'[r]
         PROVE  q = r
    <2>1. CASE key[q] /\ trigger'[q] = trigger[q] /\ key[r] /\ trigger'[r] = trigger[r]
      BY <1>11, <2>1 DEF KeysApart
    <2>2. ASSUME NEW a \in Rows, NEW b \in Rows, trigger'[a] = trigger'[b],
                 key[a], trigger'[a] = trigger[a],
                 Inserting(s, trigger'[b]), trigger'[b] \in Triggers
          PROVE  FALSE
      <3>1. Active(trigger'[b]) = {}
        BY <2>2 DEF KeysApart
      <3>2. a \in Active(trigger'[b])
        BY <2>2 DEF Active
      <3> QED
        BY <3>1, <3>2
    <2>3. /\ \/ key[q] /\ trigger'[q] = trigger[q]
             \/ Inserting(s, trigger'[q]) /\ plan[s][trigger'[q]].row = q /\ trigger'[q] \in Triggers
          /\ \/ key[r] /\ trigger'[r] = trigger[r]
             \/ Inserting(s, trigger'[r]) /\ plan[s][trigger'[r]].row = r /\ trigger'[r] \in Triggers
      BY <1>11, CommitRow
    <2> QED
      BY <1>11, <2>1, <2>2, <2>3
  <1>12. ASSUME NEW x \in Sessions, NEW t \in Triggers, Inserting(x, t)'
         PROVE  Active(t)' = {}
    <2>1. x # s /\ Inserting(x, t)
      BY <1>4, <1>12
    <2>2. Active(t) = {} /\ ~Inserting(s, t)
      BY <2>1 DEF KeysApart
    <2> SUFFICES ASSUME NEW r \in Rows, key'[r], trigger'[r] = t PROVE FALSE
      BY DEF Active
    <2>3. ~(key[r] /\ trigger[r] = t)
      BY <2>2 DEF Active
    <2> QED
      BY <2>2, <2>3, CommitRow
  <1>13. ASSUME NEW x \in Sessions, NEW y \in Sessions, NEW t \in Triggers,
                Inserting(x, t)', Inserting(y, t)'
         PROVE  x = y
    BY <1>4, <1>13 DEF KeysApart
  <1>14. KeysApart'
    BY <1>11, <1>12, <1>13 DEF KeysApart
  <1> QED
    BY <1>10, <1>14

\* Session x plans nothing new.
Quiet(x) ==
  \/ plan'[x] = NoPlans
  \/ plan'[x] = plan[x] /\ (Uncommitted(x)' => Uncommitted(x))

\* Quiet sessions plan nothing.
LEMMA QuietPlans ==
  ASSUME \A x \in Sessions : Quiet(x)
  PROVE  PlansNothing
  <1> SUFFICES ASSUME NEW x \in Sessions, NEW u \in Triggers
               PROVE  /\ Inserting(x, u)' => Inserting(x, u) /\ plan'[x][u] = plan[x][u]
                      /\ plan'[x][u].op \in {"update", "resolve"} => plan'[x][u] = plan[x][u]
    BY DEF PlansNothing
  <1>1. CASE plan'[x] = NoPlans
    <2>1. plan'[x][u].op = "none"
      BY <1>1 DEF NoPlans, NoPlan
    <2> QED
      BY <2>1 DEF Inserting
  <1>2. CASE plan'[x] = plan[x] /\ (Uncommitted(x)' => Uncommitted(x))
    BY <1>2 DEF Inserting
  <1> QED
    BY <1>1, <1>2 DEF Quiet

\* Who wants what survives steps that neither decide nor start an insert.
LEMMA OneWantKept ==
  ASSUME OneWant,
         \A x \in Sessions : \/ want'[x] = want[x] /\ (pc'[x] = "insert" => pc[x] = "insert")
                             \/ want'[x] = NoWants /\ pc'[x] # "insert"
  PROVE  OneWant'
  <1> SUFFICES ASSUME NEW x \in Sessions
               PROVE  /\ \E t \in Triggers : want'[x][t] # "open"
                      /\ pc'[x] = "insert" => \E t \in Triggers : want'[x][t] = "open"
    BY DEF OneWant
  <1>1. CASE want'[x] = want[x] /\ (pc'[x] = "insert" => pc[x] = "insert")
    BY <1>1 DEF OneWant
  <1>2. CASE want'[x] = NoWants /\ pc'[x] # "insert"
    BY <1>2 DEF NoWants, Triggers
  <1> QED
    BY <1>1, <1>2

\* A step that ends session s and commits nothing.
LEMMA EndReconciled ==
  ASSUME ReconcileInv, NEW s \in Sessions, EndSession(s),
         UNCHANGED <<samples, status, trigger, key, lastId, raced>>
  PROVE  RowsApart' /\ KeysApart' /\ OneWant' /\ Current'
  <1>1. /\ TypeInv /\ TypeOK /\ RowsInHand
        /\ RowsApart /\ KeysApart /\ OneWant /\ Current
    BY DEF ReconcileInv, EvidenceInv, ToldInv, TypeInv
  <1>2. /\ pc'[s] = "idle" /\ want'[s] = NoWants /\ plan'[s] = NoPlans
        /\ \A x \in Sessions : x # s => SameSession(x)
    BY <1>1, Ended DEF SameSession
  <1>3. \A x \in Sessions : Quiet(x)
    BY <1>2 DEF Quiet, SameSession, Uncommitted
  <1>4. RowsApart' /\ KeysApart'
    BY <1>1, <1>3, QuietPlans, ApartKept
  <1>5. OneWant'
    BY <1>1, <1>2, OneWantKept DEF SameSession
  <1>6. ~Deciding(s)'
    BY <1>2 DEF Deciding, Triggers
  <1>7. Current'
    BY <1>1, <1>2, <1>6, CurrentKept
  <1> QED
    BY <1>4, <1>5, <1>7

\* ProbeStarts decides nothing.
LEMMA ProbeReconciled ==
  ASSUME ReconcileInv, NEW s \in Sessions, ProbeStarts(s)
  PROVE  RowsApart' /\ KeysApart' /\ OneWant' /\ Current'
  <1>1. /\ TypeInv /\ TypeOK /\ RowsInHand /\ Fresh
        /\ RowsApart /\ KeysApart /\ OneWant /\ Current
    BY DEF ReconcileInv, EvidenceInv, ToldInv, TypeInv
  <1>2. /\ UNCHANGED <<samples, status, trigger, key, lastId, want, plan, raced>>
        /\ pc[s] = "idle" /\ pc' = [pc EXCEPT ![s] = "probe"]
        /\ sample' = [sample EXCEPT ![s].at = clock + 1]
    BY DEF ProbeStarts, rowVars
  <1>3. pc'[s] = "probe" /\ \A x \in Sessions : x # s => SameSession(x)
    BY <1>1, <1>2 DEF TypeOK, SameSession
  <1>4. plan'[s] = NoPlans
    BY <1>1, <1>2 DEF Fresh
  <1>5. \A x \in Sessions : Quiet(x)
    BY <1>3, <1>4 DEF Quiet, SameSession, Uncommitted
  <1>6. RowsApart' /\ KeysApart'
    BY <1>1, <1>2, <1>5, QuietPlans, ApartKept
  <1>7. OneWant'
    BY <1>1, <1>2, <1>3, OneWantKept DEF SameSession
  <1>8. ~Deciding(s)'
    BY <1>3 DEF Deciding, Triggers
  <1>9. Current'
    BY <1>1, <1>2, <1>3, <1>8, CurrentKept
  <1> QED
    BY <1>6, <1>7, <1>9

\* FlushSample reads the samples and decides what it wants.
LEMMA FlushReconciled ==
  ASSUME ReconcileInv, NEW s \in Sessions, NEW k \in Kinds, FlushSample(s, k)
  PROVE  RowsApart' /\ KeysApart' /\ OneWant' /\ Current'
  <1>1. /\ TypeInv /\ TypeOK /\ RowsInHand /\ Fresh
        /\ RowsApart /\ KeysApart /\ OneWant /\ Current
    BY DEF ReconcileInv, EvidenceInv, ToldInv, TypeInv
  <1> DEFINE smp == [sample[s] EXCEPT !.kind = k]
  <1>2. /\ UNCHANGED <<samples, status, trigger, key, lastId, plan>>
        /\ pc[s] = "probe" /\ pc' = [pc EXCEPT ![s] = "availability"]
        /\ sample' = [sample EXCEPT ![s] = smp]
        /\ want' = [want EXCEPT ![s] = Wants(smp)]
        /\ raced' = [raced EXCEPT ![s] = FALSE]
    BY DEF FlushSample, rowVars
  <1> HIDE DEF smp
  <1>3. /\ pc'[s] = "availability" /\ sample'[s] = smp /\ want'[s] = Wants(smp)
        /\ \A x \in Sessions : x # s => SameSession(x)
    BY <1>1, <1>2 DEF TypeOK, SameSession
  <1>4. \A x \in Sessions : x # s => raced'[x] = raced[x]
    BY <1>1, <1>2 DEF TypeOK
  <1>5. \A x \in Sessions : Quiet(x)
    BY <1>2, <1>3 DEF Quiet, SameSession, Uncommitted
  <1>6. RowsApart' /\ KeysApart'
    BY <1>1, <1>2, <1>5, QuietPlans, ApartKept
  <1>7. OneWant'
    <2> SUFFICES ASSUME NEW x \in Sessions
                 PROVE  /\ \E t \in Triggers : want'[x][t] # "open"
                        /\ pc'[x] = "insert" => \E t \in Triggers : want'[x][t] = "open"
      BY DEF OneWant
    <2>1. CASE x = s
      BY <1>3, <2>1, WantsOne
    <2>2. CASE x # s
      BY <1>1, <1>3, <2>2 DEF OneWant, SameSession
    <2> QED
      BY <2>1, <2>2
  <1>8. UpToDate(s)'
    <2>1. Wants(sample[s])' = Wants(smp)
      <3>1. Visible(sample[s])' = Visible(smp)
        BY <1>2, <1>3 DEF Visible
      <3> QED
        BY <1>3, <3>1 DEF Wants, Consecutive, Recent, Taken
    <2>2. \A t \in Triggers : ~Decided(s, t)'
      BY <1>3 DEF Decided
    <2> QED
      BY <1>3, <2>1, <2>2 DEF UpToDate
  <1>9. Current'
    BY <1>1, <1>2, <1>3, <1>4, <1>8, CurrentKept
  <1> QED
    BY <1>6, <1>7, <1>9

\* SelectActive plans for the active row it finds.
LEMMA SelectReconciled ==
  ASSUME ReconcileInv, NEW s \in Sessions, NEW t \in Triggers, SelectActive(s, t)
  PROVE  RowsApart' /\ KeysApart' /\ OneWant' /\ Current'
  <1>1. /\ TypeInv /\ TypeOK /\ RowsInHand
        /\ RowsApart /\ KeysApart /\ OneWant /\ Current
    BY DEF ReconcileInv, EvidenceInv, ToldInv, TypeInv
  <1> DEFINE p == PlanFor(want[s][t], Active(t))
             w == want[s][t]
  <1>2. /\ UNCHANGED <<samples, status, trigger, key, lastId, sample, want, raced>>
        /\ plan' = [plan EXCEPT ![s][t] = p]
        /\ pc[s] = t
        /\ pc' = [pc EXCEPT ![s] = IF w = "open" /\ Active(t) = {} THEN "insert" ELSE After(t)]
    BY DEF SelectActive, rowVars
  <1>3. w \in {"none", "open", "resolve"}
    BY <1>1 DEF TypeOK
  <1>4. /\ p.op \in {"none", "update", "resolve"}
        /\ p.op = "none" <=> w = "none" \/ Active(t) = {}
        /\ p.op # "none" => p.row \in Active(t)
        /\ p.op = "update" <=> w = "open" /\ Active(t) # {}
    BY <1>1, <1>3, PlanForShape
  <1> HIDE DEF p
  <1>5. /\ pc'[s] = IF w = "open" /\ Active(t) = {} THEN "insert" ELSE After(t)
        /\ plan'[s][t] = p
        /\ \A u \in Triggers : u # t => plan'[s][u] = plan[s][u]
        /\ \A x \in Sessions : x # s => SameSession(x)
    BY <1>1, <1>2 DEF TypeOK, SameSession
  <1>6. ASSUME NEW x \in Sessions, NEW u \in Triggers, x # s \/ u # t
        PROVE  plan'[x][u] = plan[x][u]
    BY <1>5, <1>6 DEF SameSession
  <1>7. ASSUME NEW x \in Sessions, NEW u \in Triggers, Inserting(x, u)'
        PROVE  Inserting(x, u) /\ plan'[x][u] = plan[x][u]
    <2>1. x # s \/ u # t
      BY <1>4, <1>5, <1>7 DEF Inserting
    <2>2. Uncommitted(x)
      BY <1>2, <1>5, <1>7 DEF Inserting, Uncommitted, SameSession, Triggers
    <2> QED
      BY <1>6, <1>7, <2>1, <2>2 DEF Inserting
  <1>8. RowsApart'
    <2>1. ASSUME NEW x \in Sessions, NEW u \in Triggers, plan'[x][u].op \in {"update", "resolve"}
          PROVE  trigger'[plan'[x][u].row] = u
      <3>1. CASE x = s /\ u = t
        <4>1. p.row \in Active(t)
          BY <1>4, <1>5, <2>1, <3>1
        <4> QED
          BY <1>2, <1>5, <3>1, <4>1 DEF Active
      <3>2. CASE ~(x = s /\ u = t)
        <4>1. plan'[x][u] = plan[x][u]
          BY <1>6, <3>2
        <4> QED
          BY <1>1, <1>2, <2>1, <4>1 DEF RowsApart
      <3> QED
        BY <3>1, <3>2
    <2> QED
      BY <1>1, <1>2, <1>7, <2>1 DEF RowsApart
  <1>9. KeysApart'
    <2>1. \A u \in Triggers : Active(u)' = Active(u)
      BY <1>2 DEF Active
    <2> QED
      BY <1>1, <1>2, <1>7, <2>1 DEF KeysApart
  <1>10. OneWant'
    <2> SUFFICES ASSUME NEW x \in Sessions
                 PROVE  /\ \E u \in Triggers : want'[x][u] # "open"
                        /\ pc'[x] = "insert" => \E u \in Triggers : want'[x][u] = "open"
      BY DEF OneWant
    <2>1. CASE x = s
      <3>1. pc'[s] = "insert" => w = "open"
        BY <1>5 DEF After
      <3> QED
        BY <1>1, <1>2, <2>1, <3>1 DEF OneWant
    <2>2. CASE x # s
      BY <1>1, <1>2, <1>5, <2>2 DEF OneWant, SameSession
    <2> QED
      BY <2>1, <2>2
  <1>11. ASSUME UpToDate(s)
         PROVE  UpToDate(s)'
    <2>1. Wants(sample[s])' = Wants(sample[s])
      <3>1. Visible(sample[s])' = Visible(sample[s])
        BY <1>2 DEF Visible
      <3> QED
        BY <1>2, <3>1 DEF Wants, Consecutive, Recent, Taken
    <2>2. \A u \in Triggers : Active(u)' = Active(u)
      BY <1>2 DEF Active
    <2>3. ASSUME NEW u \in Triggers, Decided(s, u)'
          PROVE  Follows(plan'[s][u], want[s][u], Active(u))
      <3>1. CASE u = t
        <4>1. ~(w = "open" /\ Active(t) = {})
          <5> SUFFICES ASSUME w = "open", Active(t) = {} PROVE FALSE
            OBVIOUS
          <5>1. pc'[s] = "insert"
            BY <1>5
          <5>2. t = "availability" /\ want[s]["latency"] = "open"
            BY <1>2, <2>3, <3>1, <5>1 DEF Decided
          <5> QED
            BY <1>1, <5>2 DEF OneWant, Triggers
        <4> QED
          BY <1>3, <1>4, <1>5, <3>1, <4>1 DEF Follows
      <3>2. CASE u # t
        <4>1. t = "latency" /\ u = "availability"
          BY <1>5, <2>3, <3>2 DEF Decided, Triggers, After
        <4>2. Decided(s, u)
          BY <1>2, <4>1 DEF Decided
        <4>3. plan'[s][u] = plan[s][u]
          BY <1>5, <3>2
        <4> QED
          BY <1>11, <4>2, <4>3 DEF UpToDate
      <3> QED
        BY <3>1, <3>2
    <2>4. ASSUME NEW u \in Triggers, Decided(s, u)'
          PROVE  Follows(plan[s][u], want[s][u], Active(u))'
      BY <1>2, <2>2, <2>3, <2>4 DEF Follows
    <2> QED
      BY <1>2, <1>11, <2>1, <2>4 DEF UpToDate
  <1>12. Current'
    <2>1. Deciding(s)
      BY <1>2 DEF Deciding
    <2>2. CASE ~raced[s]
      <3>1. UpToDate(s)'
        BY <1>1, <1>11, <2>1, <2>2 DEF Current
      <3> QED
        BY <1>1, <1>2, <1>5, <3>1, CurrentKept
    <2>3. CASE raced[s]
      <3> SUFFICES ASSUME NEW x \in Sessions, Deciding(x)', ~raced'[x]
                   PROVE  UpToDate(x)'
        BY DEF Current
      <3>1. x # s /\ SameSession(x)
        BY <1>2, <1>5, <2>3
      <3>2. Deciding(x) /\ ~raced[x]
        BY <1>2, <3>1 DEF Deciding, SameSession
      <3> QED
        BY <1>1, <1>2, <3>1, <3>2, UpToDateKept DEF Current
    <2> QED
      BY <2>2, <2>3
  <1> QED
    BY <1>8, <1>9, <1>10, <1>12

\* InsertIncident takes a primary key and the right to its active_key.
LEMMA InsertReconciled ==
  ASSUME ReconcileInv, NEW s \in Sessions, NEW t \in Triggers, InsertIncident(s, t)
  PROVE  RowsApart' /\ KeysApart' /\ OneWant' /\ Current'
  <1>1. /\ TypeInv /\ TypeOK /\ RowsInHand
        /\ RowsApart /\ KeysApart /\ OneWant /\ Current
    BY DEF ReconcileInv, EvidenceInv, ToldInv, TypeInv
  <1>2. /\ UNCHANGED <<samples, status, trigger, key, raced>>
        /\ pc[s] = "insert" /\ want[s][t] = "open" /\ ~Reserved(s, t)
    BY DEF InsertIncident, rowVars
  <1>3. CASE Active(t) # {}
    <2>1. EndSession(s) /\ lastId' = lastId
      BY <1>3 DEF InsertIncident
    <2> QED
      BY <1>2, <2>1, EndReconciled
  <1>4. CASE Active(t) = {}
    <2> DEFINE p == [op |-> "insert", row |-> lastId + 1, count |-> 1, notify |-> TRUE]
    <2>1. /\ lastId < MaxIncidents /\ lastId' = lastId + 1
          /\ plan' = [plan EXCEPT ![s][t] = p]
          /\ pc' = [pc EXCEPT ![s] = After(t)]
          /\ UNCHANGED <<sample, want>>
      BY <1>4 DEF InsertIncident
    <2>2. p.op = "insert" /\ p.row = lastId'
      BY <2>1
    <2> HIDE DEF p
    <2>3. lastId \in Nat /\ lastId' \in Rows
      BY <1>1, <2>1 DEF TypeOK, Rows
    <2>4. /\ pc'[s] = After(t)
          /\ plan'[s][t] = p
          /\ \A u \in Triggers : u # t => plan'[s][u] = plan[s][u]
          /\ \A x \in Sessions : x # s => SameSession(x)
      BY <1>1, <2>1 DEF TypeOK, SameSession
    <2>5. ASSUME NEW x \in Sessions, NEW u \in Triggers, x # s \/ u # t
          PROVE  /\ plan'[x][u] = plan[x][u]
                 /\ Inserting(x, u)' => Inserting(x, u)
      <3>1. plan'[x][u] = plan[x][u]
        BY <2>4, <2>5 DEF SameSession
      <3>2. Uncommitted(x)' => Uncommitted(x)
        BY <1>2, <2>4 DEF Uncommitted, SameSession
      <3> QED
        BY <3>1, <3>2 DEF Inserting
    <2>6. RowsApart'
      <3>1. \A r \in Rows : r > lastId' => status'[r] = "absent"
        <4>1. \A r \in Rows : r > lastId' => r > lastId
          BY <2>1, <2>3 DEF Rows
        <4> QED
          BY <1>1, <1>2, <4>1 DEF RowsApart
      <3>2. ASSUME NEW x \in Sessions, NEW u \in Triggers, Inserting(x, u)'
            PROVE  /\ plan'[x][u].row <= lastId' /\ status'[plan'[x][u].row] = "absent"
                   /\ x # s \/ u # t => plan'[x][u].row # lastId'
        <4>1. CASE x = s /\ u = t
          <5>1. plan'[x][u].row = lastId'
            BY <2>2, <2>4, <4>1
          <5>2. lastId' > lastId
            BY <2>1, <2>3
          <5>3. status[lastId'] = "absent"
            BY <1>1, <2>3, <5>2 DEF RowsApart
          <5> QED
            BY <1>2, <2>1, <2>3, <4>1, <5>1, <5>3
        <4>2. CASE ~(x = s /\ u = t)
          <5>1. plan'[x][u] = plan[x][u] /\ Inserting(x, u)
            BY <2>5, <3>2, <4>2
          <5>2. plan[x][u].row \in Nat
            BY <1>1 DEF TypeOK, Plan
          <5>3. plan[x][u].row <= lastId /\ status[plan[x][u].row] = "absent"
            BY <1>1, <5>1 DEF RowsApart
          <5> QED
            BY <1>2, <2>1, <2>3, <5>1, <5>2, <5>3
        <4> QED
          BY <4>1, <4>2
      <3>3. ASSUME NEW x \in Sessions, NEW y \in Sessions, NEW u \in Triggers, NEW v \in Triggers,
                   Inserting(x, u)', Inserting(y, v)', plan'[x][u].row = plan'[y][v].row
            PROVE  x = y /\ u = v
        <4>1. CASE x = s /\ u = t
          BY <2>2, <2>4, <3>2, <3>3, <4>1
        <4>2. CASE y = s /\ v = t
          BY <2>2, <2>4, <3>2, <3>3, <4>2
        <4>3. CASE ~(x = s /\ u = t) /\ ~(y = s /\ v = t)
          BY <1>1, <2>5, <3>3, <4>3 DEF RowsApart
        <4> QED
          BY <4>1, <4>2, <4>3
      <3>4. ASSUME NEW x \in Sessions, NEW u \in Triggers, plan'[x][u].op \in {"update", "resolve"}
            PROVE  trigger'[plan'[x][u].row] = u
        <4>1. x # s \/ u # t
          BY <2>2, <2>4, <3>4
        <4>2. plan'[x][u] = plan[x][u]
          BY <2>5, <4>1
        <4> QED
          BY <1>1, <1>2, <3>4, <4>2 DEF RowsApart
      <3> QED
        BY <3>1, <3>2, <3>3, <3>4 DEF RowsApart
    <2>7. ASSUME NEW x \in Sessions, x # s
          PROVE  ~Inserting(x, t)'
      BY <1>2, <2>5, <2>7 DEF Reserved, Inserting, Uncommitted
    <2>8. KeysApart'
      <3>1. \A u \in Triggers : Active(u)' = Active(u)
        BY <1>2 DEF Active
      <3>2. ASSUME NEW x \in Sessions, NEW u \in Triggers, Inserting(x, u)'
            PROVE  Active(u)' = {}
        <4>1. CASE u = t
          BY <1>4, <3>1, <4>1
        <4>2. CASE u # t
          BY <1>1, <2>5, <3>1, <3>2, <4>2 DEF KeysApart
        <4> QED
          BY <4>1, <4>2
      <3>3. ASSUME NEW x \in Sessions, NEW y \in Sessions, NEW u \in Triggers,
                   Inserting(x, u)', Inserting(y, u)'
            PROVE  x = y
        <4>1. CASE u = t
          BY <2>7, <3>3, <4>1
        <4>2. CASE u # t
          BY <1>1, <2>5, <3>3, <4>2 DEF KeysApart
        <4> QED
          BY <4>1, <4>2
      <3>4. \A q, r \in Rows : key'[q] /\ key'[r] /\ trigger'[q] = trigger'[r] => q = r
        BY <1>1, <1>2 DEF KeysApart
      <3> QED
        BY <3>2, <3>3, <3>4 DEF KeysApart
    <2>9. OneWant'
      <3>1. \A x \in Sessions : want'[x] = want[x] /\ (pc'[x] = "insert" => pc[x] = "insert")
        BY <1>2, <2>1, <2>4 DEF SameSession
      <3> QED
        BY <1>1, <3>1, OneWantKept
    <2>10. ASSUME UpToDate(s)
           PROVE  UpToDate(s)'
      <3>1. Wants(sample[s])' = Wants(sample[s])
        <4>1. Visible(sample[s])' = Visible(sample[s])
          BY <1>2, <2>1 DEF Visible
        <4> QED
          BY <2>1, <4>1 DEF Wants, Consecutive, Recent, Taken
      <3>2. \A u \in Triggers : Active(u)' = Active(u)
        BY <1>2 DEF Active
      <3>3. ASSUME NEW u \in Triggers, Decided(s, u)'
            PROVE  Follows(plan'[s][u], want[s][u], Active(u))
        <4>1. CASE u = t
          BY <1>2, <1>4, <2>2, <2>4, <4>1 DEF Follows
        <4>2. CASE u # t
          <5>1. t = "latency" /\ u = "availability"
            BY <2>4, <3>3, <4>2 DEF Decided, Triggers, After
          <5>2. Decided(s, u)
            BY <1>2, <5>1 DEF Decided
          <5>3. plan'[s][u] = plan[s][u]
            BY <2>4, <4>2
          <5> QED
            BY <2>10, <5>2, <5>3 DEF UpToDate
        <4> QED
          BY <4>1, <4>2
      <3>4. ASSUME NEW u \in Triggers, Decided(s, u)'
            PROVE  Follows(plan[s][u], want[s][u], Active(u))'
        BY <2>1, <3>2, <3>3, <3>4 DEF Follows
      <3> QED
        BY <2>1, <2>10, <3>1, <3>4 DEF UpToDate
    <2>11. Current'
      <3> SUFFICES ASSUME NEW x \in Sessions, Deciding(x)', ~raced'[x]
                   PROVE  UpToDate(x)'
        BY DEF Current
      <3>1. CASE x = s
        <4>1. Deciding(s) /\ ~raced[s]
          BY <1>2, <3>1 DEF Deciding
        <4> QED
          BY <1>1, <2>10, <3>1, <4>1 DEF Current
      <3>2. CASE x # s
        <4>1. SameSession(x)
          BY <2>4, <3>2
        <4>2. Deciding(x) /\ ~raced[x]
          BY <1>2, <4>1 DEF Deciding, SameSession
        <4> QED
          BY <1>1, <1>2, <4>1, <4>2, UpToDateKept DEF Current
      <3> QED
        BY <3>1, <3>2
    <2> QED
      BY <2>6, <2>8, <2>9, <2>11
  <1> QED
    BY <1>3, <1>4

\* A commit disturbs every other session that has read.
LEMMA CommitReconciled ==
  ASSUME ReconcileInv, NEW s \in Sessions, CommitSample(s)
  PROVE  RowsApart' /\ KeysApart' /\ OneWant' /\ Current'
  <1>1. /\ TypeInv /\ TypeOK /\ RowsInHand
        /\ RowsApart /\ KeysApart /\ OneWant /\ Current
    BY DEF ReconcileInv, EvidenceInv, ToldInv, TypeInv
  <1>2. Ends(s) /\ \A x \in Sessions : x # s => SameSession(x)
    BY <1>1, CommitSessions
  <1>3. RowsApart' /\ KeysApart'
    BY <1>1, CommitApart
  <1>4. OneWant'
    <2>1. want'[s] = want[s] \/ want'[s] = NoWants
      <3>1. CASE mode = "direct" /\ Notifies(s) # {}
        BY <3>1 DEF CommitSample
      <3>2. CASE ~(mode = "direct" /\ Notifies(s) # {})
        BY <1>1, <3>2, Ended DEF CommitSample
      <3> QED
        BY <3>1, <3>2
    <2> QED
      BY <1>1, <1>2, <2>1, OneWantKept DEF Ends, SameSession
  <1>5. Current'
    <2> SUFFICES ASSUME NEW x \in Sessions, Deciding(x)', ~raced'[x]
                 PROVE  FALSE
      BY DEF Current
    <2>1. x # s
      BY <1>2 DEF Ends, Deciding, Triggers
    <2>2. Deciding(x)
      BY <1>2, <2>1 DEF SameSession, Deciding
    <2>3. raced'[x] = (raced[x] \/
            (x \in Sessions \ {s} /\ pc[x] \in Triggers \cup {"insert", "commit"}))
      BY DEF CommitSample, Disturbs
    <2> QED
      BY <2>1, <2>2, <2>3 DEF Deciding
  <1> QED
    BY <1>3, <1>4, <1>5

\* A step that leaves the sessions, the samples and the keys alone.
LEMMA IdleReconciled ==
  ASSUME ReconcileInv, UNCHANGED <<samples, status, trigger, key, lastId, pc, sample, want,
                                   plan, raced>>
  PROVE  RowsApart' /\ KeysApart' /\ OneWant' /\ Current'
  <1>1. /\ TypeInv /\ RowsInHand /\ RowsApart /\ KeysApart /\ OneWant /\ Current
    BY DEF ReconcileInv, EvidenceInv, ToldInv
  <1>2. \A x \in Sessions : SameSession(x) /\ Quiet(x)
    BY DEF SameSession, Quiet, Uncommitted
  <1>3. RowsApart' /\ KeysApart'
    BY <1>1, <1>2, QuietPlans, ApartKept
  <1>4. OneWant'
    BY <1>1, OneWantKept
  <1>5. Current'
    BY <1>1, <1>2, CurrentKept
  <1> QED
    BY <1>3, <1>4, <1>5

\* Every step keeps the index and the decisions of undisturbed sessions.
LEMMA ReconcileStep ==
  ASSUME ReconcileInv, [Next]_vars
  PROVE  ReconcileInv'
  <1>1. /\ EvidenceInv /\ TypeInv /\ TypeOK /\ RowsInHand
        /\ RowsApart /\ KeysApart /\ OneWant /\ Current
    BY DEF ReconcileInv, EvidenceInv, ToldInv, TypeInv
  <1> SUFFICES RowsApart' /\ KeysApart' /\ OneWant' /\ Current'
    BY <1>1, EvidenceStep DEF ReconcileInv
  <1>2. ASSUME NEW s \in Sessions, ProbeStarts(s)
        PROVE  RowsApart' /\ KeysApart' /\ OneWant' /\ Current'
    BY <1>2, ProbeReconciled
  <1>3. ASSUME NEW s \in Sessions, NEW k \in Kinds, FlushSample(s, k)
        PROVE  RowsApart' /\ KeysApart' /\ OneWant' /\ Current'
    BY <1>3, FlushReconciled
  <1>4. ASSUME NEW s \in Sessions, NEW t \in Triggers, SelectActive(s, t)
        PROVE  RowsApart' /\ KeysApart' /\ OneWant' /\ Current'
    BY <1>4, SelectReconciled
  <1>5. ASSUME NEW s \in Sessions, NEW t \in Triggers, InsertIncident(s, t)
        PROVE  RowsApart' /\ KeysApart' /\ OneWant' /\ Current'
    BY <1>5, InsertReconciled
  <1>6. ASSUME NEW s \in Sessions, CommitSample(s)
        PROVE  RowsApart' /\ KeysApart' /\ OneWant' /\ Current'
    BY <1>6, CommitReconciled
  <1>7. ASSUME NEW s \in Sessions, Dispatch(s)
        PROVE  RowsApart' /\ KeysApart' /\ OneWant' /\ Current'
    <2>1. /\ UNCHANGED <<samples, status, trigger, key, lastId, sample, want, plan, raced>>
          /\ pc[s] = "dispatch" /\ pc' = [pc EXCEPT ![s] = "mark"]
      BY <1>7 DEF Dispatch, rowVars
    <2>2. pc'[s] = "mark" /\ \A x \in Sessions : x # s => SameSession(x)
      BY <1>1, <2>1 DEF SameSession, TypeOK
    <2>3. \A x \in Sessions : Quiet(x)
      BY <2>1, <2>2 DEF Quiet, SameSession, Uncommitted
    <2>4. RowsApart' /\ KeysApart'
      BY <1>1, <2>1, <2>3, QuietPlans, ApartKept
    <2>5. OneWant'
      BY <1>1, <2>1, <2>2, OneWantKept DEF SameSession
    <2>6. ~Deciding(s)'
      BY <2>2 DEF Deciding, Triggers
    <2>7. Current'
      BY <1>1, <2>1, <2>2, <2>6, CurrentKept
    <2> QED
      BY <2>4, <2>5, <2>7
  <1>8. ASSUME NEW s \in Sessions, MarkNotificationAttempted(s) \/ Crash(s)
        PROVE  RowsApart' /\ KeysApart' /\ OneWant' /\ Current'
    <2>1. UNCHANGED <<samples, status, trigger, key, lastId, raced>> /\ EndSession(s)
      BY <1>8 DEF MarkNotificationAttempted, Crash, rowVars
    <2> QED
      BY <2>1, EndReconciled
  <1>9. ASSUME NEW r \in Rows, CooldownElapses(r)
        PROVE  RowsApart' /\ KeysApart' /\ OneWant' /\ Current'
    BY <1>9, IdleReconciled DEF CooldownElapses, sessionVars
  <1>10. ASSUME NEW o \in Operators, NEW r \in Rows, NEW q \in {"acknowledge", "resolve"},
                OperatorReads(o, r, q)
         PROVE  RowsApart' /\ KeysApart' /\ OneWant' /\ Current'
    BY <1>10, IdleReconciled DEF OperatorReads, sessionVars, rowVars
  <1>11. ASSUME NEW o \in Operators, OperatorCommits(o)
         PROVE  RowsApart' /\ KeysApart' /\ OneWant' /\ Current'
    <2>1. /\ UNCHANGED <<samples, trigger, lastId, pc, sample, want, plan>>
          /\ opc[o] # "idle"
          /\ \/ status' = [status EXCEPT ![opRow[o]] = "acknowledged"]
             \/ status' = [status EXCEPT ![opRow[o]] = "resolved"]
          /\ key' = key \/ key' = [key EXCEPT ![opRow[o]] = FALSE]
          /\ \A x \in Sessions : raced'[x] =
               (raced[x] \/ (x \in Sessions /\ pc[x] \in Triggers \cup {"insert", "commit"}))
      BY <1>11 DEF OperatorCommits, sessionVars, Disturbs
    <2>2. opRow[o] \in Rows /\ status[opRow[o]] # "absent"
      BY <1>1, <2>1 DEF RowsInHand
    <2>3. \A r \in Rows : status'[r] = "absent" <=> status[r] = "absent"
      BY <1>1, <2>1, <2>2 DEF TypeOK
    <2>4. \A r \in Rows : key'[r] => key[r]
      BY <1>1, <2>1 DEF TypeOK
    <2>5. \A x \in Sessions : Quiet(x)
      BY <2>1 DEF Quiet, Uncommitted
    <2>6. RowsApart' /\ KeysApart'
      BY <1>1, <2>1, <2>3, <2>4, <2>5, QuietPlans, ApartKept
    <2>7. OneWant'
      BY <1>1, <2>1, OneWantKept
    <2>8. Current'
      BY <2>1 DEF Current, Deciding
    <2> QED
      BY <2>6, <2>7, <2>8
  <1>12. CASE UNCHANGED vars
    BY <1>12, IdleReconciled DEF vars, rowVars, sessionVars
  <1> QED
    BY <1>2, <1>3, <1>4, <1>5, <1>6, <1>7, <1>8, <1>9, <1>10, <1>11, <1>12 DEF Next

\* At the start there is no row and no session.
LEMMA ReconcileInit == Init => ReconcileInv
  <1> SUFFICES ASSUME Init PROVE ReconcileInv
    OBVIOUS
  <1>1. \A x \in Sessions : ~Uncommitted(x) /\ ~Deciding(x) /\ pc[x] # "insert"
    BY DEF Init, Uncommitted, Deciding, Triggers
  <1>2. RowsApart
    BY <1>1 DEF Init, RowsApart, Inserting, NoPlans, NoPlan
  <1>3. KeysApart
    BY <1>1 DEF Init, KeysApart, Inserting
  <1>4. OneWant
    BY <1>1 DEF Init, OneWant, NoWants, Triggers
  <1>5. Current
    BY <1>1 DEF Current
  <1> QED
    BY <1>2, <1>3, <1>4, <1>5, EvidenceInit DEF ReconcileInv

\* What the policies ask for, in the terms of the property.
LEMMA WantsMeaning ==
  ASSUME NEW smp, NEW t \in Triggers
  PROVE  /\ Wants(smp)[t] = "open" <=> Watched(t) /\ InTrouble(t, Visible(smp))
         /\ Wants(smp)[t] # "open" =>
              (Wants(smp)[t] = "resolve" <=> Recovered(t, smp.kind))
         /\ Wants(smp)[t] \in {"none", "open", "resolve"}
  <1>1. InTrouble(t, Visible(smp)) <=> Consecutive(Visible(smp), BadKind(t))
    BY TroubleIsConsecutive
  <1>2. CASE t = "availability"
    BY <1>1, <1>2 DEF Wants, BadKind, Watched, Recovered
  <1>3. CASE t = "latency"
    BY <1>1, <1>3 DEF Wants, BadKind, Watched, Recovered
  <1> QED
    BY <1>2, <1>3 DEF Triggers

\* An undisturbed commit leaves the active incidents the policies ask for.
LEMMA Reconciles ==
  ASSUME ReconcileInv, NEW s \in Sessions, NEW t \in Triggers, CommitSample(s), ~raced[s]
  PROVE  IF Watched(t) /\ InTrouble(t, samples') THEN Active(t)' # {}
         ELSE IF Recovered(t, sample[s].kind) THEN Active(t)' = {}
         ELSE Active(t)' = Active(t)
  <1>1. /\ TypeInv /\ TypeOK /\ RowsInHand /\ KeyImpliesActive /\ PlanShape
        /\ SamplesApart /\ RowsApart /\ KeysApart /\ OneWant /\ Current
    BY DEF ReconcileInv, EvidenceInv, ToldInv, TypeInv
  <1>2. pc[s] = "commit" /\ Uncommitted(s) /\ Deciding(s) /\ Decided(s, t)
    BY DEF CommitSample, Uncommitted, Deciding, Decided
  <1>3. UpToDate(s)
    BY <1>1, <1>2 DEF Current
  <1> DEFINE w == want[s][t]
             p == plan[s][t]
  <1>4. w = Wants(sample[s])[t] /\ Follows(p, w, Active(t))
    BY <1>2, <1>3 DEF UpToDate
  <1>5. samples' = Visible(sample[s])
    BY <1>1, CommittedSamples
  <1>6. /\ w = "open" <=> Watched(t) /\ InTrouble(t, samples')
        /\ w # "open" => (w = "resolve" <=> Recovered(t, sample[s].kind))
        /\ w \in {"none", "open", "resolve"}
    BY <1>4, <1>5, WantsMeaning
  <1>7. ASSUME p.op # "none"
        PROVE  p.row \in Rows /\ Written(s, p.row, t)
    <2>1. p.row \in Rows
      BY <1>1, <1>7, PlannedRow
    <2>2. PICK u \in Triggers : Written(s, p.row, u)
      BY <1>1, <2>1, CommitWrites
    <2>3. plan[s][u].row = p.row
      BY <2>2 DEF Written
    <2>4. u = t
      BY <1>1, <1>2, <1>7, <2>3, PlansApart
    <2> QED
      BY <2>1, <2>2, <2>4
  <1>8. ASSUME p.op # "insert", NEW r \in Active(t)'
        PROVE  r \in Active(t)
    <2>1. r \in Rows /\ key'[r] /\ trigger'[r] = t
      BY <1>8 DEF Active
    <2>2. ~Inserting(s, t)
      BY <1>8 DEF Inserting
    <2>3. key[r] /\ trigger'[r] = trigger[r]
      BY <1>1, <2>1, <2>2, CommitRow
    <2> QED
      BY <2>1, <2>3 DEF Active
  <1>9. CASE w = "open"
    <2>1. Active(t)' # {}
      <3>1. CASE p.op = "update" /\ p.row \in Active(t)
        <4>1. key[p.row] /\ trigger[p.row] = t
          BY <3>1 DEF Active
        <4>2. p.row \in Rows /\ Written(s, p.row, t)
          BY <1>7, <3>1
        <4>3. key'[p.row] = key[p.row] /\ trigger'[p.row] = trigger[p.row]
          BY <3>1, <4>2 DEF Written
        <4> QED
          BY <4>1, <4>2, <4>3 DEF Active
      <3>2. CASE p.op = "insert"
        <4>1. p.row \in Rows /\ Written(s, p.row, t)
          BY <1>7, <3>2
        <4>2. key'[p.row] = TRUE /\ trigger'[p.row] = t
          BY <3>2, <4>1 DEF Written
        <4> QED
          BY <4>1, <4>2 DEF Active
      <3> QED
        BY <1>4, <1>9, <3>1, <3>2 DEF Follows
    <2> QED
      BY <1>6, <1>9, <2>1
  <1>10. CASE w = "resolve"
    <2>1. Active(t)' = {}
      <3>1. CASE p.op = "none" /\ Active(t) = {}
        BY <1>8, <3>1
      <3>2. CASE p.op = "resolve" /\ p.row \in Active(t)
        <4> SUFFICES ASSUME NEW r \in Active(t)' PROVE FALSE
          OBVIOUS
        <4>1. r \in Active(t)
          BY <1>8, <3>2
        <4>2. r \in Rows /\ p.row \in Rows /\ key[r] /\ key[p.row] /\ trigger[r] = trigger[p.row]
          BY <3>2, <4>1 DEF Active
        <4>3. r = p.row
          BY <1>1, <4>2 DEF KeysApart
        <4>4. Written(s, p.row, t)
          BY <1>7, <3>2
        <4>5. key'[p.row] = FALSE
          BY <3>2, <4>4 DEF Written
        <4>6. key'[r]
          BY DEF Active
        <4> QED
          BY <4>3, <4>5, <4>6
      <3> QED
        BY <1>4, <1>10, <3>1, <3>2 DEF Follows
    <2> QED
      BY <1>6, <1>10, <2>1
  <1>11. CASE w = "none"
    <2>1. p.op = "none"
      BY <1>4, <1>11 DEF Follows
    <2>2. Active(t)' \subseteq Active(t)
      BY <1>8, <2>1
    <2>3. ASSUME NEW r \in Active(t)
          PROVE  r \in Active(t)'
      <3>1. r \in Rows /\ key[r] /\ trigger[r] = t /\ status[r] # "absent"
        BY <1>1 DEF Active, KeyImpliesActive, ACTIVE_INCIDENT_STATUSES
      <3>2. ASSUME NEW u \in Triggers, Written(s, r, u)
            PROVE  FALSE
        <4>1. plan[s][u].row = r /\ plan[s][u].op # "none" /\ u # t
          BY <2>1, <3>2 DEF Written
        <4>2. CASE plan[s][u].op = "insert"
          BY <1>1, <1>2, <3>1, <4>1, <4>2 DEF RowsApart, Inserting
        <4>3. CASE plan[s][u].op # "insert"
          <5>1. plan[s][u].op \in {"update", "resolve"}
            BY <1>1, <4>1, <4>3 DEF TypeOK, Plan
          <5> QED
            BY <1>1, <3>1, <4>1, <5>1 DEF RowsApart
        <4> QED
          BY <4>2, <4>3
      <3>3. Untouched(r)
        BY <1>1, <3>1, <3>2, CommitWrites
      <3> QED
        BY <3>1, <3>3 DEF Untouched, Active
    <2>4. Active(t)' = Active(t)
      BY <2>2, <2>3
    <2> QED
      BY <1>6, <1>11, <2>4
  <1> QED
    BY <1>6, <1>9, <1>10, <1>11

\* The invariant behind the results on reconciliation holds for every instance.
THEOREM Invariance == Spec => []ReconcileInv
  BY ReconcileInit, ReconcileStep, PTL DEF Spec

\* At most one row carries the active_key of a trigger: the wait of an insert for an
\* uncommitted one with its key, and its failure when that one commits, are enough.
THEOREM KeysAreUnique ==
  Spec => [](\A q, r \in Rows : key[q] /\ key[r] /\ trigger[q] = trigger[r] => q = r)
  <1>1. ReconcileInv => \A q, r \in Rows : key[q] /\ key[r] /\ trigger[q] = trigger[r] => q = r
    BY DEF ReconcileInv, KeysApart
  <1> QED
    BY <1>1, Invariance, PTL

\* A health sample recorded while nobody else commits leaves exactly the active
\* incidents the policies ask for, whatever the order in which sessions took their
\* samples, waited for each other's inserts and were rolled back before.
THEOREM UndisturbedReconciles == Spec => ReconciledWhenUndisturbed
  <1>1. ReconcileInv /\ [Next]_vars =>
          [\A s \in Sessions : \A t \in Triggers :
             CommitSample(s) /\ ~raced[s] =>
               IF Watched(t) /\ InTrouble(t, samples') THEN Active(t)' # {}
               ELSE IF Recovered(t, sample[s].kind) THEN Active(t)' = {}
               ELSE Active(t)' = Active(t)]_vars
    <2> SUFFICES ASSUME ReconcileInv, NEW s \in Sessions, NEW t \in Triggers,
                        CommitSample(s), ~raced[s]
                 PROVE  IF Watched(t) /\ InTrouble(t, samples') THEN Active(t)' # {}
                        ELSE IF Recovered(t, sample[s].kind) THEN Active(t)' = {}
                        ELSE Active(t)' = Active(t)
      OBVIOUS
    <2> QED
      BY Reconciles
  <1> QED
    BY <1>1, Invariance, PTL DEF Spec, ReconciledWhenUndisturbed
=============================================================================
