--------------------------- MODULE SecurityEvents ---------------------------
(***************************************************************************)
(* The security_events table: abuse signals, raised by the detectors or by *)
(* hand and resolved once, and the audit trail, whose rows are chained by  *)
(* their hashes.                                                           *)
(*                                                                         *)
(* A resolution and an audit append first read and then write, and are     *)
(* followed through both; an append gets its id from the INSERT and is     *)
(* seen by others from its COMMIT on, so that ids need not be committed in *)
(* order.  The hash of an audit row is represented by the row's id, 0      *)
(* being the empty predecessor.                                            *)
(***************************************************************************)
EXTENDS Naturals, Sequences, FiniteSets

CONSTANTS
  Resolvers,   \* callers of PATCH /signals/{id}/resolve
  Emitters,    \* requests that write an audit event
  Tenants,
  MaxSignals,  \* bound: rows of category abuse
  MaxEvents    \* bound: ids given to rows of category audit

None == "none"
Ids == 1..MaxSignals
Idle == [step |-> "idle", last |-> 0, id |-> 0]

VARIABLES
  signals,     \* sequence of signals: severity, evidence, tenant and resolver
  resolver,    \* resolver -> id it read as open, or 0
  raced,       \* history: ids read as open by two resolvers at once
  trail,       \* id -> id of the predecessor, of the committed audit rows
  lastId,      \* ids given so far
  emitter,     \* what each emitter is doing, with the predecessor it read and its id
  overtaken,   \* history: emitters that read and then saw another append committed
  forked,      \* history: ids of rows inserted after or beside another append
  reply        \* status of the latest answer

vars == <<signals, resolver, raced, trail, lastId, emitter, overtaken, forked, reply>>
auditVars == <<trail, lastId, emitter, overtaken, forked>>

-----------------------------------------------------------------------------
(* The detectors.  Multipliers, thresholds and quota are those of           *)
(* constants.py, rates are per cent.                                        *)

NoQuota == 0
DefaultQuota == 60

\* evaluate_source_noise: the pro-rated budget times the multiplier.
NoiseReaches(count, seconds, quota, multiplier) ==
  count * 60 >= multiplier * (IF quota = NoQuota THEN DefaultQuota ELSE quota) * seconds

\* Mutant: the thresholds are tried from the lowest.
EvaluateSourceNoise_LowFirst(count, seconds, quota) ==
  CASE seconds = 0 -> None
    [] seconds > 0 /\ NoiseReaches(count, seconds, quota, 2) -> "medium"
    [] OTHER -> None

EvaluateSourceNoise(count, seconds, quota) ==
  CASE seconds = 0 -> None
    [] seconds > 0 /\ NoiseReaches(count, seconds, quota, 10) -> "critical"
    [] seconds > 0 /\ NoiseReaches(count, seconds, quota, 5)
         /\ ~NoiseReaches(count, seconds, quota, 10) -> "high"
    [] seconds > 0 /\ NoiseReaches(count, seconds, quota, 2)
         /\ ~NoiseReaches(count, seconds, quota, 5) -> "medium"
    [] OTHER -> None

Grade(value, medium, high) ==
  CASE value >= high -> "high" [] value >= medium /\ value < high -> "medium" [] OTHER -> None

KeyGrades(failures, ips, errors, total) ==
  <<Grade(failures, 5, 20), Grade(ips, 5, 10),
    IF total > 0 THEN Grade(errors, 50, 90) ELSE None>>

\* evaluate_key_suspicion: the first of the three rules that finds anything,
\* even if a later one finds something worse.
EvaluateKeySuspicion(failures, ips, errors, total) ==
  LET found == SelectSeq(KeyGrades(failures, ips, errors, total), LAMBDA g : g # None)
  IN IF found = <<>> THEN None ELSE found[1]

SeverityRank == [low |-> 0, medium |-> 1, high |-> 2, critical |-> 3]
IsHighOrAbove(severity) == SeverityRank[severity] >= SeverityRank["high"]
ActionTaken(severity) == IF IsHighOrAbove(severity) THEN "alerted" ELSE "logged"

-----------------------------------------------------------------------------
(* Signals.                                                                 *)

CreateSignal(severity, evidence, tenant) ==
  /\ Len(signals) < MaxSignals
  /\ signals' = Append(signals, [severity |-> severity, evidence |-> evidence,
                                 action |-> ActionTaken(severity), tenant |-> tenant,
                                 by |-> None])
  /\ UNCHANGED <<resolver, raced, auditVars>>

CreateSignalByHand(severity, tenant) ==
  CreateSignal(severity, <<>>, tenant) /\ reply' = "201"

\* The wrappers around the detectors: an error of the database is logged.
ObservationSourceNoise(count, seconds, quota) ==
  LET severity == EvaluateSourceNoise(count, seconds, quota)
  IN \/ /\ severity # None
        /\ CreateSignal(severity, <<count, seconds, quota>>, None)
        /\ reply' = "created"
     \/ reply' = "not created" /\ UNCHANGED <<signals, resolver, raced, auditVars>>

ObservationKeySuspicion(failures, ips, errors, total) ==
  LET severity == EvaluateKeySuspicion(failures, ips, errors, total)
  IN \/ /\ severity # None
        /\ CreateSignal(severity, <<>>, None)
        /\ reply' = "created"
     \/ reply' = "not created" /\ UNCHANGED <<signals, resolver, raced, auditVars>>

Exists(i) == i \in DOMAIN signals
Open(i) == Exists(i) /\ signals[i].by = None
InScope(i, tenant) == tenant = None \/ signals[i].tenant = tenant

GetSignal(i, tenant) ==
  /\ reply' = IF Exists(i) /\ InScope(i, tenant) THEN "200" ELSE "404"
  /\ UNCHANGED <<signals, resolver, raced, auditVars>>

\* list_signals, newest first: the ids of one page and the total.
ListSignals(tenant, resolved, offset, limit) ==
  LET chosen == {i \in DOMAIN signals : InScope(i, tenant) /\ (Open(i) <=> ~resolved)}
  IN [items |-> {i \in chosen : Cardinality({j \in chosen : j > i})
                                  \in offset..(offset + limit - 1)},
      total |-> Cardinality(chosen)]

\* get_summary: counts of open and resolved signals and of the open ones by
\* severity.
GetSummary(tenant) ==
  LET open == {i \in DOMAIN signals : InScope(i, tenant) /\ Open(i)}
  IN [open |-> Cardinality(open),
      resolved |-> ListSignals(tenant, TRUE, 0, MaxSignals).total,
      bySeverity |-> [s \in DOMAIN SeverityRank |->
                        Cardinality({i \in open : signals[i].severity = s})]]

ReadSignals(answer) ==
  reply' = answer /\ UNCHANGED <<signals, resolver, raced, auditVars>>

\* Mutant: resolved signals are resolved again.
ReadAsOpen_Any(i) == Exists(i)

\* resolve_signal up to its check, and from there to the commit.
ReadAsOpen(i) == Open(i)

ResolveSignalRead(r, i) ==
  /\ resolver[r] = 0
  /\ \/ /\ ReadAsOpen(i)
        /\ resolver' = [resolver EXCEPT ![r] = i]
        /\ raced' = IF \E q \in Resolvers : resolver[q] = i THEN raced \cup {i} ELSE raced
        /\ UNCHANGED reply
     \/ /\ ~ReadAsOpen(i)
        /\ reply' = "404"
        /\ UNCHANGED <<resolver, raced>>
  /\ UNCHANGED <<signals, auditVars>>

ResolveSignalCommit(r) ==
  /\ resolver[r] # 0
  /\ signals' = [signals EXCEPT ![resolver[r]].by = r]
  /\ resolver' = [resolver EXCEPT ![r] = 0]
  /\ reply' = "200"
  /\ UNCHANGED <<raced, auditVars>>

-----------------------------------------------------------------------------
(* append_security_audit_event, wrapped by emit_security_audit_event: every *)
(* error, before or at the commit, is passed over.                          *)

\* A row of the trail, or the beginning, behind which no other row comes.
Newest(last, rows) == last \in rows \cup {0} /\ \A i \in rows : i <= last

\* Mutant: the oldest row is taken for the newest.
LastHash_First(last) ==
  IF DOMAIN trail = {} THEN last = 0 ELSE last \in DOMAIN trail /\ \A i \in DOMAIN trail : last <= i

\* The row with the highest id among those committed.
LastHash(last) == Newest(last, DOMAIN trail)

AppendRead(e) ==
  /\ emitter[e].step = "idle"
  /\ \E last \in DOMAIN trail \cup {0} :
       LastHash(last) /\ emitter' = [emitter EXCEPT ![e] = [step |-> "read", last |-> last, id |-> 0]]
  /\ UNCHANGED <<signals, resolver, raced, trail, lastId, overtaken, forked, reply>>

Inserted == {e \in Emitters : emitter[e].step = "inserted"}

\* The flush gives the row its id; nobody else sees it yet.
AppendInsert(e) ==
  /\ emitter[e].step = "read" /\ lastId < MaxEvents
  /\ lastId' = lastId + 1
  /\ emitter' = [emitter EXCEPT ![e].step = "inserted", ![e].id = lastId + 1]
  /\ forked' = IF e \in overtaken \/ Inserted # {} THEN forked \cup {lastId + 1} ELSE forked
  /\ overtaken' = overtaken \ {e}
  /\ UNCHANGED <<signals, resolver, raced, trail, reply>>

AppendCommit(e) ==
  /\ emitter[e].step = "inserted"
  /\ trail' = [i \in DOMAIN trail \cup {emitter[e].id} |->
                IF i = emitter[e].id THEN emitter[e].last ELSE trail[i]]
  /\ overtaken' = overtaken \cup {f \in Emitters : emitter[f].step = "read"}
  /\ emitter' = [emitter EXCEPT ![e] = Idle]
  /\ UNCHANGED <<signals, resolver, raced, lastId, forked, reply>>

EmitFails(e) ==
  /\ emitter[e].step # "idle"
  /\ emitter' = [emitter EXCEPT ![e] = Idle]
  /\ overtaken' = overtaken \ {e}
  /\ UNCHANGED <<signals, resolver, raced, trail, lastId, forked, reply>>

-----------------------------------------------------------------------------
Init ==
  /\ signals = <<>> /\ resolver = [r \in Resolvers |-> 0] /\ raced = {}
  /\ trail = [i \in {} |-> 0] /\ lastId = 0 /\ emitter = [e \in Emitters |-> Idle]
  /\ overtaken = {} /\ forked = {}
  /\ reply = "none"

SignalStep ==
  \/ \E s \in {"low", "critical"}, tn \in Tenants \cup {None} : CreateSignalByHand(s, tn)
  \/ \E c \in {119, 120, 300, 600}, w \in {0, 60}, q \in {NoQuota, 60} :
        ObservationSourceNoise(c, w, q)
  \/ \E f \in {4, 5, 20}, n \in {4, 10}, p \in {49, 90}, t \in {0, 1} :
        ObservationKeySuspicion(f, n, p, t)
  \/ \E i \in Ids, tn \in Tenants \cup {None} : GetSignal(i, tn)
  \/ \E tn \in Tenants \cup {None}, done \in BOOLEAN, off \in 0..1 :
        ReadSignals(ListSignals(tn, done, off, 1))
  \/ \E tn \in Tenants \cup {None} : ReadSignals(GetSummary(tn))
  \/ \E r \in Resolvers, i \in Ids : ResolveSignalRead(r, i)
  \/ \E r \in Resolvers : ResolveSignalCommit(r)

AuditStep ==
  \E e \in Emitters : AppendRead(e) \/ AppendInsert(e) \/ AppendCommit(e) \/ EmitFails(e)

Next == SignalStep \/ AuditStep

Spec == Init /\ [][Next]_vars

-----------------------------------------------------------------------------
TypeOK ==
  /\ \A i \in DOMAIN signals : signals[i].by \in Resolvers \cup {None}
  /\ resolver \in [Resolvers -> 0..MaxSignals]
  /\ lastId \in 0..MaxEvents /\ DOMAIN trail \subseteq 1..lastId
  /\ emitter \in [Emitters -> [step : {"idle", "read", "inserted"}, last : 0..MaxEvents,
                               id : 0..MaxEvents]]

\* The severity of an automatic noise signal is the largest one whose multiple
\* of the budget the counted requests reach (evaluate_source_noise).
SeverityIsWorst ==
  \A i \in DOMAIN signals : signals[i].evidence # <<>> =>
    LET e == signals[i].evidence
        Reached(s) == NoiseReaches(e[1], e[2], e[3],
                                   CASE s = "medium" -> 2 [] s = "high" -> 5 [] OTHER -> 10)
        worst == {s \in {"medium", "high", "critical"} : Reached(s)}
    IN /\ signals[i].severity \in worst
       /\ \A s \in worst : SeverityRank[s] <= SeverityRank[signals[i].severity]

\* Who resolved a signal is never replaced, unless two callers had both read
\* it as open before either committed; the reads take no lock (resolve_signal).
ResolvedOnce ==
  [][\A i \in DOMAIN signals : signals[i].by # None /\ signals'[i].by # signals[i].by
        => i \in raced]_vars

\* The audit trail is one chain: in the order of their ids, which readers follow,
\* every row's predecessor is the committed row before it, unless another append
\* was committed between its read and its insert, or had inserted and not
\* committed when it inserted, which no constraint prevents; failed appends, and
\* rows committed in another order than their ids, leave no other gap
\* (append_security_audit_event).
TrailIsChain ==
  \A i \in DOMAIN trail : Newest(trail[i], {j \in DOMAIN trail : j < i}) \/ i \in forked
=============================================================================
