---------------------------- MODULE Observations ----------------------------
(***************************************************************************)
(* The observations table and the handlers of /api/v1/observations and     *)
(* /api/v2/observations that write or page through it.                     *)
(*                                                                         *)
(* A row is identified by its primary key; (source, ts) is unique over ALL *)
(* rows, archived ones included.  A timestamp is the clock reading that    *)
(* the validators leave after dropping a time zone, payload and tags are   *)
(* left out.  reply is the status of the latest answer.                    *)
(*                                                                         *)
(* Upserts and scans take several transactions and are followed from one   *)
(* to the next; every other handler is one transaction.                    *)
(***************************************************************************)
EXTENDS Naturals, FiniteSets

CONSTANTS
  Upserters,    \* clients of POST /upsert
  Tenants,      \* tenants a caller may belong to
  Sources,      \* names of registered source profiles
  Unregistered, \* a name without a profile
  Times,        \* timestamps (naturals) that a request may carry
  Now,          \* the current time: larger timestamps are in the future
  MaxId,        \* bound: primary keys the sequence hands out
  MaxWrites,    \* bound: committed changes of rows
  PageSize      \* limit of the cursor pages

NoTenant == "no tenant"
NoCursor == [ts |-> 0, id |-> 0]
Ids == 1..MaxId
Keys == Sources \X Times

\* The columns of a row that the handlers read or write.
Row == [source : Sources, ts : Times, tenant : Tenants \cup {NoTenant},
        processed : BOOLEAN, archived : BOOLEAN]

VARIABLES
  rows,     \* primary key -> row, of the rows that exist
  nextId,   \* the sequence of primary keys
  upsert,   \* what each upserting client is doing
  scan,     \* a reader that follows next_cursor to the end
  reply,    \* status of the latest answer
  events,   \* ids announced as created on the broker
  writes,   \* committed changes so far
  told,     \* history: keys whose present row some upsert was told it created
  overtaken,\* history: upserting clients whose key lost its row, by archival,
            \* deletion or a move, between their INSERT and their SELECT
  twice     \* history: a second upsert was told that it created a row

vars == <<rows, nextId, upsert, scan, reply, events, writes, told, overtaken, twice>>
history == <<told, overtaken, twice>>

Exists == DOMAIN rows
Active == {i \in Exists : ~rows[i].archived}
KeyOf(r) == <<r.source, r.ts>>
Taken(k) == \E i \in Exists : KeyOf(rows[i]) = k

\* What rendering rows as ObservationResponse does: the schema requires a
\* source, which the table's objects do not have, so only the empty set of
\* rows can be rendered from them.
Render(ids, ok) == IF ids = {} THEN ok ELSE "500"

\* Body validation: a known shape with a timestamp that is not in the future.
ValidRequest(s, t) == s \in Sources \cup {Unregistered} /\ t <= Now

\* The error that is raised without a profile of that name becomes a 500.
ResolveSourceId(s) == s # Unregistered

Insert(s, t, tenant) ==
  /\ rows' = [i \in Exists \cup {nextId} |->
                IF i = nextId
                THEN [source |-> s, ts |-> t, tenant |-> tenant,
                      processed |-> FALSE, archived |-> FALSE]
                ELSE rows[i]]
  /\ nextId' = nextId + 1
  /\ writes' = writes + 1

Overtakes(k) == overtaken' = overtaken \cup {u \in Upserters : upsert[u].step = "select"
                                                             /\ upsert[u].key = k}

\* A row leaves key k: it is deleted or moved.
Frees(k) == told' = told \ {k} /\ Overtakes(k) /\ UNCHANGED twice

MayWrite == writes < MaxWrites /\ nextId <= MaxId

\* A row that changed while the reader is on its way is no longer one that
\* the reader must see.
Disturbed(ids) == scan' = [scan EXCEPT !.stable = @ \ ids]

-----------------------------------------------------------------------------
(* create_observation_endpoint, create_observation and the v2 variants.     *)

CreateObservation(s, t, tenant) ==
  /\ MayWrite
  /\ \/ /\ ~ValidRequest(s, t)
        /\ reply' = "422"
        /\ UNCHANGED <<rows, nextId, events, writes>>
     \/ /\ ValidRequest(s, t) /\ (~ResolveSourceId(s) \/ Taken(<<s, t>>))
        /\ reply' = "500"
        /\ UNCHANGED <<rows, nextId, events, writes>>
     \/ /\ ValidRequest(s, t) /\ ResolveSourceId(s) /\ ~Taken(<<s, t>>)
        /\ Insert(s, t, tenant)
        /\ events' = events \cup {nextId}
        /\ reply' = "201"
  /\ UNCHANGED <<upsert, scan, history>>

\* Both implementations of the batch insert resolve every source first and
\* commit once: all of the batch or nothing.
InsertBatch(k1, k2, tenant) ==
  LET New(k) == [source |-> k[1], ts |-> k[2], tenant |-> tenant,
                 processed |-> FALSE, archived |-> FALSE]
  IN /\ rows' = [i \in Exists \cup {nextId, nextId + 1} |->
                   CASE i = nextId -> New(k1) [] i = nextId + 1 -> New(k2)
                     [] OTHER -> rows[i]]
     /\ nextId' = nextId + 2
     /\ writes' = writes + 1

CreateObservationsBatch(k1, k2, tenant) ==
  /\ MayWrite /\ nextId + 1 <= MaxId
  /\ LET ok == /\ \A k \in {k1, k2} : ResolveSourceId(k[1]) /\ ~Taken(k)
               /\ k1 # k2
     IN \/ ~ok /\ reply' = "500" /\ UNCHANGED <<rows, nextId, writes>>
        \/ ok /\ InsertBatch(k1, k2, tenant) /\ reply' = "201"
  /\ UNCHANGED <<upsert, scan, events, history>>

-----------------------------------------------------------------------------
(* Reads.                                                                   *)

\* A tenant sees its own rows and the shared ones, an administrator all.
VisibleTo(i, role, tenant) ==
  \/ role = "admin"
  \/ rows[i].tenant = NoTenant
  \/ tenant # NoTenant /\ rows[i].tenant = tenant

\* The first n of ids in the order of their primary keys, after skip of them.
Page(ids, skip, n) ==
  {i \in ids : Cardinality({j \in ids : j < i}) \in skip..(skip + n - 1)}

GetObservations(role, tenant, src, skip, n) ==
  Page({i \in Active : VisibleTo(i, role, tenant) /\ src \in {rows[i].source, "any"}},
       skip, n)

ListObservations(role, tenant, src, skip, n) ==
  /\ reply' = IF src = Unregistered THEN "500"
              ELSE Render(GetObservations(role, tenant, src, skip, n), "200")
  /\ UNCHANGED <<rows, nextId, upsert, scan, events, writes, history>>

\* The caches in front of a read are empty: an answer is put into them only
\* after it was rendered, which fails for every row that is found.
GetObservation(i) ==
  /\ reply' = IF i \in Active THEN Render({i}, "200") ELSE "404"
  /\ UNCHANGED <<rows, nextId, upsert, scan, events, writes, history>>

\* enrich_one for every id of the request: a missing row and a failed fetch
\* are results like any other, so that the task group never fails.
EnrichOne(i, fetchFails) == CASE i \notin Active -> "not found"
                              [] i \in Active /\ i \in fetchFails -> "failed"
                              [] OTHER -> "enriched"

EnrichObservations(ids, fetchFails) ==
  /\ reply' = IF \A i \in ids : EnrichOne(i, fetchFails) # "raised" THEN "200" ELSE "500"
  /\ UNCHANGED <<rows, nextId, upsert, scan, events, writes, history>>

\* llm is "off" without a key, else what the call to the model does; a failed
\* context search is replaced by a default text.
AnalyzeObservation(i, llm) ==
  /\ reply' = CASE i \notin Active -> "404"
                [] i \in Active /\ llm = "off" -> "501"
                [] i \in Active /\ llm = "fails" -> "502"
                [] OTHER -> "200"
  /\ UNCHANGED <<rows, nextId, upsert, scan, events, writes, history>>

\* The streaming variant has answered before the model fails.
AnalyzeObservationStream(i, llm) ==
  /\ reply' = CASE i \notin Active -> "404"
                [] i \in Active /\ llm = "off" -> "501"
                [] OTHER -> "200"
  /\ UNCHANGED <<rows, nextId, upsert, scan, events, writes, history>>

\* The rows of the tag-count queries: the newest n active ones, in both the
\* naive and the single-query form.
TagCounts(n) == {i \in Active : Cardinality({j \in Active : j > i}) < n}

DemoNPlusOne(n) ==
  /\ reply' = IF TagCounts(n) \subseteq Active THEN "200" ELSE "500"
  /\ UNCHANGED <<rows, nextId, upsert, scan, events, writes, history>>

\* verify_session: any cookie is a session, which has its id and no role.
VerifySession(cookie) == IF cookie THEN {"session_id"} ELSE {}

GetObservationSecured(i, cookie) ==
  /\ reply' = CASE VerifySession(cookie) = {} -> "401"
                [] VerifySession(cookie) # {} /\ i \notin Active -> "404"
                [] OTHER -> Render({i}, "200")
  /\ UNCHANGED <<rows, nextId, upsert, scan, events, writes, history>>

SessionRoleGuard(cookie) == IF "role" \in VerifySession(cookie) THEN "pass" ELSE "403"

\* The guard of the session-authenticated writes never lets one through.
WriteSecured(cookie) ==
  /\ reply' = IF VerifySession(cookie) = {} THEN "401" ELSE SessionRoleGuard(cookie)
  /\ UNCHANGED <<rows, nextId, upsert, scan, events, writes, history>>

-----------------------------------------------------------------------------
(* Changes of one row.  session.get also finds archived rows.               *)

NotFound(i, ids) ==
  i \notin ids /\ reply' = "404" /\ UNCHANGED <<rows, scan, writes, history>>

\* Partial updates go through the same checks of the timestamp.
ValidUpdate(t) == t <= Now

UpdateObservation(i, s, t) ==
  /\ rows' = [rows EXCEPT ![i].source = s, ![i].ts = t]
  /\ Disturbed({i})
  /\ Frees(KeyOf(rows[i]))
  /\ writes' = writes + 1

UpdateObservationEndpoint(i, s, t) ==
  /\ MayWrite
  /\ LET free == ~\E j \in Exists \ {i} : KeyOf(rows[j]) = <<s, t>>
     IN \/ ~ValidUpdate(t) /\ reply' = "422" /\ UNCHANGED <<rows, scan, writes, history>>
        \/ ValidUpdate(t) /\ NotFound(i, Exists)
        \/ /\ ValidUpdate(t) /\ i \in Exists /\ ~(ResolveSourceId(s) /\ free)
           /\ reply' = "500"
           /\ UNCHANGED <<rows, scan, writes, history>>
        \/ /\ ValidUpdate(t) /\ i \in Exists /\ ResolveSourceId(s) /\ free
           /\ <<s, t>> # KeyOf(rows[i])
           /\ UpdateObservation(i, s, t)
           /\ reply' = Render({i}, "200")
  /\ UNCHANGED <<nextId, upsert, events>>

MarkProcessed(i) ==
  /\ rows' = [rows EXCEPT ![i].processed = TRUE]
  /\ writes' = writes + 1
  /\ UNCHANGED <<scan, history>>

ProcessObservation(i) ==
  /\ MayWrite
  /\ \/ NotFound(i, Exists)
     \/ i \in Exists /\ MarkProcessed(i) /\ reply' = Render({i}, "200")
  /\ UNCHANGED <<nextId, upsert, events>>

SoftDeleteObservation(i) ==
  /\ rows' = [rows EXCEPT ![i].archived = TRUE]
  /\ Disturbed({i})
  /\ Overtakes(KeyOf(rows[i])) /\ UNCHANGED <<told, twice>>
  /\ writes' = writes + 1

ArchiveObservation(i) ==
  /\ MayWrite
  /\ \/ NotFound(i, Active)
     \/ i \in Active /\ SoftDeleteObservation(i) /\ reply' = Render({i}, "200")
  /\ UNCHANGED <<nextId, upsert, events>>

DeleteObservation(i) ==
  /\ rows' = [j \in Exists \ {i} |-> rows[j]]
  /\ Disturbed({i})
  /\ Frees(KeyOf(rows[i]))
  /\ writes' = writes + 1

DeleteObservationEndpoint(i) ==
  /\ MayWrite
  /\ \/ NotFound(i, Exists)
     \/ i \in Exists /\ DeleteObservation(i) /\ reply' = "204"
  /\ UNCHANGED <<nextId, upsert, events>>

-----------------------------------------------------------------------------
(* upsert_observation: INSERT, and on a conflict SELECT in a transaction of *)
(* its own.                                                                 *)

\* Mutant: archived rows do not take their key.
Conflicts_IfActive(k) == \E i \in Active : KeyOf(rows[i]) = k

Conflicts(k) == Taken(k)

Existing(k) == {i \in Active : KeyOf(rows[i]) = k}

\* archived, history: the row that the INSERT ran into was archived.
UpsertInsert(u, s, t) ==
  /\ MayWrite
  /\ upsert[u].step # "select"
  /\ \/ ~ResolveSourceId(s) /\ reply' = "500" /\ UNCHANGED <<rows, nextId, upsert, writes, history>>
     \/ /\ ResolveSourceId(s) /\ ~Conflicts(<<s, t>>)
        /\ Insert(s, t, NoTenant)
        /\ twice' = (twice \/ <<s, t>> \in told)
        /\ told' = told \cup {<<s, t>>}
        /\ reply' = Render({nextId}, "201")
        /\ UNCHANGED <<upsert, overtaken>>
     \/ /\ ResolveSourceId(s) /\ Conflicts(<<s, t>>)
        /\ upsert' = [upsert EXCEPT ![u] = [step |-> "select", key |-> <<s, t>>,
                                            archived |-> Existing(<<s, t>>) = {}]]
        /\ overtaken' = overtaken \ {u}
        /\ UNCHANGED <<rows, nextId, writes, reply, told, twice>>
  /\ UNCHANGED <<scan, events>>

\* The answer after a conflict; the assertion fails when no active row is left.
UpsertSelect(u, mode) ==
  /\ upsert[u].step = "select"
  /\ LET found == Existing(upsert[u].key)
     IN /\ reply' = CASE found = {} -> "assertion failed"
                      [] found # {} /\ mode = "strict" -> "409"
                      [] OTHER -> Render(found, "200")
        /\ upsert' = [upsert EXCEPT ![u].step = IF found = {} THEN "failed" ELSE "found"]
  /\ UNCHANGED <<rows, nextId, scan, events, writes, history>>

-----------------------------------------------------------------------------
(* get_observations_cursor_paginated, called until has_more is false.       *)

\* Mutant: the cursor has no tie-breaker.
After_TimeOnly(i, c) == rows[i].ts > c.ts

After(i, c) == \/ rows[i].ts > c.ts
               \/ rows[i].ts = c.ts /\ i > c.id

Earlier(i, j) == \/ rows[i].ts < rows[j].ts
                 \/ rows[i].ts = rows[j].ts /\ i < j

FirstBy(ids, n) == {i \in ids : Cardinality({j \in ids : Earlier(j, i)}) < n}

\* The position encoded in next_cursor: the last row of the page.
Cursor(ids) == LET last == CHOOSE i \in ids : \A j \in ids \ {i} : Earlier(j, i)
               IN [ts |-> rows[last].ts, id |-> last]

ScanStart ==
  /\ ~scan.on
  /\ scan' = [on |-> TRUE, cursor |-> NoCursor, stable |-> Active,
              seen |-> [i \in Ids |-> 0], done |-> FALSE]
  /\ UNCHANGED <<rows, nextId, upsert, reply, events, writes, history>>

\* One page: one row more than the limit is fetched to learn has_more.
ScanPage ==
  /\ scan.on /\ ~scan.done
  /\ LET rest == {i \in Active : After(i, scan.cursor)}
         probe == FirstBy(rest, PageSize + 1)
         page == FirstBy(probe, PageSize)
         hasMore == Cardinality(probe) > PageSize
     IN /\ scan' = [scan EXCEPT !.cursor = IF hasMore THEN Cursor(page) ELSE @,
                                !.seen = [i \in Ids |-> @[i] + IF i \in page THEN 1 ELSE 0],
                                !.done = ~hasMore]
        /\ reply' = Render(page, "200")
  /\ UNCHANGED <<rows, nextId, upsert, events, writes, history>>

ScanEnd ==
  /\ scan.done
  /\ scan' = [scan EXCEPT !.on = FALSE, !.done = FALSE]
  /\ UNCHANGED <<rows, nextId, upsert, reply, events, writes, history>>

-----------------------------------------------------------------------------
Init ==
  /\ rows = [i \in {} |-> 0]
  /\ nextId = 1
  /\ upsert = [u \in Upserters |-> [step |-> "idle", key |-> <<>>, archived |-> FALSE]]
  /\ scan = [on |-> FALSE, cursor |-> NoCursor, stable |-> {}, seen |-> [i \in Ids |-> 0],
             done |-> FALSE]
  /\ reply = "none"
  /\ events = {}
  /\ writes = 0
  /\ told = {} /\ overtaken = {} /\ twice = FALSE

Names == Sources \cup {Unregistered}

WriteStep ==
  \/ \E s \in Names, t \in Times \cup {Now + 1}, tn \in Tenants :
        CreateObservation(s, t, tn)
  \/ \E k1, k2 \in Names \X Times : CreateObservationsBatch(k1, k2, NoTenant)
  \/ \E i \in Ids : ProcessObservation(i) \/ ArchiveObservation(i) \/ DeleteObservationEndpoint(i)
  \/ \E i \in Ids, s \in Names, t \in Times \cup {Now + 1} :
        UpdateObservationEndpoint(i, s, t)

ReadStep ==
  \/ \E r \in {"admin", "user"}, tn \in Tenants \cup {NoTenant}, src \in Names \cup {"any"} :
        ListObservations(r, tn, src, 0, PageSize)
  \/ \E fails \in {{}, Ids} : EnrichObservations(Ids, fails)
  \/ \E i \in Ids, llm \in {"off", "fails", "answers"} :
        AnalyzeObservation(i, llm) \/ AnalyzeObservationStream(i, llm)
  \/ \E n \in 1..PageSize : DemoNPlusOne(n)
  \/ \E i \in Ids, cookie \in BOOLEAN : GetObservationSecured(i, cookie)
  \/ \E cookie \in BOOLEAN : WriteSecured(cookie)
  \/ \E i \in Ids : GetObservation(i)

UpsertStep ==
  \/ \E u \in Upserters, s \in Names, t \in Times : UpsertInsert(u, s, t)
  \/ \E u \in Upserters, m \in {"idempotent", "strict"} : UpsertSelect(u, m)

ScanStep == ScanStart \/ ScanPage \/ ScanEnd

Next == WriteStep \/ ReadStep \/ UpsertStep \/ ScanStep

Spec == Init /\ [][Next]_vars

-----------------------------------------------------------------------------
TypeOK ==
  /\ Exists \subseteq Ids /\ \A i \in Exists : rows[i] \in Row /\ i < nextId
  /\ scan.stable \subseteq Active
  /\ events \subseteq Ids

\* Of the concurrent upserts of one (source, timestamp) only one is told that
\* it created the row, unless the row was deleted or moved meanwhile.  An upsert ends
\* in its assertion only if its key lost its row between INSERT and SELECT, as the
\* assertion's text says, or if, against that text, the row had been archived before:
\* then it always does, unless the key loses that row in between (upsert_observation:
\* INSERT, IntegrityError, SELECT, assert).
UpsertsAgree ==
  /\ ~twice
  /\ \A u \in Upserters \ overtaken :
       /\ upsert[u].step = "failed" => upsert[u].archived
       /\ upsert[u].step = "found" => ~upsert[u].archived

\* A reader that follows next_cursor to the end gets every row that was active
\* when it began and was not touched since exactly once, whatever is inserted,
\* moved, archived or deleted between its pages, and no untouched row twice
\* on the way (get_observations_cursor_paginated, "stable under concurrent
\* inserts").
ScanIsStable ==
  \A i \in scan.stable : /\ scan.seen[i] <= 1
                         /\ scan.done => scan.seen[i] = 1
=============================================================================
