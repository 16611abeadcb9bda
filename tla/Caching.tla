------------------------------ MODULE Caching ------------------------------
(***************************************************************************)
(* cache.py: the Redis client, the in-process LRU list in front of it and  *)
(* the distributed lock, with the observation routes that call them.       *)
(* Several requests of one process use the two cache layers, several job   *)
(* instances the lock.                                                     *)
(*                                                                         *)
(* The LRU cache is the linked list of the code: nxt and prv link its      *)
(* nodes between two sentinels.  A copy of a row is "current" while it is  *)
(* what the database holds.  A committed change of the row makes its       *)
(* copies "outdated" if the route invalidates them afterwards, and         *)
(* "excused" if no invalidation is going to see them: the route makes      *)
(* none, the copy is on its way in the hands of a reader, or the deletion  *)
(* in Redis failed.  Every call of Redis may fail and is then passed over  *)
(* (fail-open).  A row is followed as if it could be rendered, and a       *)
(* deleted row like a changed one.                                         *)
(*                                                                         *)
(* The list cache is a separate set of keys in Redis.  It is warmed at     *)
(* start-up under the ids of sources and read under their names.           *)
(***************************************************************************)
EXTENDS Naturals, FiniteSets, Sequences

CONSTANTS
  Keys,      \* observation ids
  Capacity,  \* entries the LRU list holds
  Callers,   \* requests that read or change an observation
  Jobs,      \* instances that take the lock
  Lists,     \* names of sources whose pages are cached
  MaxFaults  \* bound: failing calls of Redis and overrun locks

MRU == "head"
LRU == "tail"
Nodes == Keys \cup {MRU, LRU}
NoJob == "none"
Null == "null"
Values == {"current", "outdated", "excused"}
Idle == [step |-> "idle", key |-> Null, value |-> "current"]

VARIABLES
  nxt, prv,    \* the links of the LRU list
  lru,         \* key -> value of the entries of the map
  order,       \* history: the keys of the map, most recently used first
  redis,       \* key -> value of the entries in Redis
  call,        \* what each request is doing, with which key and value
  connected,   \* there is a client
  owner,       \* instance whose SET NX created the lock key, or NoJob
  job,         \* state of each instance of the locked job
  overran,     \* history: instances still running when the lock expired
  pages,       \* key -> value of the pages of the list cache
  sweep,       \* name -> keys found by an invalidation that will delete them
  unswept,     \* history: names whose invalidation did not reach Redis
  faults

cacheVars == <<nxt, prv, lru, order, redis, call>>
lockVars == <<owner, job, overran>>
listVars == <<pages, sweep, unswept>>
vars == <<cacheVars, connected, lockVars, listVars, faults>>

Without(f, k) == [x \in DOMAIN f \ {k} |-> f[x]]
With(f, k, v) == [x \in DOMAIN f \cup {k} |-> IF x = k THEN v ELSE f[x]]

\* The sequence s, in which no value occurs twice, without k.
Drop(s, k) ==
  IF \E n \in DOMAIN s : s[n] = k
  THEN LET at == CHOOSE n \in DOMAIN s : s[n] = k
       IN [n \in 1..(Len(s) - 1) |-> IF n < at THEN s[n] ELSE s[n + 1]]
  ELSE s

\* A call of Redis that raises; the caller logs it and goes on.
RedisFails == faults < MaxFaults /\ faults' = faults + 1

-----------------------------------------------------------------------------
(* LruObservationCache: links is the pair of next and prev pointers.        *)

Links == [n |-> nxt, p |-> prv]

\* The pointers of a node outside the list are those of a new node.
Remove(l, k) ==
  [n |-> [l.n EXCEPT ![l.p[k]] = l.n[k], ![k] = Null],
   p |-> [l.p EXCEPT ![l.n[k]] = l.p[k], ![k] = Null]]

\* Mutant: the old first entry keeps its backward link.
Prepend_OneWay(l, k) ==
  [n |-> [l.n EXCEPT ![k] = l.n[MRU], ![MRU] = k], p |-> [l.p EXCEPT ![k] = MRU]]

Prepend(l, k) ==
  [n |-> [l.n EXCEPT ![k] = l.n[MRU], ![MRU] = k],
   p |-> [l.p EXCEPT ![k] = MRU, ![l.n[MRU]] = k]]

SetLinks(l) == nxt' = l.n /\ prv' = l.p

\* get: a hit moves the node to the front.
Touch(k) == /\ SetLinks(Prepend(Remove(Links, k), k))
            /\ order' = <<k>> \o Drop(order, k)
            /\ UNCHANGED lru

\* put: an existing entry is replaced and moved, a new one may evict the last.
Put(k, v) ==
  \/ /\ k \in DOMAIN lru
     /\ lru' = [lru EXCEPT ![k] = v]
     /\ SetLinks(Prepend(Remove(Links, k), k))
     /\ order' = <<k>> \o Drop(order, k)
  \/ /\ k \notin DOMAIN lru
     /\ LET l == Prepend(Links, k)
            full == Cardinality(DOMAIN lru) + 1 > Capacity
            last == l.p[LRU]
        IN /\ SetLinks(IF full THEN Remove(l, last) ELSE l)
           /\ lru' = IF full THEN Without(With(lru, k, v), last) ELSE With(lru, k, v)
           /\ order' = IF full THEN <<k>> \o Drop(order, order[Len(order)]) ELSE <<k>> \o order

Evict(k) == /\ SetLinks(IF k \in DOMAIN lru THEN Remove(Links, k) ELSE Links)
            /\ lru' = Without(lru, k)
            /\ order' = Drop(order, k)

-----------------------------------------------------------------------------
(* The module's functions.                                                  *)

ConnectCache == /\ ~connected /\ connected' = TRUE
                /\ UNCHANGED <<cacheVars, lockVars, listVars, faults>>

\* The shutdown comes after the last request.
DisconnectCache == /\ connected /\ \A c \in Callers : call[c].step = "idle"
                   /\ \A j \in Jobs : job[j] = "idle"
                   /\ DOMAIN sweep = {}
                   /\ connected' = FALSE
                   /\ UNCHANGED <<cacheVars, lockVars, listVars, faults>>

\* Request c goes on with another step.
Becomes(c, step, k, v) == call' = [call EXCEPT ![c] = [step |-> step, key |-> k, value |-> v]]
Ends(c) == call' = [call EXCEPT ![c] = Idle]

\* setex and set(ex=): the entry expires.
EntryExpires(k) ==
  /\ k \in DOMAIN redis
  /\ redis' = Without(redis, k)
  /\ UNCHANGED <<nxt, prv, lru, order, call, connected, lockVars, listVars, faults>>

\* get_observation_with_lru: a hit is the answer, a miss asks Redis.
GetObservationWithLru(c, k) ==
  /\ call[c].step = "idle"
  /\ \/ k \in DOMAIN lru /\ Touch(k) /\ UNCHANGED call
     \/ /\ k \notin DOMAIN lru
        /\ Becomes(c, IF connected THEN "asked" ELSE "missed", k, "current")
        /\ UNCHANGED <<nxt, prv, lru, order>>
  /\ UNCHANGED <<redis, connected, lockVars, listVars, faults>>

\* The answer of Redis; what it gives away is no longer its to delete.
GetObservation(c) ==
  /\ call[c].step = "asked"
  /\ LET k == call[c].key
     IN \/ /\ k \in DOMAIN redis
           /\ Becomes(c, "found", k, IF redis[k] = "outdated" THEN "excused" ELSE redis[k])
           /\ UNCHANGED faults
        \/ k \notin DOMAIN redis /\ Becomes(c, "missed", k, "current") /\ UNCHANGED faults
        \/ RedisFails /\ Becomes(c, "missed", k, "current")
  /\ UNCHANGED <<nxt, prv, lru, order, redis, connected, lockVars, listVars>>

BackFill(c) ==
  /\ call[c].step = "found"
  /\ Put(call[c].key, call[c].value)
  /\ Ends(c)
  /\ UNCHANGED <<redis, connected, lockVars, listVars, faults>>

\* The route reads the row from the database, unless it is not there.
ReadRow(c) ==
  /\ call[c].step = "missed"
  /\ Ends(c) \/ Becomes(c, "read", call[c].key, "current")
  /\ UNCHANGED <<nxt, prv, lru, order, redis, connected, lockVars, listVars, faults>>

\* set_observation with what was read, whatever has happened to the row since.
SetObservation(c) ==
  /\ call[c].step = "read"
  /\ Ends(c)
  /\ \/ connected /\ redis' = With(redis, call[c].key, call[c].value) /\ UNCHANGED faults
     \/ connected /\ RedisFails /\ UNCHANGED redis
     \/ ~connected /\ UNCHANGED <<redis, faults>>
  /\ UNCHANGED <<nxt, prv, lru, order, connected, lockVars, listVars>>

\* The copies in a layer, and those of the readers, after a change of row k.
Outdate(f, k) == [f EXCEPT ![k] = "outdated"]
Abandon(f, k) == [f EXCEPT ![k] = IF @ = "current" THEN "excused" ELSE @]
Overlapped(k) == [c \in Callers |-> IF call[c].key = k /\ call[c].step \in {"found", "read"}
                                    THEN [call[c] EXCEPT !.value = "excused"] ELSE call[c]]

\* The processing and deleting routes have committed; the invalidation follows.
ChangeObservation(c, k) ==
  /\ call[c].step = "idle"
  /\ lru' = IF k \in DOMAIN lru THEN Outdate(lru, k) ELSE lru
  /\ redis' = IF k \in DOMAIN redis THEN Outdate(redis, k) ELSE redis
  /\ call' = [Overlapped(k) EXCEPT ![c] = [step |-> "changed", key |-> k, value |-> "current"]]
  /\ UNCHANGED <<nxt, prv, order, connected, lockVars, listVars, faults>>

\* The updating and archiving routes have committed and invalidate nothing.
ChangeUnannounced(k) ==
  /\ lru' = IF k \in DOMAIN lru THEN Abandon(lru, k) ELSE lru
  /\ redis' = IF k \in DOMAIN redis THEN Abandon(redis, k) ELSE redis
  /\ call' = Overlapped(k)
  /\ UNCHANGED <<nxt, prv, order, connected, lockVars, listVars, faults>>

\* Mutant: only Redis is invalidated.
InvalidateLru_Skip(k) == SetLinks(Links) /\ UNCHANGED <<lru, order>>

\* invalidate_observation_all_layers after the row was changed: first the
\* list, then, after an await, Redis.
InvalidateLru(k) == Evict(k)

NotDeleted(k) == redis' = IF k \in DOMAIN redis THEN [redis EXCEPT ![k] = "excused"] ELSE redis

InvalidateObservationAllLayers(c) ==
  /\ call[c].step = "changed"
  /\ InvalidateLru(call[c].key)
  /\ \/ connected /\ call' = [call EXCEPT ![c].step = "dropping"] /\ UNCHANGED redis
     \/ ~connected /\ Ends(c) /\ NotDeleted(call[c].key)
  /\ UNCHANGED <<connected, lockVars, listVars, faults>>

InvalidateObservation(c) ==
  /\ call[c].step = "dropping"
  /\ Ends(c)
  /\ \/ redis' = Without(redis, call[c].key) /\ UNCHANGED faults
     \/ RedisFails /\ NotDeleted(call[c].key)
  /\ UNCHANGED <<nxt, prv, lru, order, connected, lockVars, listVars>>

Clear ==
  /\ nxt' = [x \in Nodes |-> IF x = MRU THEN LRU ELSE Null]
  /\ prv' = [x \in Nodes |-> IF x = LRU THEN MRU ELSE Null]
  /\ lru' = [k \in {} |-> "current"] /\ order' = <<>>
  /\ UNCHANGED <<redis, call, connected, lockVars, listVars, faults>>

-----------------------------------------------------------------------------
(* redis_lock, as ingest_scheduled_batch_example uses it.                   *)

\* Mutant: SET without NX.
Acquires_Always(j) == TRUE

Acquires(j) == owner = NoJob

Lock(j) ==
  /\ job[j] = "idle"
  /\ \/ ~connected /\ job' = [job EXCEPT ![j] = "free"] /\ UNCHANGED owner
     \/ connected /\ Acquires(j) /\ owner' = j /\ job' = [job EXCEPT ![j] = "inside"]
     \/ connected /\ ~Acquires(j) /\ UNCHANGED <<job, owner>>
  /\ UNCHANGED <<cacheVars, connected, overran, listVars, faults>>

\* The expiry removes the key whether or not its job is done.
LockExpires ==
  /\ owner # NoJob
  /\ faults < MaxFaults /\ faults' = faults + 1
  /\ owner' = NoJob
  /\ overran' = overran \cup {j \in Jobs : job[j] = "inside" /\ j = owner}
  /\ UNCHANGED <<cacheVars, connected, job, listVars>>

\* The finally clause deletes the key without looking whose it is; an error
\* of the deletion leaves the key to its expiry.
Unlock(j) ==
  /\ job[j] \in {"inside", "free"}
  /\ job' = [job EXCEPT ![j] = "idle"]
  /\ \/ job[j] = "inside" /\ owner' = NoJob /\ UNCHANGED faults
     \/ job[j] = "inside" /\ RedisFails /\ UNCHANGED owner
     \/ job[j] = "free" /\ UNCHANGED <<owner, faults>>
  /\ UNCHANGED <<cacheVars, connected, overran, listVars>>

\* The job runs while it is inside or free; without the lock it is skipped.
IngestScheduledBatchExample(j) == Lock(j) \/ Unlock(j)

-----------------------------------------------------------------------------
(* The list cache.                                                          *)

\* Pages as skip and limit; the last one lies beyond CACHE_LIST_MAX_SKIP.
Pages == {"first", "second", "deep"}
ShouldSkipListCache(page) == page = "deep"
ListCacheKey(source, page) == <<source, page>>

SetPage(key) ==
  \/ pages' = With(pages, key, TRUE) /\ UNCHANGED faults
  \/ RedisFails /\ UNCHANGED pages

SetObservationsList(l, page) ==
  /\ connected /\ ~ShouldSkipListCache(page)
  /\ SetPage(ListCacheKey(l, page))
  /\ UNCHANGED <<cacheVars, connected, lockVars, sweep, unswept>>

GetObservationsList(l, page) ==
  IF connected /\ ~ShouldSkipListCache(page) /\ ListCacheKey(l, page) \in DOMAIN pages
  THEN {pages[ListCacheKey(l, page)]} ELSE {}

\* The start-up fills the first page of the busiest sources under the id.
IdOf(l) == <<"id", l>>

WarmListCache(l) ==
  /\ connected
  /\ SetPage(ListCacheKey(IdOf(l), "first"))
  /\ UNCHANGED <<cacheVars, connected, lockVars, sweep, unswept>>

PageExpires(key) ==
  /\ key \in DOMAIN pages
  /\ pages' = Without(pages, key)
  /\ UNCHANGED <<cacheVars, connected, lockVars, sweep, unswept, faults>>

\* Mutant: the scan stops at its first batch.
Matching_First(l) == {key \in DOMAIN pages : key = ListCacheKey(l, "first")}

\* The keys of the pattern with this source.
Matching(l) == {key \in DOMAIN pages : key[1] = l}

\* The rows of a source have changed: SCAN collects the keys, DEL follows.
InvalidateListScan(l) ==
  /\ l \notin DOMAIN sweep
  /\ pages' = [key \in DOMAIN pages |-> pages[key] /\ key[1] \notin {l, IdOf(l)}]
  /\ \/ connected /\ sweep' = With(sweep, l, Matching(l)) /\ UNCHANGED <<unswept, faults>>
     \/ connected /\ RedisFails /\ unswept' = unswept \cup {l} /\ UNCHANGED sweep
     \/ ~connected /\ unswept' = unswept \cup {l} /\ UNCHANGED <<sweep, faults>>
  /\ UNCHANGED <<cacheVars, connected, lockVars>>

InvalidateListDelete(l) ==
  /\ l \in DOMAIN sweep
  /\ \/ /\ pages' = [key \in DOMAIN pages \ sweep[l] |-> pages[key]]
        /\ unswept' = unswept \ {l}
        /\ UNCHANGED faults
     \/ RedisFails /\ unswept' = unswept \cup {l} /\ UNCHANGED pages
  /\ sweep' = Without(sweep, l)
  /\ UNCHANGED <<cacheVars, connected, lockVars>>

-----------------------------------------------------------------------------
Init ==
  /\ nxt = [x \in Nodes |-> IF x = MRU THEN LRU ELSE Null]
  /\ prv = [x \in Nodes |-> IF x = LRU THEN MRU ELSE Null]
  /\ lru = [k \in {} |-> "current"] /\ order = <<>>
  /\ redis = [k \in {} |-> "current"]
  /\ call = [c \in Callers |-> Idle]
  /\ connected \in BOOLEAN
  /\ owner = NoJob /\ job = [j \in Jobs |-> "idle"] /\ overran = {}
  /\ pages = [k \in {} |-> TRUE] /\ sweep = [l \in {} |-> {}] /\ unswept = {}
  /\ faults = 0

CacheStep ==
  \/ ConnectCache \/ DisconnectCache \/ Clear
  \/ \E k \in Keys : EntryExpires(k) \/ ChangeUnannounced(k)
  \/ \E c \in Callers, k \in Keys : GetObservationWithLru(c, k) \/ ChangeObservation(c, k)
  \/ \E c \in Callers : \/ GetObservation(c) \/ BackFill(c) \/ ReadRow(c) \/ SetObservation(c)
                        \/ InvalidateObservationAllLayers(c) \/ InvalidateObservation(c)

LockStep == LockExpires \/ \E j \in Jobs : IngestScheduledBatchExample(j)

ListStep ==
  \/ \E l \in Lists, page \in Pages : SetObservationsList(l, page)
  \/ \E l \in Lists : \/ WarmListCache(l) \/ InvalidateListScan(l) \/ InvalidateListDelete(l)
  \/ \E key \in DOMAIN pages : PageExpires(key)

Next == CacheStep \/ LockStep \/ ListStep

Spec == Init /\ [][Next]_vars

-----------------------------------------------------------------------------
TypeOK ==
  /\ DOMAIN lru \subseteq Keys /\ DOMAIN redis \subseteq Keys
  /\ call \in [Callers -> [step : {"idle", "asked", "found", "missed", "read", "changed", "dropping"},
                          key : Keys \cup {Null}, value : Values]]
  /\ owner \in Jobs \cup {NoJob}
  /\ job \in [Jobs -> {"idle", "inside", "free"}]
  /\ faults <= MaxFaults

\* The linked list, followed in either direction, holds exactly the entries of
\* the map in the order of their last use, so that what put evicts is the
\* least recently used entry and never more than Capacity entries are kept
\* (LruObservationCache._remove, _prepend, get, put, invalidate).
ListIsRecency ==
  LET seq == <<MRU>> \o order \o <<LRU>>
  IN /\ DOMAIN lru = {order[n] : n \in DOMAIN order}
     /\ Len(order) = Cardinality(DOMAIN lru) /\ Len(order) <= Capacity
     /\ \A n \in 1..(Len(seq) - 1) : nxt[seq[n]] = seq[n + 1] /\ prv[seq[n + 1]] = seq[n]

\* Once the invalidations of a key are complete, no layer holds a copy from before
\* the changes they followed, unless a read of the key that was under way put it back
\* or the deletion in Redis failed and was passed over (get_observation,
\* invalidate_observation_all_layers); a change by a route that invalidates nothing
\* stays in the layers until then.
StaleNeedsOverlap ==
  \A k \in Keys :
    (\A c \in Callers : call[c].key = k => call[c].step \notin {"changed", "dropping"})
      => /\ k \in DOMAIN lru => lru[k] # "outdated"
         /\ k \in DOMAIN redis => redis[k] # "outdated"

\* Two instances run under the lock at the same time only if one of them was
\* still running when its lock expired, although whoever leaves deletes the
\* key of whoever holds it (redis_lock).
LockExclusive ==
  Cardinality({j \in Jobs : job[j] = "inside"}) > 1 => overran # {}

\* Once an invalidation of a source's list pages is complete, no reader by
\* name is given an outdated page, unless a call of Redis failed and was passed
\* over; the pages warmed under the id are never found by name
\* (invalidate_observations_list_by_source, _warm_list_cache).
PagesAreFresh ==
  \A l \in Lists \ (DOMAIN sweep \cup unswept), page \in Pages :
    FALSE \notin GetObservationsList(l, page)

CachesAgree == ListIsRecency /\ StaleNeedsOverlap /\ PagesAreFresh
=============================================================================
