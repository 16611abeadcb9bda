----------------------------- MODULE MCSources -----------------------------
(***************************************************************************)
(* What happens to sources: their incidents, the process that probes them, *)
(* their observations, the retention of these and the caches.  The parts   *)
(* share no state that the models keep, so that a behaviour follows the    *)
(* one that the variable part names and leaves the others at their initial *)
(* state.                                                                  *)
(***************************************************************************)
EXTENDS Incidents, TLC

\* The sets of two interchangeable values (sessions, names of sources, clients)
\* are the same set in all parts, which keeps the symmetry group small.

CONSTANTS
  MaxOps, MaxLives,     \* bounds: operations on the registry and lives of the process
  Tenants,              \* tenants of the observations
  Unregistered,         \* a name without a source
  Stamps, Clock,        \* timestamps of the observations and the time now
  MaxObservations, MaxWrites, \* bounds: primary keys and changes of observations
  PageSize,             \* limit of the cursor pages
  CacheKeys, Capacity,  \* keys of the cached observations and size of the LRU list
  Jobs,                 \* instances that take the distributed lock
  CacheFaults,          \* bound: failing calls of Redis and overrun locks
  MaxKept, MaxVersion,  \* bounds: observations under retention and their changes
  BatchSize             \* settings.retention_batch_size

ASSUME ObservationsAssumption ==
  /\ Unregistered \notin Sessions
  /\ Stamps \subseteq Nat /\ Clock \in Nat
  /\ MaxObservations \in Nat /\ PageSize \in Nat \ {0}

\* The sentinels of the list and the absent owner of the lock are no keys and no
\* jobs, and a source's name is not what another one is warmed under.
ASSUME CachesAssumption ==
  /\ "head" \notin CacheKeys /\ "tail" \notin CacheKeys
  /\ Capacity \in Nat \ {0} /\ CacheFaults \in Nat
  /\ "none" \notin Jobs
  /\ \A l, m \in Sessions : l # <<"id", m>>

ASSUME RetentionAssumption == MaxKept \in Nat /\ BatchSize \in Nat

VARIABLE part

VARIABLES
  svProfile, svPhase, svStage, svEnabled, svUp, svJobs, svEngine, svRegistering, svAsked,
  svRunning, svLastError, svReply, svOps, svLives, svStuck, svStopped, svUnnoticed,
  svAbandoned

SV == INSTANCE Service WITH
  Sources <- Sessions, MaxOps <- MaxOps, MaxLives <- MaxLives, profile <- svProfile,
  phase <- svPhase, stage <- svStage, enabled <- svEnabled, up <- svUp, jobs <- svJobs,
  engine <- svEngine, registering <- svRegistering, asked <- svAsked, running <- svRunning,
  lastError <- svLastError, reply <- svReply, ops <- svOps, lives <- svLives,
  stuck <- svStuck, stopped <- svStopped, unnoticed <- svUnnoticed,
  abandoned <- svAbandoned

VARIABLES
  obRows, obNextId, obUpsert, obScan, obReply, obEvents, obWrites, obTold, obOvertaken,
  obTwice

OB == INSTANCE Observations WITH
  Upserters <- Sessions, Tenants <- Tenants, Sources <- Sessions,
  Unregistered <- Unregistered, Times <- Stamps, Now <- Clock, MaxId <- MaxObservations,
  MaxWrites <- MaxWrites, PageSize <- PageSize, rows <- obRows, nextId <- obNextId, upsert <- obUpsert, scan <- obScan,
  reply <- obReply, events <- obEvents, writes <- obWrites, told <- obTold,
  overtaken <- obOvertaken, twice <- obTwice

VARIABLES
  caNxt, caPrv, caLru, caOrder, caRedis, caCall, caConnected, caOwner, caJob, caOverran,
  caPages, caSweep, caUnswept, caFaults

CA == INSTANCE Caching WITH
  Keys <- CacheKeys, Capacity <- Capacity, Callers <- Sessions, Jobs <- Jobs,
  Lists <- Sessions, MaxFaults <- CacheFaults, nxt <- caNxt, prv <- caPrv, lru <- caLru,
  order <- caOrder, redis <- caRedis, call <- caCall, connected <- caConnected,
  owner <- caOwner, job <- caJob, overran <- caOverran, pages <- caPages,
  sweep <- caSweep, unswept <- caUnswept, faults <- caFaults

VARIABLES
  reHot, reArchive, reRun, reRedis, reLock, reCreated, reRemoved, reLast, reStale

RE == INSTANCE Retention WITH
  Runs <- Sessions, MaxId <- MaxKept, MaxVersion <- MaxVersion, BatchSize <- BatchSize, hot <- reHot,
  archive <- reArchive, run <- reRun, redis <- reRedis, lock <- reLock,
  created <- reCreated, removed <- reRemoved, last <- reLast, stale <- reStale

-----------------------------------------------------------------------------
serviceVars ==
  <<svProfile, svPhase, svStage, svEnabled, svUp, svJobs, svEngine, svRegistering, svAsked,
    svRunning, svLastError, svReply, svOps, svLives, svStuck, svStopped, svUnnoticed,
    svAbandoned>>
observationVars ==
  <<obRows, obNextId, obUpsert, obScan, obReply, obEvents, obWrites, obTold, obOvertaken,
    obTwice>>
cachingVars ==
  <<caNxt, caPrv, caLru, caOrder, caRedis, caCall, caConnected, caOwner, caJob, caOverran,
    caPages, caSweep, caUnswept, caFaults>>
retentionVars ==
  <<reHot, reArchive, reRun, reRedis, reLock, reCreated, reRemoved, reLast, reStale>>
allVars == <<part, vars, serviceVars, observationVars, cachingVars, retentionVars>>

Parts == {"incident", "lifespan", "registry", "upsert", "scan", "read", "recency", "cache",
          "lock", "list", "retention"}

\* The settings of the parts that are not followed do not vary; the registry is
\* followed without the optional parts of the process.
MCInit ==
  /\ part \in Parts
  /\ Init /\ SV!Init /\ OB!Init /\ CA!Init /\ RE!Init
  /\ part # "incident" => mode = "broker"
  /\ part \notin {"lifespan", "registry"} => svProfile = [s \in Sessions |-> "none"]
  /\ part # "lifespan" => svEnabled = {}
  /\ part \notin {"recency", "cache", "lock", "list"} => caConnected
  /\ part # "retention" => reRedis

\* Upserts, the reader of pages and the other readers are followed one at a time,
\* each with the writes; the cache with one request at a time for all keys, and with
\* all requests for the keys that are sessions.
MCNext ==
  /\ UNCHANGED part
  /\ \/ /\ part = "incident" /\ Next
        /\ UNCHANGED <<serviceVars, observationVars, cachingVars, retentionVars>>
     \/ /\ part = "lifespan" /\ SV!LifespanStep
        /\ UNCHANGED <<vars, observationVars, cachingVars, retentionVars>>
     \/ /\ part = "registry" /\ SV!Next
        /\ UNCHANGED <<vars, observationVars, cachingVars, retentionVars>>
     \/ /\ part = "upsert" /\ (OB!WriteStep \/ OB!UpsertStep) /\ obWrites' <= 3
        /\ UNCHANGED <<vars, serviceVars, cachingVars, retentionVars>>
     \/ /\ part = "scan" /\ (OB!WriteStep \/ OB!ScanStep)
        /\ UNCHANGED <<vars, serviceVars, cachingVars, retentionVars>>
     \/ /\ part = "read" /\ (OB!WriteStep \/ OB!ReadStep) /\ obWrites' <= 2
        /\ UNCHANGED <<vars, serviceVars, cachingVars, retentionVars>>
     \/ /\ part = "recency" /\ CA!CacheStep
        /\ Cardinality({c \in Sessions : caCall'[c].step # "idle"}) <= 1
        /\ UNCHANGED <<vars, serviceVars, observationVars, retentionVars>>
     \/ /\ part = "cache" /\ CA!CacheStep
        /\ \A c \in Sessions : caCall'[c].key \in Sessions \cup {CA!Null}
        /\ UNCHANGED <<vars, serviceVars, observationVars, retentionVars>>
     \/ /\ part = "lock" /\ (CA!LockStep \/ CA!ConnectCache \/ CA!DisconnectCache)
        /\ UNCHANGED <<vars, serviceVars, observationVars, retentionVars>>
     \/ /\ part = "list" /\ (CA!ListStep \/ CA!ConnectCache \/ CA!DisconnectCache)
        /\ UNCHANGED <<vars, serviceVars, observationVars, retentionVars>>
     \/ /\ part = "retention" /\ RE!Next
        /\ UNCHANGED <<vars, serviceVars, observationVars, cachingVars>>

MCSpec == MCInit /\ [][MCNext]_allVars

\* What varies in a part; no step and no property depends on the latest answer.
MCView ==
  CASE part = "incident" -> <<part, vars>>
    [] part \in {"lifespan", "registry"} ->
         <<part, svProfile, svPhase, svStage, svEnabled, svUp, svJobs, svEngine,
           svRegistering, svAsked, svRunning, svOps, svLives, svStuck, svStopped,
           svUnnoticed, svAbandoned>>
    [] part \in {"upsert", "scan", "read"} ->
         <<part, obRows, obNextId, obUpsert, obScan, obWrites, obTold, obOvertaken,
           obTwice>>
    [] part = "retention" -> <<part, retentionVars>>
    [] OTHER -> <<part, cachingVars>>

MCSymmetry == Permutations(Sessions)

-----------------------------------------------------------------------------
\* The state of the part that is followed is well formed, and only an active
\* incident holds its deduplication key (dependency_incidents.active_key).
WellFormed ==
  CASE part = "incident" -> TypeOK /\ KeyImpliesActive
    [] part \in {"lifespan", "registry"} -> SV!TypeOK
    [] part \in {"upsert", "scan", "read"} -> OB!TypeOK
    [] part = "retention" -> RE!TypeOK
    [] OTHER -> CA!TypeOK

\* The jobs that fire are those of the active sources that a pass has seen and nobody
\* stopped, and of sources that PATCH or DELETE took out of service since the process
\* started; shutdown takes nothing away from what still runs (main.py lifespan,
\* api/routes/source_registry.py).
JobsFollowSources == part \in {"lifespan", "registry"} => SV!JobsFollowSources

\* Under concurrent writers one of the upserts of a key creates its row and the others
\* fail only over a row that is archived or lost meanwhile, and retention leaves every
\* observation in one place (repositories/observations_crud.py upsert_observation,
\* labs/retention/retention.py archive_old_observations).
ObservationsKept ==
  /\ part = "upsert" => OB!UpsertsAgree
  /\ part = "retention" => RE!RowsHaveOneHome

\* Paging by cursor gives every untouched row exactly once under concurrent
\* writes (repositories/observations_queries.py).
ScanIsStable == part = "scan" => OB!ScanIsStable

\* The LRU list is the order of use, no copy from before an announced change outlives
\* its invalidation without an overlapping read or a failed deletion, pages are fresh by
\* name, and the lock excludes until it expires (cache.py, api/routes/observations.py).
CachesAgree ==
  /\ part \in {"recency", "cache", "list"} => CA!CachesAgree
  /\ part = "lock" => CA!LockExclusive
=============================================================================
