------------------------------ MODULE Service ------------------------------
(***************************************************************************)
(* The lifespan of the ingestor process, the scheduler it runs and the     *)
(* source registry whose active sources the scheduler probes.              *)
(*                                                                         *)
(* A source is identified by its unique name.  Its probe job and its       *)
(* contract-snapshot job are registered, paused and resumed together by    *)
(* code that does not await in between; they are one entry of jobs and of  *)
(* engine here and two executions in running.  Profiles are in the         *)
(* database, everything else is lost with the process.                     *)
(***************************************************************************)
EXTENDS Naturals, Sequences, FiniteSets

CONSTANTS
  Sources,   \* names of source profiles
  MaxOps,    \* bound: changes of the registry and of the scheduler by hand
  MaxLives   \* bound: starts of the process

Kinds == {"probe", "snapshot"}
Optional == {"cache", "pubsub", "broker", "publisher", "workers", "agent"}

\* The order in which lifespan brings things up, and takes them down.
StartOrder == <<"sink", "cache", "pubsub", "broker", "publisher", "jobs", "workers",
                "agent", "scheduler">>

\* Mutant: the database is closed first.
StopOrder_DatabaseFirst == <<"db", "scheduler", "publisher", "workers", "agent", "sink",
                             "broker", "cache", "pubsub", "http">>

StopOrder == <<"scheduler", "publisher", "workers", "agent", "sink", "broker", "cache",
               "pubsub", "http", "db">>

\* What uses what while it runs.
Uses == {<<"publisher", "broker">>, <<"publisher", "db">>, <<"workers", "db">>,
         <<"scheduler", "db">>, <<"scheduler", "http">>, <<"scheduler", "cache">>}

VARIABLES
  profile,     \* source -> "none", "active", "inactive" or "deleted"
  phase,       \* "starting", "serving", "stopping", "down" or "refused"
  stage,       \* position in StartOrder or StopOrder
  enabled,     \* the optional parts that the settings enable
  up,          \* what is running
  jobs,        \* JobScheduler._jobs
  engine,      \* source -> "absent", "live" or "paused" in APScheduler
  registering, \* register_source handlers that have yet to ask for the active sources
  asked,       \* pairs <<source, answer>> of handlers that have yet to register jobs
  running,     \* executions <<kind, source>> of jobs
  lastError,   \* jobs whose latest execution failed
  reply,       \* status of the latest answer
  ops, lives,
  stuck,       \* history: parts whose shutdown raised
  stopped,     \* history: sources whose jobs were stopped by hand
  unnoticed,   \* history: active sources that no registration pass has seen
  abandoned    \* history: sources that ceased to be active in this life of the process

memory == <<jobs, engine, registering, asked, running, lastError, stuck, stopped, unnoticed,
            abandoned>>
vars == <<profile, phase, stage, enabled, up, memory, reply, ops, lives>>

Active == {s \in Sources : profile[s] = "active"}
Known(s) == profile[s] \in {"active", "inactive"}
MayChange == ops < MaxOps /\ ops' = ops + 1
Serving == phase = "serving"

\* source_registry._scheduler is set once the scheduler could be started.
HasScheduler == "scheduler" \in up

-----------------------------------------------------------------------------
(* JobScheduler.                                                            *)

\* _activate_job: add_job with replace_existing puts a running job in place
\* of whatever has the name.
Activate(eng, ss) == [s \in Sources |-> IF s \in ss THEN "live" ELSE eng[s]]

\* Mutant: paused jobs are registered again.
NewJobs_All(sources) == sources

\* register_source_probe_jobs: the sources that have no job yet.
NewJobs(sources) == sources \ jobs

\* start: what was registered before is activated.
StartScheduler == engine' = Activate(engine, jobs)

RegisterSourceProbeJobs(sources) ==
  /\ jobs' = jobs \cup NewJobs(sources)
  /\ engine' = Activate(engine, NewJobs(sources))
  /\ unnoticed' = unnoticed \ sources

PauseJob(s) == engine' = [engine EXCEPT ![s] = IF @ = "absent" THEN @ ELSE "paused"]

ResumeJob(s) == engine' = IF s \in jobs THEN [engine EXCEPT ![s] = "live"] ELSE engine

\* stop: AsyncIOExecutor cancels what is running.
StopScheduler == running' = {} /\ engine' = [s \in Sources |-> "absent"]

-----------------------------------------------------------------------------
(* lifespan.                                                                *)

\* _validate_production_security_settings ends the start with an error.
Refuse ==
  /\ phase = "starting" /\ stage = 1
  /\ phase' = "refused"
  /\ UNCHANGED <<profile, stage, enabled, up, memory, reply, ops, lives>>

\* One part of the start; a part that fails is logged and left out, the job
\* registration then leaves all sources without jobs.
StartPart ==
  /\ phase = "starting"
  /\ LET part == StartOrder[stage]
         wanted == part \notin Optional \/ part \in enabled
     IN /\ \/ /\ wanted
              /\ up' = up \cup {part}
              /\ CASE part = "jobs" -> /\ jobs' = Active
                                       /\ UNCHANGED <<engine, registering, asked, running,
                                                      lastError, stuck, stopped, unnoticed,
                                                      abandoned>>
                   [] part = "scheduler" ->
                        /\ StartScheduler
                        /\ UNCHANGED <<jobs, registering, asked, running, lastError, stuck,
                                       stopped, unnoticed, abandoned>>
                   [] OTHER -> UNCHANGED memory
           \/ /\ ~wanted \/ part \notin {"sink", "publisher"}
              /\ unnoticed' = IF part = "jobs" THEN Active ELSE unnoticed
              /\ UNCHANGED <<up, jobs, engine, registering, asked, running, lastError, stuck,
                             stopped, abandoned>>
        /\ phase' = IF stage = Len(StartOrder) THEN "serving" ELSE phase
        /\ stage' = IF stage = Len(StartOrder) THEN 1 ELSE stage + 1
  /\ UNCHANGED <<profile, enabled, reply, ops, lives>>

BeginShutdown ==
  /\ Serving /\ registering = {} /\ asked = {}
  /\ phase' = "stopping" /\ stage' = 1
  /\ UNCHANGED <<profile, enabled, up, memory, reply, ops, lives>>

\* Every part is tried whether or not an earlier one raised.
StopPart ==
  /\ phase = "stopping"
  /\ LET part == StopOrder[stage]
     IN /\ \/ /\ up' = up \ {part}
              /\ IF part = "scheduler" THEN StopScheduler ELSE UNCHANGED <<running, engine>>
              /\ UNCHANGED stuck
           \/ /\ part \in {"scheduler", "workers", "agent", "broker", "cache", "pubsub"} \cap up
              /\ stuck' = stuck \cup {part}
              /\ UNCHANGED <<up, running, engine>>
        /\ phase' = IF stage = Len(StopOrder) THEN "down" ELSE phase
        /\ stage' = IF stage = Len(StopOrder) THEN stage ELSE stage + 1
  /\ UNCHANGED <<profile, enabled, jobs, registering, asked, lastError, stopped, unnoticed,
                 abandoned, reply, ops, lives>>

\* A new process, after the end of the old one or its crash.
Restart ==
  /\ lives < MaxLives /\ lives' = lives + 1
  /\ phase # "starting"
  /\ phase' = "starting" /\ stage' = 1 /\ up' = {"db", "http"}
  /\ jobs' = {} /\ engine' = [s \in Sources |-> "absent"] /\ registering' = {} /\ asked' = {}
  /\ running' = {} /\ lastError' = {} /\ stuck' = {} /\ stopped' = {} /\ unnoticed' = {}
  /\ abandoned' = {}
  /\ UNCHANGED <<profile, enabled, reply, ops>>

\* readyz: a missing client is reported and does not count as a failure.
ReadyzAnswer(dbAnswers, cacheAnswers) ==
  IF dbAnswers /\ (~("cache" \in enabled) \/ "cache" \notin up \/ cacheAnswers)
  THEN "200" ELSE "503"

Readyz(dbAnswers, cacheAnswers) ==
  /\ Serving
  /\ reply' = ReadyzAnswer(dbAnswers, cacheAnswers)
  /\ UNCHANGED <<profile, phase, stage, enabled, up, memory, ops, lives>>

-----------------------------------------------------------------------------
(* Source registry.                                                         *)

\* validate_source_base_url: scheme, allow-list, port, then the addresses the
\* name resolves to at the time of the call.
ValidateSourceBaseUrl(url, listed, portOk, addresses) ==
  /\ url = "https"
  /\ listed /\ portOk
  /\ addresses # {} /\ "private" \notin addresses

CreateSourceProfile(s, active) ==
  profile' = [profile EXCEPT ![s] = IF active THEN "active" ELSE "inactive"]

RegisterSource(s, urlOk, active) ==
  /\ Serving /\ MayChange
  /\ \/ ~urlOk /\ reply' = "422" /\ UNCHANGED <<profile, registering, unnoticed>>
     \/ urlOk /\ profile[s] # "none" /\ reply' = "409"
        /\ UNCHANGED <<profile, registering, unnoticed>>
     \/ /\ urlOk /\ profile[s] = "none"
        /\ CreateSourceProfile(s, active)
        /\ registering' = registering \cup {s}
        /\ unnoticed' = IF active THEN unnoticed \cup {s} ELSE unnoticed
        /\ UNCHANGED reply
  /\ UNCHANGED <<phase, stage, enabled, up, jobs, engine, asked, running, lastError, stuck,
                 stopped, abandoned, lives>>

\* The rest of the handler, after the commit: it asks for the active sources, ...
AskForSources(s) ==
  /\ Serving /\ s \in registering
  /\ registering' = registering \ {s}
  /\ \/ HasScheduler /\ asked' = asked \cup {<<s, Active>>} /\ UNCHANGED reply
     \/ UNCHANGED asked /\ reply' = "201"     \* an error is logged
  /\ UNCHANGED <<profile, phase, stage, enabled, up, jobs, engine, running, lastError, stuck,
                 stopped, unnoticed, abandoned, ops, lives>>

\* ... and registers jobs when it has its answer.
RegisterJobs(s, sources) ==
  /\ <<s, sources>> \in asked
  /\ asked' = asked \ {<<s, sources>>}
  /\ RegisterSourceProbeJobs(sources)
  /\ reply' = "201"
  /\ UNCHANGED <<profile, phase, stage, enabled, up, registering, running, lastError, stuck,
                 stopped, abandoned, ops, lives>>

UpdateSourceProfile(s, active) ==
  profile' = [profile EXCEPT ![s] = IF active THEN "active" ELSE "inactive"]

\* The jobs are not told: an activated source waits for the next pass, and those of a
\* source that is no longer active go on firing.
PatchSource(s, urlOk, active) ==
  /\ Serving /\ MayChange
  /\ \/ ~Known(s) /\ reply' = "404" /\ UNCHANGED <<profile, unnoticed, abandoned>>
     \/ Known(s) /\ ~urlOk /\ reply' = "422" /\ UNCHANGED <<profile, unnoticed, abandoned>>
     \/ /\ Known(s) /\ urlOk
        /\ UpdateSourceProfile(s, active)
        /\ unnoticed' = IF active /\ s \notin jobs THEN unnoticed \cup {s} ELSE unnoticed
        /\ abandoned' = IF active THEN abandoned \ {s} ELSE abandoned \cup ({s} \cap Active)
        /\ reply' = "200"
  /\ UNCHANGED <<phase, stage, enabled, up, jobs, engine, registering, asked, running,
                 lastError, stuck, stopped, lives>>

DeactivateSourceProfile(s) == profile' = [profile EXCEPT ![s] = "deleted"]

DeleteSource(s) ==
  /\ Serving /\ MayChange
  /\ IF profile[s] = "none" THEN UNCHANGED profile ELSE DeactivateSourceProfile(s)
  /\ abandoned' = abandoned \cup ({s} \cap Active)
  /\ reply' = IF profile[s] = "none" THEN "404" ELSE "204"
  /\ UNCHANGED <<phase, stage, enabled, up, jobs, engine, registering, asked, running,
                 lastError, stuck, stopped, unnoticed, lives>>

StopSourceJobs(s) ==
  /\ Serving /\ MayChange
  /\ \/ ~Known(s) /\ reply' = "404" /\ UNCHANGED <<engine, stopped>>
     \/ Known(s) /\ ~HasScheduler /\ reply' = "503" /\ UNCHANGED <<engine, stopped>>
     \/ /\ Known(s) /\ HasScheduler
        /\ PauseJob(s)
        /\ stopped' = IF engine[s] = "absent" THEN stopped ELSE stopped \cup {s}
        /\ reply' = "200"
  /\ UNCHANGED <<profile, phase, stage, enabled, up, jobs, registering, asked, running,
                 lastError, stuck, unnoticed, abandoned, lives>>

StartSourceJobs(s) ==
  /\ Serving /\ MayChange
  /\ \/ ~Known(s) /\ reply' = "404" /\ UNCHANGED <<engine, stopped>>
     \/ Known(s) /\ ~HasScheduler /\ reply' = "503" /\ UNCHANGED <<engine, stopped>>
     \/ /\ Known(s) /\ HasScheduler
        /\ ResumeJob(s)
        /\ stopped' = stopped \ {s}
        /\ reply' = "200"
  /\ UNCHANGED <<profile, phase, stage, enabled, up, jobs, registering, asked, running,
                 lastError, stuck, unnoticed, abandoned, lives>>

\* list_sources, source_summary and get_source.
GetSourceProfiles(wanted) == {s \in Sources : Known(s) /\ profile[s] \in wanted}

SourceSummary == [total |-> Cardinality({s \in Sources : Known(s)}),
                  active |-> Cardinality(Active)]

ReadSource(s) ==
  /\ Serving
  /\ reply' = IF Known(s) THEN "200" ELSE "404"
  /\ UNCHANGED <<profile, phase, stage, enabled, up, memory, ops, lives>>

ReadRegistry ==
  /\ Serving
  /\ \/ reply' = SourceSummary
     \/ \E wanted \in SUBSET {"active", "inactive"} : reply' = GetSourceProfiles(wanted)
  /\ UNCHANGED <<profile, phase, stage, enabled, up, memory, ops, lives>>

\* The address is checked again before the request, HEAD is followed by GET
\* where it is not allowed, and every failure is an answer.
ProbeSourceHealth(urlOk, head, get, slow) ==
  LET answer == IF head = "405" THEN get ELSE head
  IN IF ~urlOk \/ answer = "error"
     THEN [reachable |-> FALSE, slaBreach |-> TRUE]
     ELSE [reachable |-> TRUE, slaBreach |-> slow]

SourceHealth(s, urlOk, head, get, slow) ==
  /\ Serving
  /\ reply' = IF Known(s) THEN ProbeSourceHealth(urlOk, head, get, slow) ELSE "404"
  /\ UNCHANGED <<profile, phase, stage, enabled, up, memory, ops, lives>>

\* jobs-metrics and the metrics of one job.
JobMetrics(s) ==
  /\ Serving
  /\ reply' = CASE ~HasScheduler -> "503"
                [] HasScheduler /\ s \notin jobs -> "404"
                [] OTHER -> IF s \in lastError THEN "unhealthy" ELSE "healthy"
  /\ UNCHANGED <<profile, phase, stage, enabled, up, memory, ops, lives>>

-----------------------------------------------------------------------------
(* Executions: wrap_job_handler around run_source_probe and                 *)
(* run_source_contract_snapshot; APScheduler runs one instance of a job.    *)

Fire(k, s) ==
  /\ HasScheduler /\ engine[s] = "live" /\ <<k, s>> \notin running
  /\ running' = running \cup {<<k, s>>}
  /\ UNCHANGED <<profile, phase, stage, enabled, up, jobs, engine, registering, asked,
                 lastError, stuck, stopped, unnoticed, abandoned, reply, ops, lives>>

\* The handler returned, failed or timed out; the session is closed.  A source
\* that is not active is skipped, which is a success.
Finish(k, s, ok) ==
  /\ <<k, s>> \in running
  /\ running' = running \ {<<k, s>>}
  /\ lastError' = IF ok THEN lastError \ {s} ELSE lastError \cup {s}
  /\ UNCHANGED <<profile, phase, stage, enabled, up, jobs, engine, registering, asked, stuck,
                 stopped, unnoticed, abandoned, reply, ops, lives>>

-----------------------------------------------------------------------------
Init ==
  /\ profile \in [Sources -> {"none", "active"}]
  /\ phase = "starting" /\ stage = 1 /\ up = {"db", "http"}
  /\ enabled \in {Optional, Optional \ {"cache", "pubsub"}, {}}
  /\ jobs = {} /\ engine = [s \in Sources |-> "absent"] /\ registering = {} /\ asked = {}
  /\ running = {} /\ lastError = {} /\ stuck = {} /\ stopped = {} /\ unnoticed = {}
  /\ abandoned = {}
  /\ reply = "none" /\ ops = 0 /\ lives = 1

UrlAnswers == {ValidateSourceBaseUrl(u, l, p, a) :
                 u \in {"http", "https"}, l, p \in BOOLEAN,
                 a \in SUBSET {"private", "public"}}

LifespanStep ==
  \/ Refuse \/ StartPart \/ BeginShutdown \/ StopPart \/ Restart
  \/ \E d, c \in BOOLEAN : Readyz(d, c)

RegistryStep ==
  \/ \E s \in Sources, u \in UrlAnswers, a \in BOOLEAN :
        RegisterSource(s, u, a) \/ PatchSource(s, u, a)
  \/ \E s \in Sources, sources \in SUBSET Sources : RegisterJobs(s, sources)
  \/ \E s \in Sources : \/ AskForSources(s) \/ DeleteSource(s) \/ StopSourceJobs(s)
                        \/ StartSourceJobs(s) \/ ReadSource(s) \/ JobMetrics(s)
  \/ ReadRegistry
  \/ \E s \in Sources, u \in UrlAnswers, slow \in BOOLEAN, head \in {"200", "405", "error"},
       get \in {"200", "error"} : SourceHealth(s, u, head, get, slow)
  \/ \E k \in Kinds, s \in Sources : Fire(k, s)
  \/ \E k \in Kinds, s \in Sources, ok \in BOOLEAN : Finish(k, s, ok)

Next == LifespanStep \/ RegistryStep

Spec == Init /\ [][Next]_vars

-----------------------------------------------------------------------------
TypeOK ==
  /\ profile \in [Sources -> {"none", "active", "inactive", "deleted"}]
  /\ up \subseteq {"db", "http", "jobs", "sink", "scheduler"} \cup Optional
  /\ jobs \subseteq Sources /\ engine \in [Sources -> {"absent", "live", "paused"}]
  /\ running \subseteq Kinds \X Sources

\* While the scheduler runs, every active source is probed, unless its jobs
\* were stopped by hand or no registration pass has seen the source since it
\* became active: the pass of its own registration is pending or failed, or it
\* was activated by PATCH, which makes no pass (register_source,
\* register_source_probe_jobs).
ActiveIsScheduled ==
  Serving /\ HasScheduler =>
    \A s \in Active \ (stopped \cup unnoticed) : engine[s] = "live"

\* The converse: jobs fire only for active sources that a pass has seen, and for
\* sources that ceased to be active in this life of the process, to which DELETE and
\* PATCH leave their jobs until the process is restarted.  Jobs that were stopped by
\* hand fire no more until they are started by hand or the process is restarted,
\* however many sources are registered meanwhile (patch_source, delete_source,
\* stop_source_jobs; add_job would replace the paused job).
OnlyTheseFire ==
  \A s \in Sources : engine[s] = "live" =>
    s \in (Active \ unnoticed) \cup abandoned /\ s \notin stopped

\* At shutdown nothing is taken away from a part that still runs, unless that
\* part's own shutdown raised, and at the end nothing else is left running
\* (lifespan).
UsersStopFirst ==
  /\ phase = "stopping" =>
       \A use \in Uses : use[1] \in up \ stuck /\ use[2] \notin up
                           => use[2] \in Optional /\ \A i \in 1..(stage - 1) : StopOrder[i] # use[2]
  /\ phase = "down" => up \subseteq stuck \cup {"jobs"}

\* Across registration, PATCH, deletion, stop and start by hand, restarts and
\* shutdown: the jobs of active sources that fire are exactly those that a pass has
\* seen and nobody stopped, all others are of sources abandoned by PATCH or DELETE,
\* and jobs end before what they use (source_registry.py, lifespan).
JobsFollowSources == ActiveIsScheduled /\ OnlyTheseFire /\ UsersStopFirst
=============================================================================
