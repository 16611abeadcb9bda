--------------------------- MODULE SourcesProofs ---------------------------
(***************************************************************************)
(* Proofs about the parts of MCSources: the process and its scheduled jobs,*)
(* the observations with their upserts and cursor pages, the caches and    *)
(* the retention batch, each for every value of its constants, and about   *)
(* all of them beside the incidents (IncidentsProofs).                     *)
(***************************************************************************)
EXTENDS MCSources, IncidentsProofs, NaturalsInduction, Sequences

\* The notions of finiteness of the instances are the standard ones.
LEMMA FiniteIsFinite ==
  /\ \A S : RE!Cardinality(S) = Cardinality(S)
  /\ \A S : RE!IsFiniteSet(S) = IsFiniteSet(S)
  /\ \A S : OB!Cardinality(S) = Cardinality(S)
  /\ \A S : CA!Cardinality(S) = Cardinality(S)
  BY DEF RE!Cardinality, RE!IsFiniteSet, OB!Cardinality, CA!Cardinality, Cardinality, IsFiniteSet

-----------------------------------------------------------------------------
(* The process: what is up in its phases, and the jobs of its sources.      *)

\* Jobs exist under registered names only, and stopped ones do not fire.
EngineOk ==
  /\ svStopped \subseteq svJobs
  /\ \A s \in Sessions : svEngine[s] # "absent" => s \in svJobs
  /\ \A s \in svStopped : svEngine[s] # "live"

\* Jobs, and the answers that will give rise to jobs, are of active sources or of
\* abandoned ones.
JobsOk ==
  /\ svJobs \subseteq SV!Active \cup svAbandoned /\ svJobs \cap svUnnoticed = {}
  /\ svAbandoned \subseteq Sessions /\ \A s \in svAbandoned : svProfile[s] # "none"
  /\ \A a \in svAsked : a[2] \subseteq SV!Active \cup svAbandoned
  /\ svAsked # {} => svPhase = "serving" /\ SV!HasScheduler

\* Before it serves, the process has no scheduler; the pass over the sources is
\* the sixth part of the start.
StartingOk ==
  svPhase = "starting" => /\ svStage \in 1..9 /\ {"db", "http"} \subseteq svUp
                          /\ "scheduler" \notin svUp /\ svStopped = {}
                          /\ \A s \in Sessions : svEngine[s] = "absent"
                          /\ svStage > 6 => SV!Active \subseteq svJobs \cup svUnnoticed
                          /\ svStage <= 6 => svJobs = {} /\ svUnnoticed = {}

ServingOk ==
  svPhase = "serving" => /\ {"db", "http"} \subseteq svUp
                         /\ SV!HasScheduler => /\ SV!Active \subseteq svJobs \cup svUnnoticed
                                               /\ \A s \in svJobs : svEngine[s] = "live" \/ s \in svStopped

\* The first k parts to be shut down are gone, or their shutdown raised.
EndedOk(k) == \A i \in 1..k : SV!StopOrder[i] \in svUp => SV!StopOrder[i] \in svStuck

StoppingOk ==
  /\ svPhase = "stopping" => /\ svStage \in 1..10 /\ "db" \in svUp /\ (svStage <= 9 => "http" \in svUp)
                             /\ EndedOk(svStage - 1)
  /\ svPhase = "down" => EndedOk(10)

ServiceInv == SV!TypeOK /\ EngineOk /\ JobsOk /\ StartingOk /\ ServingOk /\ StoppingOk

\* The orders of start and shutdown, part by part.
LEMMA OrdersAre ==
  /\ Len(SV!StartOrder) = 9 /\ Len(SV!StopOrder) = 10
  /\ SV!StartOrder[6] = "jobs" /\ SV!StartOrder[9] = "scheduler"
  /\ \A i \in 1..8 : SV!StartOrder[i] # "scheduler"
  /\ \A i \in 1..9 : SV!StartOrder[i] = "jobs" => i = 6
  /\ \A i \in 1..9 : SV!StartOrder[i] \in {"jobs", "sink", "scheduler"} \cup SV!Optional
  /\ SV!StopOrder[1] = "scheduler" /\ SV!StopOrder[2] = "publisher" /\ SV!StopOrder[3] = "workers"
  /\ SV!StopOrder[4] = "agent" /\ SV!StopOrder[5] = "sink" /\ SV!StopOrder[6] = "broker"
  /\ SV!StopOrder[7] = "cache" /\ SV!StopOrder[8] = "pubsub" /\ SV!StopOrder[9] = "http"
  /\ SV!StopOrder[10] = "db"
  <1>1. Len(SV!StartOrder) = 9 /\ Len(SV!StopOrder) = 10 /\ SV!StartOrder[6] = "jobs" /\ SV!StartOrder[9] = "scheduler"
    BY DEF SV!StartOrder, SV!StopOrder
  <1>2. /\ SV!StopOrder[1] = "scheduler" /\ SV!StopOrder[2] = "publisher" /\ SV!StopOrder[3] = "workers"
        /\ SV!StopOrder[4] = "agent" /\ SV!StopOrder[5] = "sink" /\ SV!StopOrder[6] = "broker"
        /\ SV!StopOrder[7] = "cache" /\ SV!StopOrder[8] = "pubsub" /\ SV!StopOrder[9] = "http"
        /\ SV!StopOrder[10] = "db"
    BY DEF SV!StopOrder
  <1>3. /\ SV!StartOrder[1] = "sink" /\ SV!StartOrder[2] = "cache" /\ SV!StartOrder[3] = "pubsub"
        /\ SV!StartOrder[4] = "broker" /\ SV!StartOrder[5] = "publisher" /\ SV!StartOrder[7] = "workers"
        /\ SV!StartOrder[8] = "agent"
    BY DEF SV!StartOrder
  <1>4. \A i \in 1..9 : i = 1 \/ i = 2 \/ i = 3 \/ i = 4 \/ i = 5 \/ i = 6 \/ i = 7 \/ i = 8 \/ i = 9
    OBVIOUS
  <1>5. \A i \in 1..8 : i \in 1..9 /\ i # 9
    OBVIOUS
  <1> QED
    BY <1>1, <1>2, <1>3, <1>4, <1>5 DEF SV!Optional

\* The process has just been started.
LEMMA ServiceInit == SV!Init => ServiceInv
  BY DEF SV!Init, ServiceInv, SV!TypeOK, EngineOk, JobsOk, StartingOk, ServingOk, StoppingOk, SV!Optional

\* Answers, and executions of jobs.
LEMMA ServiceFrame ==
  ASSUME ServiceInv, svRunning' \subseteq SV!Kinds \X Sessions,
         UNCHANGED <<svProfile, svPhase, svStage, svUp, svJobs, svEngine, svAsked, svStuck, svStopped,
                     svUnnoticed, svAbandoned>>
  PROVE  ServiceInv'
  <1>1. SV!TypeOK' /\ EngineOk'
    BY DEF ServiceInv, SV!TypeOK, EngineOk
  <1>2. StartingOk' /\ ServingOk'
    BY DEF ServiceInv, StartingOk, ServingOk, SV!Active, SV!HasScheduler
  <1>3. StoppingOk'
    BY DEF ServiceInv, StoppingOk, EndedOk
  <1>4. JobsOk'
    BY DEF ServiceInv, JobsOk, SV!Active, SV!HasScheduler
  <1> QED
    BY <1>1, <1>2, <1>3, <1>4 DEF ServiceInv

\* Changes while the process serves.
LEMMA ServingFrame ==
  ASSUME ServiceInv, svPhase = "serving", UNCHANGED <<svPhase, svUp, svStuck, svRunning>>,
         svProfile' \in [Sessions -> {"none", "active", "inactive", "deleted"}],
         svJobs' \subseteq Sessions, svEngine' \in [Sessions -> {"absent", "live", "paused"}],
         EngineOk', JobsOk',
         SV!HasScheduler => /\ SV!Active' \subseteq svJobs' \cup svUnnoticed'
                            /\ \A s \in svJobs' : svEngine'[s] = "live" \/ s \in svStopped'
  PROVE  ServiceInv'
  BY DEF ServiceInv, SV!TypeOK, StartingOk, ServingOk, StoppingOk, SV!HasScheduler

\* The parts of the start.
LEMMA StartPartKeeps == ASSUME ServiceInv, SV!StartPart PROVE ServiceInv'
  <1>0. /\ svPhase = "starting" /\ svStage \in 1..9 /\ {"db", "http"} \subseteq svUp
        /\ "scheduler" \notin svUp /\ svStopped = {}
        /\ \A s \in Sessions : svEngine[s] = "absent"
        /\ svStage > 6 => SV!Active \subseteq svJobs \cup svUnnoticed
        /\ svStage <= 6 => svJobs = {} /\ svUnnoticed = {}
    BY DEF SV!StartPart, ServiceInv, StartingOk
  <1>1. PICK p : p = SV!StartOrder[svStage]
    OBVIOUS
  <1>2. /\ p \in {"jobs", "sink", "scheduler"} \cup SV!Optional
        /\ p = "jobs" <=> svStage = 6
        /\ p = "scheduler" <=> svStage = 9
    <2>1. svStage = 9 \/ svStage \in 1..8
      BY <1>0
    <2> QED
      BY <1>0, <1>1, <2>1, OrdersAre
  <1>3. /\ svPhase' = IF svStage = 9 THEN "serving" ELSE svPhase
        /\ svStage' = IF svStage = 9 THEN 1 ELSE svStage + 1
        /\ UNCHANGED <<svProfile, svStopped, svRunning, svStuck, svAsked, svAbandoned>>
    BY <1>0, OrdersAre DEF SV!StartPart, SV!memory
  <1>4. SV!Active' = SV!Active /\ SV!Active \subseteq Sessions
    BY <1>3 DEF SV!Active
  <1>5. \/ /\ svUp' = svUp \cup {p} /\ p \notin {"jobs", "scheduler"} /\ UNCHANGED <<svJobs, svEngine, svUnnoticed>>
        \/ /\ svUp' = svUp \cup {p} /\ p = "jobs" /\ svJobs' = SV!Active /\ UNCHANGED <<svEngine, svUnnoticed>>
        \/ /\ svUp' = svUp \cup {p} /\ p = "scheduler" /\ SV!StartScheduler /\ UNCHANGED <<svJobs, svUnnoticed>>
        \/ /\ svUp' = svUp /\ svUnnoticed' = (IF p = "jobs" THEN SV!Active ELSE svUnnoticed) /\ UNCHANGED <<svJobs, svEngine>>
    BY <1>1 DEF SV!StartPart, SV!memory
  <1>6. /\ svJobs \subseteq Sessions /\ svEngine \in [Sessions -> {"absent", "live", "paused"}]
        /\ \A s \in Sessions : svEngine[s] # "absent" => s \in svJobs
    BY DEF ServiceInv, SV!TypeOK, EngineOk
  <1>7. svUp' \subseteq {"db", "http", "jobs", "sink", "scheduler"} \cup SV!Optional /\ {"db", "http"} \subseteq svUp'
    BY <1>0, <1>2, <1>5 DEF ServiceInv, SV!TypeOK
  <1>8. svStage # 9 => "scheduler" \notin svUp'
    BY <1>0, <1>2, <1>5
  <1>9. /\ svJobs' \subseteq Sessions /\ svEngine' \in [Sessions -> {"absent", "live", "paused"}]
        /\ \A s \in Sessions : svEngine'[s] # "absent" => s \in svJobs'
        /\ svStage # 9 => \A s \in Sessions : svEngine'[s] = "absent"
    BY <1>0, <1>2, <1>4, <1>5, <1>6 DEF SV!StartScheduler, SV!Activate
  <1>10. SV!TypeOK' /\ EngineOk'
    BY <1>0, <1>3, <1>7, <1>9 DEF ServiceInv, SV!TypeOK, EngineOk
  <1>11. svStage >= 6 => SV!Active \subseteq svJobs' \cup svUnnoticed'
    <2>1. CASE svStage = 6
      BY <1>2, <1>5, <2>1
    <2>2. CASE svStage > 6
      BY <1>0, <1>2, <1>5, <2>2
    <2> QED
      BY <1>0, <2>1, <2>2
  <1>15. svStage < 6 => svJobs' = {} /\ svUnnoticed' = {}
    BY <1>0, <1>2, <1>5
  <1>16. JobsOk'
    <2>1. svAsked = {}
      BY <1>0 DEF ServiceInv, JobsOk
    <2>2. svJobs' \subseteq SV!Active \cup svAbandoned /\ svJobs' \cap svUnnoticed' = {}
      <3>1. CASE svStage = 6
        BY <1>0, <1>2, <1>5, <3>1
      <3>2. CASE svStage # 6
        BY <1>2, <1>5, <3>2 DEF ServiceInv, JobsOk
      <3> QED
        BY <3>1, <3>2
    <2> QED
      BY <1>3, <1>4, <2>1, <2>2 DEF ServiceInv, JobsOk
  <1>12. StartingOk'
    <2> SUFFICES ASSUME svPhase' = "starting" PROVE StartingOk'
      BY DEF StartingOk
    <2>1. svStage # 9 /\ svStage' = svStage + 1
      BY <1>3
    <2>2. svStage' \in 1..9 /\ (svStage' > 6 => svStage >= 6) /\ (svStage' <= 6 => svStage < 6)
      BY <1>0, <2>1
    <2> QED
      BY <1>0, <1>3, <1>4, <1>7, <1>8, <1>9, <1>11, <1>15, <2>1, <2>2 DEF StartingOk
  <1>13. ServingOk'
    <2> SUFFICES ASSUME svPhase' = "serving" PROVE ServingOk'
      BY DEF ServingOk
    <2>1. svStage = 9 /\ p = "scheduler"
      BY <1>0, <1>2, <1>3
    <2>2. SV!Active \subseteq svJobs' \cup svUnnoticed'
      BY <1>11, <2>1
    <2>3. ASSUME "scheduler" \in svUp' PROVE \A s \in svJobs' : svEngine'[s] = "live"
      BY <1>0, <1>5, <1>6, <2>1, <2>3 DEF SV!StartScheduler, SV!Activate
    <2> QED
      BY <1>4, <1>7, <2>2, <2>3 DEF ServingOk, SV!HasScheduler
  <1>14. StoppingOk'
    BY <1>0, <1>3 DEF StoppingOk
  <1> QED
    BY <1>10, <1>12, <1>13, <1>14, <1>16 DEF ServiceInv

\* The parts of the shutdown.
LEMMA StopPartKeeps == ASSUME ServiceInv, SV!StopPart PROVE ServiceInv'
  <1>0. /\ svPhase = "stopping" /\ svStage \in 1..10 /\ "db" \in svUp /\ (svStage <= 9 => "http" \in svUp)
        /\ EndedOk(svStage - 1)
    BY DEF SV!StopPart, ServiceInv, StoppingOk
  <1>1. PICK p : p = SV!StopOrder[svStage]
    OBVIOUS
  <1>2. /\ svPhase' = IF svStage = 10 THEN "down" ELSE svPhase
        /\ svStage' = IF svStage = 10 THEN svStage ELSE svStage + 1
        /\ UNCHANGED <<svProfile, svJobs, svStopped, svUnnoticed, svAsked, svAbandoned>>
    BY OrdersAre DEF SV!StopPart
  <1>3. \/ /\ svUp' = svUp \ {p} /\ svStuck' = svStuck
           /\ (svRunning' = svRunning \/ svRunning' = {})
           /\ (svEngine' = svEngine \/ svEngine' = [s \in Sessions |-> "absent"])
        \/ p \in svUp /\ p \notin {"db", "http"} /\ svUp' = svUp /\ svStuck' = svStuck \cup {p} /\ UNCHANGED <<svRunning, svEngine>>
    BY <1>1 DEF SV!StopPart, SV!StopScheduler
  <1>4. SV!TypeOK'
    BY <1>2, <1>3 DEF ServiceInv, SV!TypeOK
  <1>5. EngineOk'
    BY <1>2, <1>3 DEF ServiceInv, EngineOk, SV!TypeOK
  <1>6. StartingOk' /\ ServingOk'
    BY <1>0, <1>2 DEF StartingOk, ServingOk
  <1>9. JobsOk'
    BY <1>0, <1>2 DEF ServiceInv, JobsOk, SV!Active
  <1>7. ASSUME NEW i \in 1..svStage, SV!StopOrder[i] \in svUp' PROVE SV!StopOrder[i] \in svStuck'
    <2>1. CASE i = svStage
      BY <1>1, <1>3, <1>7, <2>1
    <2>2. CASE i # svStage
      <3>1. i \in 1..(svStage - 1)
        BY <1>0, <2>2
      <3>2. SV!StopOrder[i] \in svUp /\ (SV!StopOrder[i] \in svStuck => SV!StopOrder[i] \in svStuck')
        BY <1>3, <1>7
      <3> QED
        BY <1>0, <3>1, <3>2 DEF EndedOk
    <2> QED
      BY <2>1, <2>2
  <1>8. StoppingOk'
    <2>1. CASE svStage = 10
      <3>1. EndedOk(10)'
        BY <1>7, <2>1 DEF EndedOk
      <3> QED
        BY <1>2, <2>1, <3>1 DEF StoppingOk
    <2>2. CASE svStage # 10
      <3>1. svPhase' = "stopping" /\ svStage' = svStage + 1 /\ svStage' \in 1..10 /\ svStage' - 1 = svStage
        BY <1>0, <1>2, <2>2
      <3>2. EndedOk(svStage - 1)'
        BY <1>7, <3>1 DEF EndedOk
      <3>3. p # "db" /\ (svStage' <= 9 => p # "http")
        <4>1. svStage = 1 \/ svStage = 2 \/ svStage = 3 \/ svStage = 4 \/ svStage = 5 \/ svStage = 6 \/ svStage = 7
                \/ svStage = 8 \/ (svStage = 9 /\ svStage' = 10)
          BY <1>0, <2>2, <3>1
        <4> QED
          BY <1>1, <4>1, OrdersAre
      <3>4. "db" \in svUp' /\ (svStage' <= 9 => "http" \in svUp')
        <4>1. svStage' <= 9 => svStage <= 9
          BY <1>0, <3>1
        <4> QED
          BY <1>0, <1>3, <3>3, <4>1
      <3> QED
        BY <3>1, <3>2, <3>4 DEF StoppingOk
    <2> QED
      BY <2>1, <2>2
  <1> QED
    BY <1>4, <1>5, <1>6, <1>8, <1>9 DEF ServiceInv

\* Start, shutdown and restart of the process.
LEMMA LifespanKeeps == ASSUME ServiceInv, SV!LifespanStep PROVE ServiceInv'
  <1>1. CASE SV!Refuse
    <2>1. SV!TypeOK' /\ EngineOk' /\ JobsOk'
      BY <1>1 DEF SV!Refuse, SV!memory, ServiceInv, SV!TypeOK, EngineOk, JobsOk, SV!Active
    <2> QED
      BY <1>1, <2>1 DEF SV!Refuse, ServiceInv, StartingOk, ServingOk, StoppingOk
  <1>2. CASE SV!BeginShutdown
    <2>1. SV!TypeOK' /\ EngineOk' /\ JobsOk'
      BY <1>2 DEF SV!BeginShutdown, SV!memory, ServiceInv, SV!TypeOK, EngineOk, JobsOk, SV!Active
    <2>2. svPhase' = "stopping" /\ svStage' = 1 /\ {"db", "http"} \subseteq svUp'
      BY <1>2 DEF SV!BeginShutdown, SV!Serving, ServiceInv, ServingOk
    <2> QED
      BY <2>1, <2>2 DEF ServiceInv, StartingOk, ServingOk, StoppingOk, EndedOk
  <1>3. CASE SV!Restart
    <2>1. /\ svPhase' = "starting" /\ svStage' = 1 /\ svUp' = {"db", "http"} /\ svProfile' = svProfile
          /\ svJobs' = {} /\ svEngine' = [s \in Sessions |-> "absent"] /\ svRunning' = {} /\ svStopped' = {}
          /\ svAsked' = {} /\ svUnnoticed' = {} /\ svAbandoned' = {}
      BY <1>3 DEF SV!Restart
    <2>2. SV!TypeOK' /\ EngineOk' /\ JobsOk'
      BY <2>1 DEF ServiceInv, SV!TypeOK, EngineOk, JobsOk
    <2>3. StartingOk'
      BY <2>1 DEF StartingOk
    <2> QED
      BY <2>1, <2>2, <2>3 DEF ServiceInv, ServingOk, StoppingOk
  <1>4. CASE \E d, c \in BOOLEAN : SV!Readyz(d, c)
    BY <1>4, ServiceFrame DEF SV!Readyz, SV!memory, ServiceInv, SV!TypeOK
  <1> QED
    BY <1>1, <1>2, <1>3, <1>4, StartPartKeeps, StopPartKeeps DEF SV!LifespanStep

\* A change of one source keeps the others as they are.
LEMMA RegisterSourceKeeps ==
  ASSUME ServiceInv, NEW s \in Sessions, NEW u, NEW a \in BOOLEAN, SV!RegisterSource(s, u, a)
  PROVE  ServiceInv'
  <1>1. /\ UNCHANGED <<svPhase, svStage, svUp, svJobs, svEngine, svAsked, svRunning, svStuck, svStopped,
                       svAbandoned>>
        /\ svPhase = "serving"
    BY DEF SV!RegisterSource, SV!Serving
  <1>2. CASE UNCHANGED <<svProfile, svUnnoticed>>
    BY <1>1, <1>2, ServiceFrame DEF ServiceInv, SV!TypeOK
  <1>3. CASE /\ svProfile[s] = "none" /\ SV!CreateSourceProfile(s, a)
             /\ svUnnoticed' = IF a THEN svUnnoticed \cup {s} ELSE svUnnoticed
    <2>1. /\ svProfile' \in [Sessions -> {"none", "active", "inactive", "deleted"}]
          /\ \A r \in Sessions \ {s} : svProfile'[r] = svProfile[r]
          /\ svProfile'[s] = "active" => a
      BY <1>3 DEF SV!CreateSourceProfile, ServiceInv, SV!TypeOK
    <2>2. SV!Active' \subseteq SV!Active \cup {r \in {s} : a} /\ SV!Active \subseteq SV!Active'
      BY <1>3, <2>1 DEF SV!Active
    <2>3. SV!HasScheduler => /\ SV!Active' \subseteq svJobs' \cup svUnnoticed'
                             /\ \A r \in svJobs' : svEngine'[r] = "live" \/ r \in svStopped'
      BY <1>1, <1>3, <2>2 DEF ServiceInv, ServingOk
    <2>4. EngineOk'
      BY <1>1 DEF ServiceInv, EngineOk
    <2>5. s \notin svJobs /\ s \notin svAbandoned
      BY <1>3 DEF ServiceInv, JobsOk, SV!Active
    <2>6. JobsOk'
      <3>1. \A r \in svAbandoned : svProfile'[r] # "none"
        <4>1. svProfile' = [svProfile EXCEPT ![s] = IF a THEN "active" ELSE "inactive"]
          BY <1>3 DEF SV!CreateSourceProfile
        <4> QED
          BY <2>5, <4>1 DEF ServiceInv, JobsOk, SV!TypeOK
      <3> QED
        BY <1>1, <1>3, <2>2, <2>5, <3>1 DEF ServiceInv, JobsOk, SV!HasScheduler
    <2> QED
      BY <1>1, <2>1, <2>3, <2>4, <2>6, ServingFrame DEF ServiceInv, SV!TypeOK
  <1> QED
    BY <1>2, <1>3 DEF SV!RegisterSource

\* The active sources are asked for.
LEMMA AskForSourcesKeeps ==
  ASSUME ServiceInv, NEW s \in Sessions, SV!AskForSources(s) PROVE ServiceInv'
  <1>1. /\ UNCHANGED <<svProfile, svPhase, svStage, svUp, svJobs, svEngine, svRunning, svStuck, svStopped,
                       svUnnoticed, svAbandoned>>
        /\ svPhase = "serving"
    BY DEF SV!AskForSources, SV!Serving
  <1>2. CASE UNCHANGED svAsked
    BY <1>1, <1>2, ServiceFrame DEF ServiceInv, SV!TypeOK
  <1>3. CASE SV!HasScheduler /\ svAsked' = svAsked \cup {<<s, SV!Active>>}
    <2>1. SV!Active' = SV!Active /\ SV!HasScheduler' = SV!HasScheduler
      BY <1>1 DEF SV!Active, SV!HasScheduler
    <2>2. JobsOk'
      BY <1>1, <1>3, <2>1 DEF ServiceInv, JobsOk
    <2>3. EngineOk'
      BY <1>1 DEF ServiceInv, EngineOk
    <2>4. SV!HasScheduler => /\ SV!Active' \subseteq svJobs' \cup svUnnoticed'
                             /\ \A r \in svJobs' : svEngine'[r] = "live" \/ r \in svStopped'
      BY <1>1, <2>1 DEF ServiceInv, ServingOk
    <2> QED
      BY <1>1, <2>2, <2>3, <2>4, ServingFrame DEF ServiceInv, SV!TypeOK
  <1> QED
    BY <1>2, <1>3 DEF SV!AskForSources

\* A pass over the sources gives jobs to those that were active and have none.
LEMMA RegisterJobsKeeps ==
  ASSUME ServiceInv, NEW s \in Sessions, NEW sources \in SUBSET Sessions, SV!RegisterJobs(s, sources)
  PROVE  ServiceInv'
  <1>1. /\ UNCHANGED <<svProfile, svPhase, svStage, svUp, svRunning, svStuck, svStopped, svAbandoned>>
        /\ <<s, sources>> \in svAsked /\ svAsked' = svAsked \ {<<s, sources>>}
        /\ svJobs' = svJobs \cup sources /\ svUnnoticed' = svUnnoticed \ sources
        /\ svEngine' = [r \in Sessions |-> IF r \in sources \ svJobs THEN "live" ELSE svEngine[r]]
    BY DEF SV!RegisterJobs, SV!RegisterSourceProbeJobs, SV!NewJobs, SV!Activate
  <1>2. svPhase = "serving" /\ SV!HasScheduler /\ sources \subseteq SV!Active \cup svAbandoned
    <2>1. <<s, sources>>[2] = sources
      OBVIOUS
    <2> QED
      BY <1>1, <2>1 DEF ServiceInv, JobsOk
  <1>3. svJobs' \subseteq Sessions /\ svEngine' \in [Sessions -> {"absent", "live", "paused"}]
    BY <1>1 DEF ServiceInv, SV!TypeOK
  <1>4. EngineOk'
    BY <1>1 DEF ServiceInv, EngineOk, SV!TypeOK
  <1>5. SV!Active' = SV!Active /\ SV!HasScheduler' = SV!HasScheduler
    BY <1>1 DEF SV!Active, SV!HasScheduler
  <1>6. JobsOk'
    BY <1>1, <1>2, <1>5 DEF ServiceInv, JobsOk
  <1>7. SV!Active' \subseteq svJobs' \cup svUnnoticed' /\ \A r \in svJobs' : svEngine'[r] = "live" \/ r \in svStopped'
    BY <1>1, <1>2, <1>5 DEF ServiceInv, ServingOk, SV!TypeOK
  <1> QED
    BY <1>1, <1>2, <1>3, <1>4, <1>6, <1>7, ServingFrame DEF ServiceInv, SV!TypeOK

\* PATCH: an activated source waits for the next pass unless it has jobs, and one that
\* is no longer active is abandoned.
LEMMA PatchSourceKeeps ==
  ASSUME ServiceInv, NEW s \in Sessions, NEW u, NEW a \in BOOLEAN, SV!PatchSource(s, u, a)
  PROVE  ServiceInv'
  <1>1. /\ UNCHANGED <<svPhase, svStage, svUp, svJobs, svEngine, svAsked, svRunning, svStuck, svStopped>>
        /\ svPhase = "serving"
    BY DEF SV!PatchSource, SV!Serving
  <1>2. CASE UNCHANGED <<svProfile, svUnnoticed, svAbandoned>>
    BY <1>1, <1>2, ServiceFrame DEF ServiceInv, SV!TypeOK
  <1>3. CASE /\ SV!UpdateSourceProfile(s, a)
             /\ svUnnoticed' = IF a /\ s \notin svJobs THEN svUnnoticed \cup {s} ELSE svUnnoticed
             /\ svAbandoned' = IF a THEN svAbandoned \ {s} ELSE svAbandoned \cup ({s} \cap SV!Active)
    <2>0. svProfile' = [svProfile EXCEPT ![s] = IF a THEN "active" ELSE "inactive"]
      BY <1>3 DEF SV!UpdateSourceProfile
    <2>1. /\ svProfile' \in [Sessions -> {"none", "active", "inactive", "deleted"}]
          /\ \A r \in Sessions \ {s} : svProfile'[r] = svProfile[r]
          /\ svProfile'[s] = IF a THEN "active" ELSE "inactive"
      BY <2>0 DEF ServiceInv, SV!TypeOK
    <2>2. SV!Active' \subseteq SV!Active \cup {r \in {s} : a}
      BY <2>1 DEF SV!Active
    <2>3. SV!HasScheduler => /\ SV!Active' \subseteq svJobs' \cup svUnnoticed'
                             /\ \A r \in svJobs' : svEngine'[r] = "live" \/ r \in svStopped'
      BY <1>1, <1>3, <2>2 DEF ServiceInv, ServingOk
    <2>4. EngineOk'
      BY <1>1 DEF ServiceInv, EngineOk
    <2>5. SV!Active \cup svAbandoned \subseteq SV!Active' \cup svAbandoned'
      <3>1. SV!Active \ {s} \subseteq SV!Active' /\ (a => s \in SV!Active')
        BY <2>1 DEF SV!Active
      <3> QED
        BY <1>3, <3>1
    <2>6. JobsOk'
      <3>1. \A r \in svAbandoned' : svProfile'[r] # "none"
        <4> TAKE r \in svAbandoned'
        <4>1. CASE r = s
          BY <2>1, <4>1
        <4>2. CASE r # s
          BY <1>3, <2>0, <4>2 DEF ServiceInv, JobsOk, SV!TypeOK
        <4> QED
          BY <4>1, <4>2
      <3>2. svJobs \cap svUnnoticed' = {}
        BY <1>3 DEF ServiceInv, JobsOk
      <3>3. svAbandoned' \subseteq Sessions
        BY <1>3 DEF ServiceInv, JobsOk
      <3> QED
        BY <1>1, <2>5, <3>1, <3>2, <3>3 DEF ServiceInv, JobsOk, SV!HasScheduler
    <2> QED
      BY <1>1, <2>1, <2>3, <2>4, <2>6, ServingFrame DEF ServiceInv, SV!TypeOK
  <1> QED
    BY <1>2, <1>3 DEF SV!PatchSource

\* A deleted source keeps its jobs, and is abandoned.
LEMMA DeleteSourceKeeps ==
  ASSUME ServiceInv, NEW s \in Sessions, SV!DeleteSource(s) PROVE ServiceInv'
  <1>1. /\ UNCHANGED <<svPhase, svStage, svUp, svJobs, svEngine, svAsked, svRunning, svStuck, svStopped,
                       svUnnoticed>>
        /\ svPhase = "serving" /\ svAbandoned' = svAbandoned \cup ({s} \cap SV!Active)
    BY DEF SV!DeleteSource, SV!Serving
  <1>2. /\ svProfile' \in [Sessions -> {"none", "active", "inactive", "deleted"}]
        /\ svProfile' = svProfile \/ svProfile' = [svProfile EXCEPT ![s] = "deleted"]
    BY DEF SV!DeleteSource, SV!DeactivateSourceProfile, ServiceInv, SV!TypeOK
  <1>3. SV!Active' \subseteq SV!Active /\ SV!Active \ {s} \subseteq SV!Active'
    BY <1>2 DEF SV!Active, ServiceInv, SV!TypeOK
  <1>4. EngineOk'
    BY <1>1 DEF ServiceInv, EngineOk
  <1>5. SV!HasScheduler => /\ SV!Active' \subseteq svJobs' \cup svUnnoticed'
                           /\ \A r \in svJobs' : svEngine'[r] = "live" \/ r \in svStopped'
    BY <1>1, <1>3 DEF ServiceInv, ServingOk
  <1>6. JobsOk'
    <2>1. SV!Active \cup svAbandoned \subseteq SV!Active' \cup svAbandoned'
      BY <1>1, <1>3
    <2>2. \A r \in svAbandoned' : svProfile[r] # "none"
      BY <1>1 DEF ServiceInv, JobsOk, SV!Active
    <2>3. \A r \in svAbandoned' : svProfile'[r] # "none"
      <3> TAKE r \in svAbandoned'
      <3>1. svProfile[r] # "none" /\ r \in Sessions /\ svProfile \in [Sessions -> {"none", "active", "inactive", "deleted"}]
        BY <1>1, <2>2 DEF ServiceInv, JobsOk, SV!TypeOK
      <3>2. CASE svProfile' = svProfile
        BY <3>1, <3>2
      <3>3. CASE svProfile' = [svProfile EXCEPT ![s] = "deleted"]
        BY <3>1, <3>3
      <3> QED
        BY <1>2, <3>2, <3>3
    <2> QED
      BY <1>1, <2>1, <2>3 DEF ServiceInv, JobsOk, SV!HasScheduler
  <1> QED
    BY <1>1, <1>2, <1>4, <1>5, <1>6, ServingFrame DEF ServiceInv, SV!TypeOK

\* Stopping and starting the jobs of a source by hand.
LEMMA ByHandKeeps ==
  ASSUME ServiceInv, NEW s \in Sessions, SV!StopSourceJobs(s) \/ SV!StartSourceJobs(s) PROVE ServiceInv'
  <1>1. /\ UNCHANGED <<svProfile, svPhase, svStage, svUp, svJobs, svAsked, svRunning, svStuck, svUnnoticed,
                       svAbandoned>>
        /\ svPhase = "serving"
    BY DEF SV!StopSourceJobs, SV!StartSourceJobs, SV!Serving
  <1>a. JobsOk'
    BY <1>1 DEF ServiceInv, JobsOk, SV!Active, SV!HasScheduler
  <1>2. CASE UNCHANGED <<svEngine, svStopped>>
    BY <1>1, <1>2, ServiceFrame DEF ServiceInv, SV!TypeOK
  <1>3. CASE SV!PauseJob(s) /\ svStopped' = IF svEngine[s] = "absent" THEN svStopped ELSE svStopped \cup {s}
    <2>1. svEngine' = [svEngine EXCEPT ![s] = IF svEngine[s] = "absent" THEN "absent" ELSE "paused"]
      BY <1>3 DEF SV!PauseJob
    <2>2. /\ svEngine' \in [Sessions -> {"absent", "live", "paused"}]
          /\ \A r \in Sessions \ {s} : svEngine'[r] = svEngine[r]
          /\ svEngine'[s] = IF svEngine[s] = "absent" THEN "absent" ELSE "paused"
      BY <2>1 DEF ServiceInv, SV!TypeOK
    <2>3. EngineOk'
      BY <1>1, <1>3, <2>2 DEF ServiceInv, EngineOk, SV!TypeOK
    <2>4. SV!HasScheduler => /\ SV!Active' \subseteq svJobs' \cup svUnnoticed'
                             /\ \A r \in svJobs' : svEngine'[r] = "live" \/ r \in svStopped'
      <3>1. SV!Active' = SV!Active
        BY <1>1 DEF SV!Active
      <3> QED
        BY <1>1, <1>3, <2>2, <3>1 DEF ServiceInv, ServingOk, SV!TypeOK, EngineOk
    <2> QED
      BY <1>1, <1>a, <2>2, <2>3, <2>4, ServingFrame DEF ServiceInv, SV!TypeOK
  <1>4. CASE SV!ResumeJob(s) /\ svStopped' = svStopped \ {s}
    <2>1. /\ svEngine' \in [Sessions -> {"absent", "live", "paused"}]
          /\ \A r \in Sessions \ {s} : svEngine'[r] = svEngine[r]
          /\ s \in svJobs => svEngine'[s] = "live"
          /\ s \notin svJobs => svEngine' = svEngine
      BY <1>4 DEF SV!ResumeJob, ServiceInv, SV!TypeOK
    <2>2. EngineOk'
      BY <1>1, <1>4, <2>1 DEF ServiceInv, EngineOk, SV!TypeOK
    <2>3. SV!HasScheduler => /\ SV!Active' \subseteq svJobs' \cup svUnnoticed'
                             /\ \A r \in svJobs' : svEngine'[r] = "live" \/ r \in svStopped'
      <3>1. SV!Active' = SV!Active
        BY <1>1 DEF SV!Active
      <3> QED
        BY <1>1, <1>4, <2>1, <3>1 DEF ServiceInv, ServingOk, SV!TypeOK
    <2> QED
      BY <1>1, <1>a, <2>1, <2>2, <2>3, ServingFrame DEF ServiceInv, SV!TypeOK
  <1> QED
    BY <1>2, <1>3, <1>4 DEF SV!StopSourceJobs, SV!StartSourceJobs

\* The handlers of the registry and the executions of jobs.
LEMMA RegistryKeeps == ASSUME ServiceInv, SV!RegistryStep PROVE ServiceInv'
  <1>0. svRunning \subseteq SV!Kinds \X Sessions
    BY DEF ServiceInv, SV!TypeOK
  <1>1. CASE \E s \in Sessions, u \in SV!UrlAnswers, a \in BOOLEAN :
               SV!RegisterSource(s, u, a) \/ SV!PatchSource(s, u, a)
    BY <1>1, RegisterSourceKeeps, PatchSourceKeeps
  <1>2. CASE \E s \in Sessions : \/ SV!AskForSources(s) \/ SV!DeleteSource(s) \/ SV!StopSourceJobs(s)
                                 \/ SV!StartSourceJobs(s)
    BY <1>2, AskForSourcesKeeps, DeleteSourceKeeps, ByHandKeeps
  <1>6. CASE \E s \in Sessions, sources \in SUBSET Sessions : SV!RegisterJobs(s, sources)
    BY <1>6, RegisterJobsKeeps
  <1>3. CASE \/ \E s \in Sessions : SV!ReadSource(s) \/ SV!JobMetrics(s)
             \/ SV!ReadRegistry
             \/ \E s \in Sessions, u \in SV!UrlAnswers, slow \in BOOLEAN, head \in {"200", "405", "error"},
                  get \in {"200", "error"} : SV!SourceHealth(s, u, head, get, slow)
    <2>1. UNCHANGED <<svProfile, svPhase, svStage, svEnabled, svUp, SV!memory>>
      BY <1>3 DEF SV!ReadSource, SV!JobMetrics, SV!ReadRegistry, SV!SourceHealth
    <2> QED
      BY <1>0, <2>1, ServiceFrame DEF SV!memory
  <1>4. CASE \E k \in SV!Kinds, s \in Sessions : SV!Fire(k, s)
    BY <1>0, <1>4, ServiceFrame DEF SV!Fire
  <1>5. CASE \E k \in SV!Kinds, s \in Sessions, ok \in BOOLEAN : SV!Finish(k, s, ok)
    BY <1>0, <1>5, ServiceFrame DEF SV!Finish
  <1> QED
    BY <1>1, <1>2, <1>3, <1>4, <1>5, <1>6 DEF SV!RegistryStep

\* Every step of the process keeps its invariant.
LEMMA ServiceNext == ASSUME ServiceInv, [SV!Next]_(SV!vars) PROVE ServiceInv'
  <1>1. CASE UNCHANGED SV!vars
    BY <1>1, ServiceFrame DEF SV!vars, SV!memory, ServiceInv, SV!TypeOK
  <1> QED
    BY <1>1, LifespanKeeps, RegistryKeeps DEF SV!Next

\* The invariant implies what is asked for: whoever is taken away comes after those
\* who use it.
LEMMA ServiceImplies == ASSUME ServiceInv PROVE SV!TypeOK /\ SV!JobsFollowSources
  <1>1. SV!ActiveIsScheduled /\ SV!OnlyTheseFire
    BY DEF ServiceInv, ServingOk, EngineOk, JobsOk, SV!ActiveIsScheduled, SV!OnlyTheseFire, SV!Serving
  <1>2. ASSUME svPhase = "stopping", NEW use \in SV!Uses, use[1] \in svUp \ svStuck, use[2] \notin svUp
        PROVE  use[2] \in SV!Optional /\ \A i \in 1..(svStage - 1) : SV!StopOrder[i] # use[2]
    <2>1. /\ svStage \in 1..10 /\ "db" \in svUp /\ (svStage <= 9 => "http" \in svUp)
          /\ \A i \in 1..(svStage - 1) : SV!StopOrder[i] # use[1]
      BY <1>2 DEF ServiceInv, StoppingOk, EndedOk
    <2>2. \/ use[1] = "publisher" /\ use[2] = "broker"
          \/ use[1] = "publisher" /\ use[2] = "db"
          \/ use[1] = "workers" /\ use[2] = "db"
          \/ use[1] = "scheduler" /\ use[2] \in {"db", "http", "cache"}
      <3>1. \/ use = <<"publisher", "broker">> \/ use = <<"publisher", "db">> \/ use = <<"workers", "db">>
            \/ use = <<"scheduler", "db">> \/ use = <<"scheduler", "http">> \/ use = <<"scheduler", "cache">>
        BY DEF SV!Uses
      <3>2. ASSUME NEW x, NEW y, use = <<x, y>> PROVE use[1] = x /\ use[2] = y
        BY <3>2
      <3>3. CASE use = <<"publisher", "broker">>
        BY <3>2, <3>3
      <3>4. CASE use = <<"publisher", "db">>
        BY <3>2, <3>4
      <3>5. CASE use = <<"workers", "db">>
        BY <3>2, <3>5
      <3>6. CASE use = <<"scheduler", "db">>
        BY <3>2, <3>6
      <3>7. CASE use = <<"scheduler", "http">>
        BY <3>2, <3>7
      <3>8. CASE use = <<"scheduler", "cache">>
        BY <3>2, <3>8
      <3> QED
        BY <3>1, <3>3, <3>4, <3>5, <3>6, <3>7, <3>8
    <2>3. CASE use[1] = "scheduler"
      <3>1. svStage = 1
        <4>1. ASSUME svStage # 1 PROVE FALSE
          <5>1. 1 \in 1..(svStage - 1)
            BY <2>1, <4>1
          <5> QED
            BY <2>1, <2>3, <5>1, OrdersAre
        <4> QED
          BY <4>1
      <3> QED
        BY <1>2, <2>1, <2>2, <2>3, <3>1 DEF SV!Optional
    <2>4. CASE use[1] = "publisher" /\ use[2] = "broker"
      <3>1. svStage \in {1, 2}
        <4>1. ASSUME svStage \notin {1, 2} PROVE FALSE
          <5>1. 2 \in 1..(svStage - 1)
            BY <2>1, <4>1
          <5> QED
            BY <2>1, <2>4, <5>1, OrdersAre
        <4> QED
          BY <4>1
      <3>2. \A i \in 1..(svStage - 1) : i = 1
        BY <3>1
      <3> QED
        BY <2>4, <3>2, OrdersAre DEF SV!Optional
    <2> QED
      BY <1>2, <2>1, <2>2, <2>3, <2>4
  <1>3. ASSUME svPhase = "down" PROVE svUp \subseteq svStuck \cup {"jobs"}
    <2>1. /\ EndedOk(10) /\ svUp \subseteq {"db", "http", "jobs", "sink", "scheduler"} \cup SV!Optional
      BY <1>3 DEF ServiceInv, StoppingOk, SV!TypeOK
    <2>2. \A i \in {1, 2, 3, 4, 5, 6, 7, 8, 9, 10} : SV!StopOrder[i] \in svUp => SV!StopOrder[i] \in svStuck
      BY <2>1 DEF EndedOk
    <2> QED
      BY <2>1, <2>2, OrdersAre DEF SV!Optional
  <1>4. SV!UsersStopFirst
    BY <1>2, <1>3 DEF SV!UsersStopFirst
  <1> QED
    BY <1>1, <1>4 DEF SV!JobsFollowSources, ServiceInv

\* For any sources, and any number of changes and restarts: of the active sources
\* exactly those fire that a pass has seen and nobody stopped, whatever else fires was
\* abandoned by PATCH or DELETE since the process started, and shutdown takes nothing
\* away from what still runs (source_registry.py, lifespan).
THEOREM JobsAreFollowed == SV!Spec => []SV!JobsFollowSources
  <1>1. SV!Spec => []ServiceInv
    BY ServiceInit, ServiceNext, PTL DEF SV!Spec
  <1> QED
    BY <1>1, ServiceImplies, PTL

-----------------------------------------------------------------------------
(* Observations: keys, upserts and the reader of pages.                     *)

Scans == [on : BOOLEAN, cursor : [ts : Nat, id : Nat], stable : SUBSET OB!Ids,
          seen : [OB!Ids -> Nat], done : BOOLEAN]
Upserts == [step : {"idle", "select", "failed", "found"}, key : OB!Keys \cup {<<>>}, archived : BOOLEAN]

ObservationTypes ==
  /\ obNextId \in Nat /\ obNextId >= 1
  /\ OB!Exists \subseteq OB!Ids /\ \A i \in OB!Exists : obRows[i] \in OB!Row /\ i < obNextId
  /\ obRows = [i \in OB!Exists |-> obRows[i]]
  /\ obUpsert \in [Sessions -> Upserts]
  /\ obScan \in Scans
  /\ obEvents \subseteq OB!Ids

\* Some row has key k, archived or not as a says.
RowOf(k, a) == \E i \in OB!Exists : OB!KeyOf(obRows[i]) = k /\ obRows[i].archived = a

\* What an upsert learns and answers: the row that its INSERT ran into is there until
\* its SELECT, which finds it unless it is archived.
UpsertOk(r) ==
  /\ r.step = "select" => RowOf(r.key, r.archived)
  /\ r.step = "failed" => r.archived
  /\ r.step = "found" => ~r.archived

\* No two rows have one key, what upserts are told is in the table, and an upsert
\* that nobody overtook is right about the row it ran into.
KeysOk ==
  /\ \A i, j \in OB!Exists : OB!KeyOf(obRows[i]) = OB!KeyOf(obRows[j]) => i = j
  /\ \A k \in obTold : OB!Taken(k)
  /\ ~obTwice
  /\ \A u \in Sessions \ obOvertaken : UpsertOk(obUpsert[u])

\* What lies behind the cursor was seen once, what lies before it was not.
ScanOk ==
  /\ obScan.stable \subseteq OB!Active
  /\ \A i \in obScan.stable :
       /\ obScan.seen[i] \in {0, 1}
       /\ obScan.on /\ ~obScan.done => obScan.seen[i] = IF OB!After(i, obScan.cursor) THEN 0 ELSE 1
       /\ obScan.done => obScan.seen[i] = 1

ObservationsInv == ObservationTypes /\ KeysOk /\ ScanOk

\* An empty table.
LEMMA ObservationsInit == OB!Init => ObservationsInv
  <1> SUFFICES ASSUME OB!Init PROVE ObservationsInv
    OBVIOUS
  <1>1. obRows = [i \in {} |-> 0] /\ OB!Exists = {} /\ OB!Active = {}
    BY DEF OB!Init, OB!Exists, OB!Active
  <1>2. obScan \in Scans
    BY DEF OB!Init, Scans, OB!NoCursor
  <1>3. [step |-> "idle", key |-> <<>>, archived |-> FALSE] \in Upserts
    BY DEF Upserts
  <1>4. ObservationTypes
    BY <1>1, <1>2, <1>3 DEF OB!Init, ObservationTypes
  <1>5. KeysOk
    <2>1. \A u \in Sessions : obUpsert[u].step = "idle"
      BY DEF OB!Init
    <2>2. \A u \in Sessions : UpsertOk(obUpsert[u])
      BY <2>1 DEF UpsertOk
    <2> QED
      BY <1>1, <2>2 DEF OB!Init, KeysOk
  <1>6. ScanOk
    BY <1>1 DEF OB!Init, ScanOk
  <1> QED
    BY <1>4, <1>5, <1>6 DEF ObservationsInv

-----------------------------------------------------------------------------
(* Pages.                                                                   *)

\* Timestamp and primary key order the rows.
LEMMA EarlierOrders ==
  ASSUME ObservationTypes
  PROVE  /\ \A i \in OB!Exists : obRows[i].ts \in Nat /\ i \in Nat /\ i >= 1
         /\ \A i \in OB!Exists : ~OB!Earlier(i, i)
         /\ \A i, j \in OB!Exists : i # j => OB!Earlier(i, j) \/ OB!Earlier(j, i)
         /\ \A i, j, k \in OB!Exists : OB!Earlier(i, j) /\ OB!Earlier(j, k) => OB!Earlier(i, k)
  <1>1. \A i \in OB!Exists : obRows[i].ts \in Nat /\ i \in Nat /\ i >= 1
    BY ObservationsAssumption DEF ObservationTypes, OB!Row, OB!Ids
  <1> QED
    BY <1>1 DEF OB!Earlier

\* A set of numbers has a least one.
LEMMA LeastNumber ==
  ASSUME NEW T \in SUBSET Nat, T # {} PROVE \E t \in T : \A v \in T : t <= v
  <1>1. PICK t \in T : \A v \in T : <<v, t>> \notin OpToRel(<, Nat)
    BY NatLessThanWellFounded, WFMin
  <1>2. \A v \in T : ~(v < t)
    BY <1>1 DEF OpToRel
  <1> QED
    BY <1>2

\* Sets of rows are finite.
LEMMA RowsAreFinite ==
  ASSUME ObservationTypes, NEW S \in SUBSET OB!Exists
  PROVE  IsFiniteSet(S) /\ Cardinality(S) \in Nat
  <1>1. IsFiniteSet(1..MaxObservations)
    <2>1. 1 \in Int /\ MaxObservations \in Int
      BY ObservationsAssumption
    <2> QED
      BY <2>1, FS_Interval
  <1>2. S \subseteq 1..MaxObservations
    BY DEF ObservationTypes, OB!Ids
  <1>3. IsFiniteSet(S)
    BY <1>1, <1>2, FS_Subset
  <1> QED
    BY <1>3, FS_CardinalityType

\* A part of a finite set without one of its members is smaller.
LEMMA SmallerPart ==
  ASSUME NEW S, NEW T, IsFiniteSet(S), T \subseteq S, NEW x \in S, x \notin T
  PROVE  Cardinality(T) < Cardinality(S) /\ Cardinality(S) \in Nat /\ Cardinality(T) \in Nat
  <1>1. IsFiniteSet(T) /\ Cardinality(T) <= Cardinality(S) /\ Cardinality(T) # Cardinality(S)
    BY FS_Subset
  <1>2. Cardinality(S) \in Nat /\ Cardinality(T) \in Nat
    BY <1>1, FS_CardinalityType
  <1> QED
    BY <1>1, <1>2

\* Any rows have a first and a last.
LEMMA FirstAndLast ==
  ASSUME ObservationTypes, NEW S \in SUBSET OB!Exists, S # {}
  PROVE  /\ \E x \in S : \A y \in S : ~OB!Earlier(y, x)
         /\ \E x \in S : \A y \in S : ~OB!Earlier(x, y)
  <1>1. \E x \in S : \A y \in S : ~OB!Earlier(y, x)
    <2> DEFINE R(x) == {y \in S : OB!Earlier(y, x)}
    <2>1. \A x \in S : R(x) \in SUBSET OB!Exists
      OBVIOUS
    <2>2. \A x \in S : IsFiniteSet(R(x)) /\ Cardinality(R(x)) \in Nat
      <3> HIDE DEF R
      <3> QED
        BY <2>1, RowsAreFinite
    <2> DEFINE T == {Cardinality(R(x)) : x \in S}
    <2>3. T \in SUBSET Nat /\ T # {}
      BY <2>2
    <2>4. PICK t \in T : \A v \in T : t <= v
      <3> HIDE DEF T
      <3> QED
        BY <2>3, LeastNumber
    <2>5. PICK x \in S : Cardinality(R(x)) = t
      OBVIOUS
    <2>6. ASSUME NEW y \in S, OB!Earlier(y, x) PROVE FALSE
      <3>1. R(y) \subseteq R(x) /\ y \in R(x) /\ y \notin R(y)
        BY <2>6, EarlierOrders
      <3>2. Cardinality(R(y)) < Cardinality(R(x))
        <4> HIDE DEF R
        <4> QED
          BY <2>2, <3>1, SmallerPart
      <3>3. t <= Cardinality(R(y))
        BY <2>4
      <3> HIDE DEF R, T
      <3> QED
        BY <2>2, <2>5, <3>2, <3>3
    <2> QED
      BY <2>6
  <1>2. \E x \in S : \A y \in S : ~OB!Earlier(x, y)
    <2> DEFINE R(x) == {y \in S : OB!Earlier(x, y)}
    <2>1. \A x \in S : R(x) \in SUBSET OB!Exists
      OBVIOUS
    <2>2. \A x \in S : IsFiniteSet(R(x)) /\ Cardinality(R(x)) \in Nat
      <3> HIDE DEF R
      <3> QED
        BY <2>1, RowsAreFinite
    <2> DEFINE T == {Cardinality(R(x)) : x \in S}
    <2>3. T \in SUBSET Nat /\ T # {}
      BY <2>2
    <2>4. PICK t \in T : \A v \in T : t <= v
      <3> HIDE DEF T
      <3> QED
        BY <2>3, LeastNumber
    <2>5. PICK x \in S : Cardinality(R(x)) = t
      OBVIOUS
    <2>6. ASSUME NEW y \in S, OB!Earlier(x, y) PROVE FALSE
      <3>1. R(y) \subseteq R(x) /\ y \in R(x) /\ y \notin R(y)
        BY <2>6, EarlierOrders
      <3>2. Cardinality(R(y)) < Cardinality(R(x))
        <4> HIDE DEF R
        <4> QED
          BY <2>2, <3>1, SmallerPart
      <3>3. t <= Cardinality(R(y))
        BY <2>4
      <3> HIDE DEF R, T
      <3> QED
        BY <2>2, <2>5, <3>2, <3>3
    <2> QED
      BY <2>6
  <1> QED
    BY <1>1, <1>2

\* The order decides who belongs to the first n.
LEMMA FirstByFacts ==
  ASSUME ObservationTypes, NEW S \in SUBSET OB!Exists, NEW n \in Nat
  PROVE  /\ OB!FirstBy(S, n) \subseteq S
         /\ Cardinality(S) <= n => OB!FirstBy(S, n) = S
         /\ Cardinality(OB!FirstBy(S, n)) < n => OB!FirstBy(S, n) = S
         /\ \A x \in OB!FirstBy(S, n), y \in S : OB!Earlier(y, x) => y \in OB!FirstBy(S, n)
  <1> DEFINE R(x) == {y \in S : OB!Earlier(y, x)}
             F == OB!FirstBy(S, n)
  <1>1. F = {x \in S : Cardinality(R(x)) < n} /\ F \subseteq S
    BY FiniteIsFinite DEF OB!FirstBy
  <1>2. IsFiniteSet(S) /\ Cardinality(S) \in Nat
    BY RowsAreFinite
  <1>3. \A x \in S : R(x) \subseteq S /\ x \notin R(x) /\ R(x) \in SUBSET OB!Exists
    BY EarlierOrders
  <1>4. \A x, y \in S : OB!Earlier(y, x) => R(y) \subseteq R(x)
    BY EarlierOrders
  <1> HIDE DEF R, F
  <1>5. \A x \in S : IsFiniteSet(R(x)) /\ Cardinality(R(x)) \in Nat /\ Cardinality(R(x)) < Cardinality(S)
    BY <1>2, <1>3, SmallerPart, RowsAreFinite
  <1>6. Cardinality(S) <= n => F = S
    BY <1>1, <1>2, <1>5
  <1>7. ASSUME Cardinality(F) < n, F # S PROVE FALSE
    <2>1. S \ F # {} /\ S \ F \in SUBSET OB!Exists
      BY <1>1, <1>7
    <2>2. PICK m \in S \ F : \A y \in S \ F : ~OB!Earlier(y, m)
      BY <2>1, FirstAndLast
    <2>3. R(m) \subseteq F
      BY <2>2 DEF R
    <2>4. IsFiniteSet(F) /\ Cardinality(F) \in Nat
      BY <1>1, RowsAreFinite
    <2>5. Cardinality(R(m)) <= Cardinality(F)
      BY <2>3, <2>4, FS_Subset
    <2>6. Cardinality(R(m)) < n
      BY <1>5, <1>7, <2>4, <2>5
    <2> QED
      BY <1>1, <2>2, <2>6
  <1>8. ASSUME NEW x \in F, NEW y \in S, OB!Earlier(y, x) PROVE y \in F
    <2>1. x \in S /\ Cardinality(R(x)) < n /\ R(y) \subseteq R(x)
      BY <1>1, <1>4, <1>8
    <2>2. Cardinality(R(y)) <= Cardinality(R(x))
      BY <1>5, <2>1, FS_Subset
    <2>3. Cardinality(R(y)) < n
      BY <1>5, <2>1, <2>2
    <2> QED
      BY <1>1, <2>3
  <1> QED
    BY <1>1, <1>6, <1>7, <1>8 DEF F

\* The cursor is the position of the last row of the page.
LEMMA CursorIsLast ==
  ASSUME ObservationTypes, NEW S \in SUBSET OB!Exists, S # {}
  PROVE  \E last \in S : /\ OB!Cursor(S) = [ts |-> obRows[last].ts, id |-> last]
                         /\ \A j \in S \ {last} : OB!Earlier(j, last)
  <1>1. PICK x \in S : \A y \in S : ~OB!Earlier(x, y)
    BY FirstAndLast
  <1>2. \A j \in S \ {x} : OB!Earlier(j, x)
    BY <1>1, EarlierOrders
  <1> DEFINE last == CHOOSE i \in S : \A j \in S \ {i} : OB!Earlier(j, i)
  <1>3. last \in S /\ \A j \in S \ {last} : OB!Earlier(j, last)
    BY <1>2
  <1>4. OB!Cursor(S) = [ts |-> obRows[last].ts, id |-> last]
    BY DEF OB!Cursor
  <1> HIDE DEF last
  <1> QED
    BY <1>3, <1>4

\* A page: every row behind the new cursor that was before the old one is on it.
LEMMA PageIsNext ==
  ASSUME ObservationsInv, obScan.on, ~obScan.done, OB!ScanPage
  PROVE  ScanOk' /\ obScan' \in Scans
  <1> DEFINE rest == {i \in OB!Active : OB!After(i, obScan.cursor)}
             probe == OB!FirstBy(rest, PageSize + 1)
             page == OB!FirstBy(probe, PageSize)
  <1>0. /\ ObservationTypes /\ ScanOk /\ obScan \in Scans /\ PageSize \in Nat /\ PageSize >= 1
        /\ PageSize + 1 \in Nat /\ OB!Active \subseteq OB!Exists /\ rest \in SUBSET OB!Exists
    BY ObservationsAssumption DEF ObservationsInv, ObservationTypes, OB!Active
  <1>1. probe \subseteq rest /\ page \subseteq probe /\ probe \in SUBSET OB!Exists /\ page \in SUBSET OB!Exists
    <2>1. probe \subseteq rest
      <3> HIDE DEF rest
      <3> QED
        BY <1>0, FirstByFacts
    <2>2. page \subseteq probe
      <3> HIDE DEF rest, probe
      <3> QED
        BY <1>0, <2>1, FirstByFacts
    <2> QED
      BY <1>0, <2>1, <2>2
  <1>2. /\ Cardinality(probe) \in Nat /\ Cardinality(page) \in Nat
    <2> HIDE DEF probe, page
    <2> QED
      BY <1>0, <1>1, RowsAreFinite
  <1>3. obRows' = obRows /\ \A i : OB!After(i, obScan.cursor)' = OB!After(i, obScan.cursor') /\ OB!Active' = OB!Active
    BY DEF OB!ScanPage, OB!After, OB!Active, OB!Exists
  <1>4. PICK seen : seen = [i \in OB!Ids |-> obScan.seen[i] + IF i \in page THEN 1 ELSE 0]
    OBVIOUS
  <1>5. seen \in [OB!Ids -> Nat]
    BY <1>0, <1>4 DEF Scans
  <1>6. CASE ~(Cardinality(probe) > PageSize)
    <2>1. obScan' = [obScan EXCEPT !.cursor = obScan.cursor, !.seen = seen, !.done = TRUE]
      BY <1>4, <1>6, FiniteIsFinite DEF OB!ScanPage
    <2>2. /\ obScan' \in Scans /\ obScan'.stable = obScan.stable /\ obScan'.seen = seen /\ obScan'.done = TRUE
      BY <1>0, <1>5, <2>1 DEF Scans
    <2>3. probe = rest
      <3>1. Cardinality(probe) < PageSize + 1
        BY <1>0, <1>2, <1>6
      <3> HIDE DEF rest
      <3> QED
        BY <1>0, <3>1, FirstByFacts
    <2>4. page = probe
      <3>1. Cardinality(probe) <= PageSize
        BY <1>0, <1>2, <1>6
      <3> HIDE DEF probe
      <3> QED
        BY <1>0, <1>1, <3>1, FirstByFacts
    <2>5. ASSUME NEW i \in obScan.stable PROVE seen[i] = 1
      <3>1. i \in OB!Active /\ i \in OB!Ids /\ obScan.seen[i] = IF OB!After(i, obScan.cursor) THEN 0 ELSE 1
        BY <1>0 DEF ScanOk, Scans
      <3>2. i \in page <=> OB!After(i, obScan.cursor)
        BY <2>3, <2>4, <3>1
      <3>3. seen[i] = obScan.seen[i] + IF i \in page THEN 1 ELSE 0
        BY <1>4, <3>1
      <3> HIDE DEF page
      <3> QED
        BY <3>1, <3>2, <3>3
    <2> QED
      BY <1>0, <1>3, <2>2, <2>5 DEF ScanOk
  <1>7. CASE Cardinality(probe) > PageSize
    <2>1. page # {}
      <3>1. ASSUME page = {} PROVE FALSE
        <4>1. Cardinality(page) < PageSize
          BY <1>0, <3>1, FS_EmptySet
        <4>2. page = probe
          <5> HIDE DEF probe
          <5> QED
            BY <1>0, <1>1, <4>1, FirstByFacts
        <4> HIDE DEF page, probe
        <4> QED
          BY <1>0, <1>2, <1>7, <4>1, <4>2
      <3> QED
        BY <3>1
    <2>2. PICK last \in page : /\ OB!Cursor(page) = [ts |-> obRows[last].ts, id |-> last]
                               /\ \A j \in page \ {last} : OB!Earlier(j, last)
      <3> HIDE DEF page
      <3> QED
        BY <1>0, <1>1, <2>1, CursorIsLast
    <2>3. PICK cur : cur = [ts |-> obRows[last].ts, id |-> last]
      OBVIOUS
    <2>4. last \in OB!Exists /\ obRows[last].ts \in Nat /\ last \in Nat /\ cur \in [ts : Nat, id : Nat]
      BY <1>0, <1>1, <2>3, EarlierOrders
    <2>5. obScan' = [obScan EXCEPT !.cursor = cur, !.seen = seen, !.done = FALSE]
      BY <1>4, <1>7, <2>2, <2>3, FiniteIsFinite DEF OB!ScanPage
    <2>6. /\ obScan' \in Scans /\ obScan'.stable = obScan.stable /\ obScan'.seen = seen /\ obScan'.done = FALSE
          /\ obScan'.on = obScan.on /\ obScan'.cursor = cur
      BY <1>0, <1>5, <2>4, <2>5 DEF Scans
    <2>7. ASSUME NEW i \in OB!Exists PROVE OB!After(i, cur) <=> OB!Earlier(last, i)
      <3>1. obRows[i].ts \in Nat /\ i \in Nat
        BY <1>0, EarlierOrders
      <3>2. cur.ts = obRows[last].ts /\ cur.id = last
        BY <2>3
      <3> QED
        BY <2>4, <3>1, <3>2 DEF OB!After, OB!Earlier
    <2>8. ASSUME NEW i \in OB!Exists, OB!Earlier(last, i) PROVE OB!After(i, obScan.cursor)
      <3>1. OB!After(last, obScan.cursor)
        BY <1>1, <2>2
      <3>2. /\ obRows[i].ts \in Nat /\ i \in Nat /\ obScan.cursor.ts \in Nat /\ obScan.cursor.id \in Nat
        BY <1>0, EarlierOrders DEF Scans
      <3> QED
        BY <2>4, <2>8, <3>1, <3>2 DEF OB!After, OB!Earlier
    <2>9. ASSUME NEW i \in rest PROVE i \in page <=> ~OB!Earlier(last, i)
      <3>1. ASSUME i \in page PROVE ~OB!Earlier(last, i)
        <4>1. i = last \/ OB!Earlier(i, last)
          BY <2>2, <3>1
        <4>2. i \in OB!Exists
          BY <1>0
        <4> QED
          BY <1>0, <2>4, <4>1, <4>2, EarlierOrders
      <3>2. ASSUME ~OB!Earlier(last, i) PROVE i \in page
        <4>1. i = last \/ OB!Earlier(i, last)
          BY <1>0, <2>4, <2>9, <3>2, EarlierOrders
        <4>2. CASE i = last
          BY <2>2, <4>2
        <4>3. CASE OB!Earlier(i, last)
          <5>1. last \in probe /\ last \in page
            BY <1>1, <2>2
          <5>2. i \in probe
            <6> HIDE DEF rest
            <6> QED
              BY <1>0, <2>9, <4>3, <5>1, FirstByFacts
          <5> HIDE DEF probe
          <5> QED
            BY <1>0, <1>1, <4>3, <5>1, <5>2, FirstByFacts
        <4> QED
          BY <4>1, <4>2, <4>3
      <3> QED
        BY <3>1, <3>2
    <2>10. ASSUME NEW i \in obScan.stable PROVE seen[i] = IF OB!After(i, cur) THEN 0 ELSE 1
      <3>1. i \in OB!Active /\ i \in OB!Exists /\ i \in OB!Ids /\ obScan.seen[i] = IF OB!After(i, obScan.cursor) THEN 0 ELSE 1
        BY <1>0 DEF ScanOk, Scans
      <3>2. seen[i] = obScan.seen[i] + IF i \in page THEN 1 ELSE 0
        BY <1>4, <3>1
      <3>3. i \in page => i \in rest
        BY <1>1
      <3>4. i \in rest <=> OB!After(i, obScan.cursor)
        BY <3>1
      <3>5. OB!After(i, cur) <=> OB!Earlier(last, i)
        BY <2>7, <3>1
      <3>6. OB!Earlier(last, i) => i \in rest
        BY <2>8, <3>1, <3>4
      <3>7. i \in rest => (i \in page <=> ~OB!Earlier(last, i))
        BY <2>9
      <3> HIDE DEF page, rest
      <3> QED
        BY <3>1, <3>2, <3>3, <3>4, <3>5, <3>6, <3>7
    <2> QED
      <3>1. \A i \in obScan.stable : seen[i] \in {0, 1} /\ (obScan'.on /\ ~obScan'.done => seen[i] = IF OB!After(i, obScan.cursor)' THEN 0 ELSE 1)
        BY <1>3, <2>6, <2>10
      <3> QED
        BY <1>0, <1>3, <2>6, <3>1 DEF ScanOk
  <1> QED
    BY <1>6, <1>7

-----------------------------------------------------------------------------
(* Writes.                                                                  *)

\* The reader goes on with the rows that nobody touched.
LEMMA ScanKept ==
  ASSUME ObservationTypes, ScanOk, obScan' \in Scans, obScan'.stable \subseteq obScan.stable,
         obScan'.on = obScan.on, obScan'.done = obScan.done, obScan'.cursor = obScan.cursor,
         obScan'.seen = obScan.seen,
         \A j \in obScan'.stable : /\ j \in OB!Exists => j \in OB!Exists'
                                   /\ obRows'[j].ts = obRows[j].ts /\ obRows'[j].archived = obRows[j].archived
  PROVE  ScanOk'
  <1>1. ASSUME NEW j \in obScan'.stable
        PROVE  /\ j \in OB!Active' /\ OB!After(j, obScan.cursor)' = OB!After(j, obScan.cursor)
               /\ obScan'.seen[j] = obScan.seen[j] /\ j \in obScan.stable
    <2>1. j \in obScan.stable /\ j \in OB!Active /\ j \in OB!Exists /\ ~obRows[j].archived
      BY DEF ScanOk, OB!Active
    <2>2. obRows'[j].ts = obRows[j].ts /\ obRows'[j].archived = obRows[j].archived /\ j \in OB!Exists'
      BY <2>1
    <2>3. j \in OB!Active'
      BY <2>1, <2>2 DEF OB!Active
    <2> QED
      BY <2>1, <2>2, <2>3 DEF OB!After
  <1> QED
    BY <1>1 DEF ScanOk

\* What the upserts rely on is kept.
LEMMA KeysKept ==
  ASSUME KeysOk, UNCHANGED obUpsert, obTwice' => obTwice, obOvertaken \subseteq obOvertaken',
         \A k \in obTold' : OB!Taken(k)',
         \A i, j \in OB!Exists' : OB!KeyOf(obRows'[i]) = OB!KeyOf(obRows'[j]) => i = j,
         \A u \in Sessions \ obOvertaken' : \A k, a :
            obUpsert[u].step = "select" /\ obUpsert[u].key = k /\ RowOf(k, a) => RowOf(k, a)'
  PROVE  KeysOk'
  <1>1. ASSUME NEW u \in Sessions \ obOvertaken' PROVE UpsertOk(obUpsert[u])'
    <2>1. PICK k, a : k = obUpsert[u].key /\ a = obUpsert[u].archived
      OBVIOUS
    <2>2. obUpsert'[u] = obUpsert[u]
      OBVIOUS
    <2>3. UpsertOk(obUpsert[u])
      BY DEF KeysOk
    <2>4. obUpsert[u].step = "select" => RowOf(k, a)'
      BY <2>1, <2>3 DEF UpsertOk
    <2>5. RowOf(obUpsert[u].key, obUpsert[u].archived)' = RowOf(k, a)'
      BY <2>1, <2>2 DEF RowOf
    <2> QED
      BY <2>2, <2>3, <2>4, <2>5 DEF UpsertOk
  <1> QED
    BY <1>1 DEF KeysOk

\* Nothing happened to the table.
LEMMA ObservationsFrame ==
  ASSUME ObservationsInv, UNCHANGED <<obRows, obNextId, obUpsert, obScan, OB!history>>, obEvents' \subseteq OB!Ids
  PROVE  ObservationsInv'
  <1>1. ObservationTypes' /\ OB!Exists' = OB!Exists
    BY DEF ObservationsInv, ObservationTypes, OB!Exists
  <1>2. KeysOk'
    BY DEF ObservationsInv, KeysOk, UpsertOk, RowOf, OB!Taken, OB!Exists, OB!history
  <1>3. ScanOk'
    BY DEF ObservationsInv, ScanOk, OB!Active, OB!Exists, OB!After
  <1> QED
    BY <1>1, <1>2, <1>3 DEF ObservationsInv

\* Rows with new keys are added; none is archived.
LEMMA RowsAdded ==
  ASSUME ObservationsInv, NEW New \in SUBSET OB!Ids, New \cap OB!Exists = {}, obNextId' \in Nat, obNextId' >= obNextId,
         \A i \in New : i < obNextId', DOMAIN obRows' = OB!Exists \cup New,
         obRows' = [i \in OB!Exists \cup New |-> obRows'[i]],
         \A i \in OB!Exists : obRows'[i] = obRows[i],
         \A i \in New : obRows'[i] \in OB!Row /\ ~OB!Taken(OB!KeyOf(obRows'[i])),
         \A i, j \in New : OB!KeyOf(obRows'[i]) = OB!KeyOf(obRows'[j]) => i = j,
         UNCHANGED obScan, obUpsert' \in [Sessions -> Upserts], obEvents' \subseteq OB!Ids
  PROVE  /\ ObservationTypes' /\ ScanOk' /\ OB!Exists' = OB!Exists \cup New
         /\ \A k : OB!Taken(k) => OB!Taken(k)'
         /\ \A k, a : RowOf(k, a) => RowOf(k, a)'
         /\ \A i, j \in OB!Exists' : OB!KeyOf(obRows'[i]) = OB!KeyOf(obRows'[j]) => i = j
  <1>0. ObservationTypes /\ KeysOk /\ ScanOk
    BY DEF ObservationsInv
  <1>1. OB!Exists' = OB!Exists \cup New
    BY DEF OB!Exists
  <1>2. ObservationTypes'
    <2>1. ASSUME NEW i \in OB!Exists' PROVE obRows'[i] \in OB!Row /\ i < obNextId' /\ i \in OB!Ids
      <3>1. CASE i \in OB!Exists
        <4>1. obRows[i] \in OB!Row /\ i < obNextId /\ i \in OB!Ids /\ obNextId \in Nat /\ i \in Int
          BY <1>0, <3>1 DEF ObservationTypes, OB!Ids
        <4> QED
          BY <3>1, <4>1
      <3>2. CASE i \in New
        BY <3>2
      <3> QED
        BY <1>1, <3>1, <3>2
    <2>2. obNextId' >= 1 /\ obScan' \in Scans
      BY <1>0 DEF ObservationTypes
    <2> QED
      BY <1>1, <2>1, <2>2 DEF ObservationTypes
  <1>3. ScanOk'
    <2>1. \A j \in obScan.stable : j \in OB!Exists
      BY <1>0 DEF ScanOk, OB!Active
    <2> QED
      BY <1>0, <1>1, <2>1, ScanKept DEF ObservationTypes
  <1>4. \A k : OB!Taken(k) => OB!Taken(k)'
    BY <1>1 DEF OB!Taken
  <1>5. \A k, a : RowOf(k, a) => RowOf(k, a)'
    BY <1>1 DEF RowOf
  <1>6. ASSUME NEW i \in OB!Exists', NEW j \in OB!Exists', OB!KeyOf(obRows'[i]) = OB!KeyOf(obRows'[j])
        PROVE  i = j
    <2>1. ~(i \in OB!Exists /\ j \in New) /\ ~(j \in OB!Exists /\ i \in New)
      BY <1>6 DEF OB!Taken
    <2> QED
      BY <1>0, <1>1, <1>6, <2>1 DEF KeysOk
  <1> QED
    BY <1>1, <1>2, <1>3, <1>4, <1>5, <1>6

\* One row is inserted.
LEMMA InsertAdds ==
  ASSUME ObservationsInv, OB!MayWrite, NEW s \in Sessions, NEW t \in Stamps,
         NEW tenant \in Tenants \cup {OB!NoTenant}, OB!Insert(s, t, tenant), ~OB!Taken(<<s, t>>),
         UNCHANGED obScan, obUpsert' \in [Sessions -> Upserts], obEvents' \subseteq OB!Ids
  PROVE  /\ ObservationTypes' /\ ScanOk'
         /\ \A k : OB!Taken(k) => OB!Taken(k)'
         /\ \A k, a : RowOf(k, a) => RowOf(k, a)'
         /\ \A i, j \in OB!Exists' : OB!KeyOf(obRows'[i]) = OB!KeyOf(obRows'[j]) => i = j
         /\ OB!Taken(<<s, t>>)' /\ obNextId \in OB!Ids
  <1>0. /\ obNextId \in Nat /\ obNextId >= 1 /\ obNextId <= MaxObservations /\ MaxObservations \in Nat
        /\ \A i \in OB!Exists : i < obNextId /\ i \in Int
    BY ObservationsAssumption DEF ObservationsInv, ObservationTypes, OB!MayWrite, OB!Ids
  <1>1. PICK r : r = [source |-> s, ts |-> t, tenant |-> tenant, processed |-> FALSE, archived |-> FALSE]
    OBVIOUS
  <1>2. r \in OB!Row /\ OB!KeyOf(r) = <<s, t>>
    BY <1>1 DEF OB!Row, OB!KeyOf
  <1>3. /\ obRows' = [i \in OB!Exists \cup {obNextId} |-> IF i = obNextId THEN r ELSE obRows[i]]
        /\ obNextId' = obNextId + 1
    BY <1>1 DEF OB!Insert
  <1>4. obNextId \in OB!Ids /\ obNextId \notin OB!Exists /\ obNextId' \in Nat /\ obNextId' >= obNextId /\ obNextId < obNextId'
    BY <1>0, <1>3 DEF OB!Ids
  <1>5. /\ DOMAIN obRows' = OB!Exists \cup {obNextId} /\ obRows' = [i \in OB!Exists \cup {obNextId} |-> obRows'[i]]
        /\ obRows'[obNextId] = r /\ \A i \in OB!Exists : obRows'[i] = obRows[i]
    BY <1>3, <1>4
  <1>6. PICK n : n = obNextId
    OBVIOUS
  <1>7. /\ ObservationTypes' /\ ScanOk' /\ OB!Exists' = OB!Exists \cup {n}
        /\ \A k : OB!Taken(k) => OB!Taken(k)'
        /\ \A k, a : RowOf(k, a) => RowOf(k, a)'
        /\ \A i, j \in OB!Exists' : OB!KeyOf(obRows'[i]) = OB!KeyOf(obRows'[j]) => i = j
    <2>1. /\ {n} \in SUBSET OB!Ids /\ {n} \cap OB!Exists = {}
          /\ \A i \in {n} : i < obNextId' /\ obRows'[i] \in OB!Row /\ ~OB!Taken(OB!KeyOf(obRows'[i]))
          /\ \A i, j \in {n} : OB!KeyOf(obRows'[i]) = OB!KeyOf(obRows'[j]) => i = j
      BY <1>2, <1>4, <1>5, <1>6
    <2>2. DOMAIN obRows' = OB!Exists \cup {n} /\ obRows' = [i \in OB!Exists \cup {n} |-> obRows'[i]]
      BY <1>5, <1>6
    <2> QED
      BY <1>4, <1>5, <2>1, <2>2, RowsAdded
  <1>8. OB!Taken(<<s, t>>)'
    BY <1>2, <1>5, <1>6, <1>7 DEF OB!Taken
  <1> QED
    BY <1>4, <1>7, <1>8

\* create_observation.
LEMMA CreateKeeps ==
  ASSUME ObservationsInv, NEW s \in OB!Names, NEW t \in Stamps \cup {Clock + 1}, NEW tn \in Tenants,
         OB!CreateObservation(s, t, tn)
  PROVE  ObservationsInv'
  <1>0. obUpsert \in [Sessions -> Upserts] /\ obEvents \subseteq OB!Ids /\ KeysOk
    BY DEF ObservationsInv, ObservationTypes
  <1>1. CASE UNCHANGED <<obRows, obNextId, obEvents, obWrites>>
    BY <1>0, <1>1, ObservationsFrame DEF OB!CreateObservation
  <1>2. CASE /\ OB!ValidRequest(s, t) /\ OB!ResolveSourceId(s) /\ ~OB!Taken(<<s, t>>) /\ OB!Insert(s, t, tn)
             /\ obEvents' = obEvents \cup {obNextId}
    <2>1. s \in Sessions /\ t \in Stamps /\ UNCHANGED <<obUpsert, obScan, OB!history>> /\ OB!MayWrite
      BY <1>2, ObservationsAssumption DEF OB!ValidRequest, OB!ResolveSourceId, OB!Names, OB!CreateObservation
    <2>2. obNextId \in OB!Ids
      BY <2>1, ObservationsAssumption DEF ObservationsInv, ObservationTypes, OB!MayWrite, OB!Ids
    <2>3. obEvents' \subseteq OB!Ids /\ obUpsert' \in [Sessions -> Upserts]
      BY <1>0, <1>2, <2>1, <2>2
    <2>4. /\ ObservationTypes' /\ ScanOk'
          /\ \A k : OB!Taken(k) => OB!Taken(k)'
          /\ \A k, a : RowOf(k, a) => RowOf(k, a)'
          /\ \A i, j \in OB!Exists' : OB!KeyOf(obRows'[i]) = OB!KeyOf(obRows'[j]) => i = j
      BY <1>2, <2>1, <2>3, InsertAdds
    <2>5. KeysOk'
      <3>1. UNCHANGED <<obUpsert, obTwice, obTold, obOvertaken>>
        BY <2>1 DEF OB!history
      <3>2. \A k \in obTold' : OB!Taken(k)'
        BY <1>0, <2>4, <3>1 DEF KeysOk
      <3> QED
        BY <1>0, <2>4, <3>1, <3>2, KeysKept
    <2> QED
      BY <2>4, <2>5 DEF ObservationsInv
  <1> QED
    BY <1>1, <1>2 DEF OB!CreateObservation

\* A batch is inserted as a whole or not at all.
LEMMA BatchKeeps ==
  ASSUME ObservationsInv, NEW k1 \in OB!Names \X Stamps, NEW k2 \in OB!Names \X Stamps,
         OB!CreateObservationsBatch(k1, k2, OB!NoTenant)
  PROVE  ObservationsInv'
  <1>0. obUpsert \in [Sessions -> Upserts] /\ obEvents \subseteq OB!Ids /\ KeysOk
    BY DEF ObservationsInv, ObservationTypes
  <1>1. CASE UNCHANGED <<obRows, obNextId, obWrites>>
    BY <1>0, <1>1, ObservationsFrame DEF OB!CreateObservationsBatch
  <1>2. CASE /\ \A k \in {k1, k2} : OB!ResolveSourceId(k[1]) /\ ~OB!Taken(k)
             /\ k1 # k2
             /\ OB!InsertBatch(k1, k2, OB!NoTenant)
    <2>0. /\ obNextId \in Nat /\ obNextId >= 1 /\ obNextId + 1 <= MaxObservations /\ MaxObservations \in Nat
          /\ \A i \in OB!Exists : i < obNextId /\ i \in Int
          /\ UNCHANGED <<obUpsert, obScan, obEvents, OB!history>>
      BY ObservationsAssumption DEF ObservationsInv, ObservationTypes, OB!CreateObservationsBatch, OB!Ids
    <2>1. ASSUME NEW k \in {k1, k2}
          PROVE  [source |-> k[1], ts |-> k[2], tenant |-> OB!NoTenant, processed |-> FALSE, archived |-> FALSE] \in OB!Row
      <3>1. k[1] \in OB!Names /\ k[1] # Unregistered /\ k[2] \in Stamps
        BY <1>2 DEF OB!ResolveSourceId
      <3> QED
        BY <3>1 DEF OB!Names, OB!Row
    <2>2. PICK r1 : r1 = [source |-> k1[1], ts |-> k1[2], tenant |-> OB!NoTenant, processed |-> FALSE, archived |-> FALSE]
      OBVIOUS
    <2>3. PICK r2 : r2 = [source |-> k2[1], ts |-> k2[2], tenant |-> OB!NoTenant, processed |-> FALSE, archived |-> FALSE]
      OBVIOUS
    <2>4. r1 \in OB!Row /\ OB!KeyOf(r1) = k1 /\ r2 \in OB!Row /\ OB!KeyOf(r2) = k2
      <3>1. k1 = <<k1[1], k1[2]>> /\ k2 = <<k2[1], k2[2]>>
        OBVIOUS
      <3> QED
        BY <2>1, <2>2, <2>3, <3>1 DEF OB!KeyOf
    <2>5. PICK a : a = obNextId
      OBVIOUS
    <2>6. PICK b : b = obNextId + 1
      OBVIOUS
    <2>7. /\ obRows' = [i \in OB!Exists \cup {a, b} |-> IF i = a THEN r1 ELSE IF i = b THEN r2 ELSE obRows[i]]
          /\ obNextId' = obNextId + 2
      <3>1. a # b
        BY <2>0, <2>5, <2>6
      <3>2. /\ obRows' = [i \in OB!Exists \cup {a, b} |-> CASE i = a -> r1 [] i = b -> r2 [] OTHER -> obRows[i]]
            /\ obNextId' = obNextId + 2
        BY <1>2, <2>2, <2>3, <2>5, <2>6 DEF OB!InsertBatch
      <3> QED
        BY <3>1, <3>2
    <2>8. /\ a \in OB!Ids /\ b \in OB!Ids /\ a \notin OB!Exists /\ b \notin OB!Exists /\ a # b
          /\ obNextId' \in Nat /\ obNextId' >= obNextId /\ a < obNextId' /\ b < obNextId'
      BY <2>0, <2>5, <2>6, <2>7 DEF OB!Ids
    <2>9. /\ DOMAIN obRows' = OB!Exists \cup {a, b} /\ obRows' = [i \in OB!Exists \cup {a, b} |-> obRows'[i]]
          /\ obRows'[a] = r1 /\ obRows'[b] = r2 /\ \A i \in OB!Exists : obRows'[i] = obRows[i]
      BY <2>7, <2>8
    <2>10. /\ {a, b} \in SUBSET OB!Ids /\ {a, b} \cap OB!Exists = {}
           /\ \A i \in {a, b} : i < obNextId' /\ obRows'[i] \in OB!Row /\ ~OB!Taken(OB!KeyOf(obRows'[i]))
           /\ \A i, j \in {a, b} : OB!KeyOf(obRows'[i]) = OB!KeyOf(obRows'[j]) => i = j
      BY <1>2, <2>4, <2>8, <2>9
    <2>11. obUpsert' \in [Sessions -> Upserts] /\ obEvents' \subseteq OB!Ids
      BY <1>0, <2>0
    <2>12. /\ ObservationTypes' /\ ScanOk'
           /\ \A k : OB!Taken(k) => OB!Taken(k)'
           /\ \A k, x : RowOf(k, x) => RowOf(k, x)'
           /\ \A i, j \in OB!Exists' : OB!KeyOf(obRows'[i]) = OB!KeyOf(obRows'[j]) => i = j
      BY <2>0, <2>8, <2>9, <2>10, <2>11, RowsAdded
    <2>13. KeysOk'
      <3>1. UNCHANGED <<obUpsert, obTwice, obTold, obOvertaken>>
        BY <2>0 DEF OB!history
      <3>2. \A k \in obTold' : OB!Taken(k)'
        BY <1>0, <2>12, <3>1 DEF KeysOk
      <3> QED
        BY <1>0, <2>12, <3>1, <3>2, KeysKept
    <2> QED
      BY <2>12, <2>13 DEF ObservationsInv
  <1> QED
    BY <1>1, <1>2 DEF OB!CreateObservationsBatch

\* One row is changed or taken away: the upserts that ran into it are overtaken, and
\* the reader is told.
LEMMA RowTouched ==
  ASSUME ObservationsInv, NEW i \in OB!Exists, UNCHANGED <<obNextId, obUpsert, obEvents, obTwice>>, OB!Disturbed({i}),
         DOMAIN obRows' \subseteq OB!Exists, OB!Exists \ {i} \subseteq DOMAIN obRows',
         obRows' = [j \in DOMAIN obRows' |-> obRows'[j]],
         \A j \in OB!Exists \ {i} : obRows'[j] = obRows[j],
         i \in DOMAIN obRows' => /\ obRows'[i] \in OB!Row
                                 /\ \A j \in OB!Exists \ {i} : OB!KeyOf(obRows[j]) # OB!KeyOf(obRows'[i]),
         obTold' \subseteq obTold, OB!Overtakes(OB!KeyOf(obRows[i])),
         \A k \in obTold' : k # OB!KeyOf(obRows[i]) \/ OB!Taken(k)'
  PROVE  ObservationsInv'
  <1>0. ObservationTypes /\ KeysOk /\ ScanOk /\ obScan \in Scans
    BY DEF ObservationsInv, ObservationTypes
  <1>1. OB!Exists' = DOMAIN obRows'
    BY DEF OB!Exists
  <1>2. /\ obScan' \in Scans /\ obScan'.stable = obScan.stable \ {i}
        /\ obScan'.on = obScan.on /\ obScan'.done = obScan.done /\ obScan'.cursor = obScan.cursor
        /\ obScan'.seen = obScan.seen
    BY <1>0 DEF OB!Disturbed, Scans
  <1>3. ObservationTypes'
    <2>1. ASSUME NEW j \in OB!Exists' PROVE obRows'[j] \in OB!Row /\ j < obNextId' /\ j \in OB!Ids
      <3>1. j \in OB!Exists /\ obRows[j] \in OB!Row /\ j < obNextId /\ j \in OB!Ids
        BY <1>0, <1>1 DEF ObservationTypes
      <3>2. obRows'[j] \in OB!Row
        BY <1>1, <3>1
      <3> QED
        BY <3>1, <3>2
    <2> QED
      BY <1>0, <1>1, <1>2, <2>1 DEF ObservationTypes
  <1>4. ScanOk'
    <2>1. ASSUME NEW j \in obScan'.stable
          PROVE  /\ j \in OB!Exists => j \in OB!Exists'
                 /\ obRows'[j].ts = obRows[j].ts /\ obRows'[j].archived = obRows[j].archived
      <3>1. j \in OB!Exists /\ j # i
        BY <1>0, <1>2 DEF ScanOk, OB!Active
      <3> QED
        BY <1>1, <3>1
    <2>2. obScan'.stable \subseteq obScan.stable
      BY <1>2
    <2> QED
      BY <1>0, <1>2, <2>1, <2>2, ScanKept
  <1>5. \A k \in obTold' : OB!Taken(k)'
    <2>1. ASSUME NEW k \in obTold', k # OB!KeyOf(obRows[i]) PROVE OB!Taken(k)'
      <3>1. PICK j \in OB!Exists : OB!KeyOf(obRows[j]) = k
        BY <1>0 DEF KeysOk, OB!Taken
      <3>2. j # i
        BY <2>1, <3>1
      <3>3. j \in OB!Exists' /\ obRows'[j] = obRows[j]
        BY <1>1, <3>2
      <3> QED
        BY <3>1, <3>3 DEF OB!Taken
    <2> QED
      BY <2>1
  <1>6. ASSUME NEW j \in OB!Exists', NEW m \in OB!Exists', OB!KeyOf(obRows'[j]) = OB!KeyOf(obRows'[m])
        PROVE  j = m
    <2>1. j \in OB!Exists /\ m \in OB!Exists
      BY <1>1
    <2>2. CASE j # i /\ m # i
      <3>1. OB!KeyOf(obRows[j]) = OB!KeyOf(obRows[m])
        BY <1>6, <2>1, <2>2
      <3> QED
        BY <1>0, <2>1, <3>1 DEF KeysOk
    <2>3. CASE j = i /\ m # i
      BY <1>1, <1>6, <2>1, <2>3
    <2>4. CASE j # i /\ m = i
      BY <1>1, <1>6, <2>1, <2>4
    <2> QED
      BY <2>2, <2>3, <2>4
  <1>7. ASSUME NEW u \in Sessions \ obOvertaken', NEW k, NEW a,
               obUpsert[u].step = "select", obUpsert[u].key = k, RowOf(k, a)
        PROVE  RowOf(k, a)'
    <2>1. k # OB!KeyOf(obRows[i])
      BY <1>7 DEF OB!Overtakes
    <2>2. PICK j \in OB!Exists : OB!KeyOf(obRows[j]) = k /\ obRows[j].archived = a
      BY <1>7 DEF RowOf
    <2>3. j # i
      BY <2>1, <2>2
    <2>4. j \in OB!Exists' /\ obRows'[j] = obRows[j]
      BY <1>1, <2>3
    <2> QED
      BY <2>2, <2>4 DEF RowOf
  <1>8. KeysOk'
    <2>1. obOvertaken \subseteq obOvertaken' /\ UNCHANGED <<obUpsert, obTwice>>
      BY DEF OB!Overtakes
    <2> QED
      BY <1>0, <1>5, <1>6, <1>7, <2>1, KeysKept
  <1> QED
    BY <1>3, <1>4, <1>8 DEF ObservationsInv

\* A change of one row that finds no row, or is refused, changes nothing.
LEMMA RefusedKeeps ==
  ASSUME ObservationsInv, UNCHANGED <<obRows, obScan, obWrites, OB!history>>, UNCHANGED <<obNextId, obUpsert, obEvents>>
  PROVE  ObservationsInv'
  BY ObservationsFrame DEF ObservationsInv, ObservationTypes

\* update_observation: the row takes another key.
LEMMA UpdateKeeps ==
  ASSUME ObservationsInv, NEW i \in OB!Ids, NEW s \in OB!Names, NEW t \in Stamps \cup {Clock + 1},
         OB!UpdateObservationEndpoint(i, s, t)
  PROVE  ObservationsInv'
  <1>0. UNCHANGED <<obNextId, obUpsert, obEvents>>
    BY DEF OB!UpdateObservationEndpoint
  <1>1. CASE UNCHANGED <<obRows, obScan, obWrites, OB!history>>
    BY <1>0, <1>1, RefusedKeeps
  <1>2. CASE /\ OB!ValidUpdate(t) /\ i \in OB!Exists /\ OB!ResolveSourceId(s) /\ OB!UpdateObservation(i, s, t)
             /\ \A j \in OB!Exists \ {i} : OB!KeyOf(obRows[j]) # <<s, t>>
    <2>1. s \in Sessions /\ t \in Stamps
      BY <1>2, ObservationsAssumption DEF OB!ValidUpdate, OB!ResolveSourceId, OB!Names
    <2>2. obRows[i] \in OB!Row /\ obRows = [j \in OB!Exists |-> obRows[j]]
      BY <1>2 DEF ObservationsInv, ObservationTypes
    <2>3. obRows' = [obRows EXCEPT ![i] = [[@ EXCEPT !.source = s] EXCEPT !.ts = t]]
      BY <1>2 DEF OB!UpdateObservation
    <2>4. PICK r : r = [[obRows[i] EXCEPT !.source = s] EXCEPT !.ts = t]
      OBVIOUS
    <2>5. r \in OB!Row /\ OB!KeyOf(r) = <<s, t>>
      BY <2>1, <2>2, <2>4 DEF OB!Row, OB!KeyOf
    <2>6. /\ DOMAIN obRows' = OB!Exists /\ obRows'[i] = r /\ \A j \in OB!Exists \ {i} : obRows'[j] = obRows[j]
          /\ obRows' = [j \in DOMAIN obRows' |-> obRows'[j]]
      BY <1>2, <2>2, <2>3, <2>4
    <2>7. /\ OB!Disturbed({i}) /\ obTold' = obTold \ {OB!KeyOf(obRows[i])} /\ obTwice' = obTwice
          /\ OB!Overtakes(OB!KeyOf(obRows[i]))
      BY <1>2 DEF OB!UpdateObservation, OB!Frees
    <2>8. obRows'[i] \in OB!Row /\ \A j \in OB!Exists \ {i} : OB!KeyOf(obRows[j]) # OB!KeyOf(obRows'[i])
      BY <1>2, <2>5, <2>6
    <2>9. obTold' \subseteq obTold /\ \A k \in obTold' : k # OB!KeyOf(obRows[i]) \/ OB!Taken(k)'
      BY <2>7
    <2> QED
      BY <1>0, <1>2, <2>6, <2>7, <2>8, <2>9, RowTouched
  <1> QED
    BY <1>1, <1>2 DEF OB!UpdateObservationEndpoint, OB!NotFound

\* mark_processed: no key changes.
LEMMA ProcessKeeps ==
  ASSUME ObservationsInv, NEW i \in OB!Ids, OB!ProcessObservation(i)
  PROVE  ObservationsInv'
  <1>0. UNCHANGED <<obNextId, obUpsert, obEvents>> /\ ObservationTypes /\ KeysOk /\ ScanOk
    BY DEF OB!ProcessObservation, ObservationsInv
  <1>1. CASE UNCHANGED <<obRows, obScan, obWrites, OB!history>>
    BY <1>0, <1>1, RefusedKeeps
  <1>2. CASE i \in OB!Exists /\ OB!MarkProcessed(i)
    <2>1. obRows[i] \in OB!Row /\ obRows = [j \in OB!Exists |-> obRows[j]]
      BY <1>0, <1>2 DEF ObservationTypes
    <2>2. obRows' = [obRows EXCEPT ![i] = [@ EXCEPT !.processed = TRUE]] /\ UNCHANGED <<obScan, OB!history>>
      BY <1>2 DEF OB!MarkProcessed
    <2>3. PICK r : r = [obRows[i] EXCEPT !.processed = TRUE]
      OBVIOUS
    <2>4. r \in OB!Row /\ r.archived = obRows[i].archived /\ OB!KeyOf(r) = OB!KeyOf(obRows[i]) /\ r.ts = obRows[i].ts
      BY <2>1, <2>3 DEF OB!Row, OB!KeyOf
    <2>5. /\ DOMAIN obRows' = OB!Exists /\ obRows'[i] = r /\ \A j \in OB!Exists \ {i} : obRows'[j] = obRows[j]
          /\ obRows' = [j \in DOMAIN obRows' |-> obRows'[j]]
      BY <1>2, <2>1, <2>2, <2>3
    <2>6. OB!Exists' = OB!Exists
      BY <2>5 DEF OB!Exists
    <2>7. ASSUME NEW j \in OB!Exists
          PROVE  /\ obRows'[j] \in OB!Row /\ obRows'[j].archived = obRows[j].archived
                 /\ OB!KeyOf(obRows'[j]) = OB!KeyOf(obRows[j]) /\ obRows'[j].ts = obRows[j].ts
      <3>1. obRows[j] \in OB!Row
        BY <1>0 DEF ObservationTypes
      <3>2. CASE j = i
        BY <2>4, <2>5, <3>2
      <3>3. CASE j # i
        <4>1. obRows'[j] = obRows[j]
          BY <2>5, <3>3
        <4> QED
          BY <3>1, <4>1
      <3> QED
        BY <3>2, <3>3
    <2>8. ObservationTypes'
      BY <1>0, <2>2, <2>5, <2>6, <2>7 DEF ObservationTypes
    <2>9. ScanOk'
      <3>1. \A j \in obScan.stable : j \in OB!Exists
        BY <1>0 DEF ScanOk, OB!Active
      <3>2. obScan' = obScan /\ obScan \in Scans
        BY <1>0, <2>2 DEF ObservationTypes
      <3> QED
        BY <1>0, <2>6, <2>7, <3>1, <3>2, ScanKept
    <2>10. \A k : OB!Taken(k)' = OB!Taken(k)
      BY <2>6, <2>7 DEF OB!Taken
    <2>11. \A k, a : RowOf(k, a)' = RowOf(k, a)
      BY <2>6, <2>7 DEF RowOf
    <2>12. obTold' = obTold /\ obOvertaken' = obOvertaken /\ obTwice' = obTwice
      BY <2>2 DEF OB!history
    <2>13. \A j, m \in OB!Exists' : OB!KeyOf(obRows'[j]) = OB!KeyOf(obRows'[m]) => j = m
      BY <1>0, <2>6, <2>7 DEF KeysOk
    <2>14. \A k \in obTold' : OB!Taken(k)'
      BY <1>0, <2>10, <2>12 DEF KeysOk
    <2>15. KeysOk'
      BY <1>0, <2>11, <2>12, <2>13, <2>14, KeysKept
    <2> QED
      BY <2>8, <2>9, <2>15 DEF ObservationsInv
  <1> QED
    BY <1>1, <1>2 DEF OB!ProcessObservation, OB!NotFound

\* soft_delete: the row keeps its key.
LEMMA ArchiveKeeps ==
  ASSUME ObservationsInv, NEW i \in OB!Ids, OB!ArchiveObservation(i)
  PROVE  ObservationsInv'
  <1>0. UNCHANGED <<obNextId, obUpsert, obEvents>>
    BY DEF OB!ArchiveObservation
  <1>1. CASE UNCHANGED <<obRows, obScan, obWrites, OB!history>>
    BY <1>0, <1>1, RefusedKeeps
  <1>2. CASE i \in OB!Active /\ OB!SoftDeleteObservation(i)
    <2>0. i \in OB!Exists
      BY <1>2 DEF OB!Active
    <2>1. obRows[i] \in OB!Row /\ obRows = [j \in OB!Exists |-> obRows[j]]
      BY <2>0 DEF ObservationsInv, ObservationTypes
    <2>2. /\ obRows' = [obRows EXCEPT ![i] = [@ EXCEPT !.archived = TRUE]]
          /\ OB!Disturbed({i}) /\ OB!Overtakes(OB!KeyOf(obRows[i])) /\ obTold' = obTold /\ obTwice' = obTwice
      BY <1>2 DEF OB!SoftDeleteObservation
    <2>3. PICK r : r = [obRows[i] EXCEPT !.archived = TRUE]
      OBVIOUS
    <2>4. r \in OB!Row /\ OB!KeyOf(r) = OB!KeyOf(obRows[i])
      BY <2>1, <2>3 DEF OB!Row, OB!KeyOf
    <2>5. /\ DOMAIN obRows' = OB!Exists /\ obRows'[i] = r /\ \A j \in OB!Exists \ {i} : obRows'[j] = obRows[j]
          /\ obRows' = [j \in DOMAIN obRows' |-> obRows'[j]]
      BY <2>0, <2>1, <2>2, <2>3
    <2>6. OB!KeyOf(obRows'[i]) = OB!KeyOf(obRows[i]) /\ OB!Exists' = OB!Exists
      BY <2>4, <2>5 DEF OB!Exists
    <2>7. PICK k0 : k0 = OB!KeyOf(obRows[i])
      OBVIOUS
    <2>8. OB!Taken(k0)'
      BY <2>0, <2>6, <2>7 DEF OB!Taken
    <2>9. \A k \in obTold' : k # OB!KeyOf(obRows[i]) \/ OB!Taken(k)'
      BY <2>7, <2>8
    <2>10. obRows'[i] \in OB!Row /\ \A j \in OB!Exists \ {i} : OB!KeyOf(obRows[j]) # OB!KeyOf(obRows'[i])
      BY <2>0, <2>4, <2>5 DEF ObservationsInv, KeysOk
    <2> QED
      BY <1>0, <2>0, <2>2, <2>5, <2>9, <2>10, RowTouched
  <1> QED
    BY <1>1, <1>2 DEF OB!ArchiveObservation, OB!NotFound

\* delete_observation.
LEMMA DeleteKeeps ==
  ASSUME ObservationsInv, NEW i \in OB!Ids, OB!DeleteObservationEndpoint(i)
  PROVE  ObservationsInv'
  <1>0. UNCHANGED <<obNextId, obUpsert, obEvents>>
    BY DEF OB!DeleteObservationEndpoint
  <1>1. CASE UNCHANGED <<obRows, obScan, obWrites, OB!history>>
    BY <1>0, <1>1, RefusedKeeps
  <1>2. CASE i \in OB!Exists /\ OB!DeleteObservation(i)
    <2>1. /\ obRows' = [j \in OB!Exists \ {i} |-> obRows[j]] /\ OB!Disturbed({i})
          /\ obTold' = obTold \ {OB!KeyOf(obRows[i])} /\ obTwice' = obTwice
          /\ OB!Overtakes(OB!KeyOf(obRows[i]))
      BY <1>2 DEF OB!DeleteObservation, OB!Frees
    <2>2. /\ DOMAIN obRows' = OB!Exists \ {i} /\ \A j \in OB!Exists \ {i} : obRows'[j] = obRows[j]
          /\ obRows' = [j \in DOMAIN obRows' |-> obRows'[j]]
      BY <2>1
    <2>3. /\ obTold' \subseteq obTold
          /\ \A k \in obTold' : k # OB!KeyOf(obRows[i]) \/ OB!Taken(k)'
          /\ i \notin DOMAIN obRows' /\ DOMAIN obRows' \subseteq OB!Exists /\ OB!Exists \ {i} \subseteq DOMAIN obRows'
      BY <2>1, <2>2
    <2> QED
      BY <1>0, <1>2, <2>1, <2>2, <2>3, RowTouched
  <1> QED
    BY <1>1, <1>2 DEF OB!DeleteObservationEndpoint, OB!NotFound

-----------------------------------------------------------------------------
(* Upserts, the reader and the reads.                                       *)

\* A read answers and changes nothing.
LEMMA ReadKeeps ==
  ASSUME ObservationsInv, UNCHANGED <<obRows, obNextId, obUpsert, obScan, obEvents, obWrites, OB!history>>
  PROVE  ObservationsInv'
  BY ObservationsFrame DEF ObservationsInv, ObservationTypes

\* A client turns to another step of its upsert.
LEMMA UpsertTurns ==
  ASSUME ObservationsInv, UNCHANGED <<obRows, obNextId, obScan, obEvents, obTold, obTwice>>, NEW u \in Sessions,
         NEW r \in Upserts, obUpsert' = [obUpsert EXCEPT ![u] = r],
         obOvertaken \subseteq obOvertaken' \cup {u}, u \in obOvertaken' \/ UpsertOk(r)
  PROVE  ObservationsInv'
  <1>0. ObservationTypes /\ KeysOk /\ ScanOk
    BY DEF ObservationsInv
  <1>1. /\ obUpsert' \in [Sessions -> Upserts] /\ obUpsert'[u] = r
        /\ \A v \in Sessions : v # u => obUpsert'[v] = obUpsert[v]
    BY <1>0 DEF ObservationTypes
  <1>2. OB!Exists' = OB!Exists /\ OB!Active' = OB!Active /\ (\A k : OB!Taken(k)' = OB!Taken(k)) /\ (\A k, a : RowOf(k, a)' = RowOf(k, a))
    BY DEF OB!Exists, OB!Active, OB!Taken, RowOf
  <1>3. ObservationTypes'
    BY <1>0, <1>1, <1>2 DEF ObservationTypes
  <1>4. ScanOk'
    BY <1>0, <1>2 DEF ScanOk, OB!After
  <1>5. ASSUME NEW v \in Sessions \ obOvertaken' PROVE UpsertOk(obUpsert'[v])
    <2>1. CASE v = u
      BY <1>1, <2>1
    <2>2. CASE v # u
      <3>1. obUpsert'[v] = obUpsert[v] /\ v \notin obOvertaken
        BY <1>1, <2>2
      <3> QED
        BY <1>0, <3>1 DEF KeysOk
    <2> QED
      BY <2>1, <2>2
  <1>6. ASSUME NEW v \in Sessions \ obOvertaken' PROVE UpsertOk(obUpsert[v])'
    <2>1. PICK k, a : k = obUpsert'[v].key /\ a = obUpsert'[v].archived
      OBVIOUS
    <2>2. obUpsert'[v].step = "select" => RowOf(k, a)
      BY <1>5, <2>1 DEF UpsertOk
    <2>3. RowOf(obUpsert[v].key, obUpsert[v].archived)' = RowOf(k, a)'
      BY <2>1 DEF RowOf
    <2>4. RowOf(k, a)' = RowOf(k, a)
      BY <1>2
    <2> QED
      BY <1>5, <2>2, <2>3, <2>4 DEF UpsertOk
  <1>7. KeysOk'
    BY <1>0, <1>2, <1>6 DEF KeysOk
  <1> QED
    BY <1>3, <1>4, <1>7 DEF ObservationsInv

\* The INSERT of an upsert: the key was free and nobody was told of it, or there
\* is a row, which is active or archived.
LEMMA UpsertInsertKeeps ==
  ASSUME ObservationsInv, NEW u \in Sessions, NEW s \in OB!Names, NEW t \in Stamps, OB!UpsertInsert(u, s, t)
  PROVE  ObservationsInv'
  <1>0. ObservationTypes /\ KeysOk /\ ScanOk /\ obUpsert \in [Sessions -> Upserts] /\ obEvents \subseteq OB!Ids
    BY DEF ObservationsInv, ObservationTypes
  <1>1. UNCHANGED <<obScan, obEvents>> /\ OB!MayWrite
    BY DEF OB!UpsertInsert
  <1>2. CASE UNCHANGED <<obRows, obNextId, obUpsert, obWrites, OB!history>>
    BY <1>0, <1>1, <1>2, ObservationsFrame
  <1>3. CASE /\ OB!ResolveSourceId(s) /\ ~OB!Conflicts(<<s, t>>) /\ OB!Insert(s, t, OB!NoTenant)
             /\ obTwice' = (obTwice \/ <<s, t>> \in obTold) /\ obTold' = obTold \cup {<<s, t>>}
             /\ UNCHANGED <<obUpsert, obOvertaken>>
    <2>1. s \in Sessions
      BY <1>3 DEF OB!ResolveSourceId, OB!Names
    <2>2. /\ ObservationTypes' /\ ScanOk'
          /\ \A k : OB!Taken(k) => OB!Taken(k)'
          /\ \A k, a : RowOf(k, a) => RowOf(k, a)'
          /\ \A i, j \in OB!Exists' : OB!KeyOf(obRows'[i]) = OB!KeyOf(obRows'[j]) => i = j
          /\ OB!Taken(<<s, t>>)'
      BY <1>0, <1>1, <1>3, <2>1, InsertAdds DEF OB!Conflicts
    <2>3. PICK which : which = <<s, t>>
      OBVIOUS
    <2>4. which \notin obTold /\ ~obTwice'
      BY <1>0, <1>3, <2>3 DEF KeysOk, OB!Conflicts
    <2>5. \A k \in obTold' : OB!Taken(k)'
      <3>1. OB!Taken(which)'
        BY <2>2, <2>3
      <3>2. obTold' = obTold \cup {which}
        BY <1>3, <2>3
      <3> QED
        BY <1>0, <2>2, <3>1, <3>2 DEF KeysOk
    <2>7. KeysOk'
      <3>1. KeysOk /\ ~obTwice'
        BY <1>0, <2>4
      <3>2. UNCHANGED <<obUpsert, obOvertaken>> /\ ~obTwice'
        BY <1>3, <2>4
      <3> QED
        BY <2>2, <2>5, <3>1, <3>2, KeysKept
    <2> QED
      BY <2>2, <2>7 DEF ObservationsInv
  <1>4. CASE /\ OB!ResolveSourceId(s) /\ OB!Conflicts(<<s, t>>)
             /\ obUpsert' = [obUpsert EXCEPT ![u] = [step |-> "select", key |-> <<s, t>>,
                                                     archived |-> OB!Existing(<<s, t>>) = {}]]
             /\ obOvertaken' = obOvertaken \ {u}
             /\ UNCHANGED <<obRows, obNextId, obWrites, obReply, obTold, obTwice>>
    <2>1. s \in Sessions
      BY <1>4 DEF OB!ResolveSourceId, OB!Names
    <2>2. PICK r : r = [step |-> "select", key |-> <<s, t>>, archived |-> OB!Existing(<<s, t>>) = {}]
      OBVIOUS
    <2>3. r \in Upserts /\ r.step = "select" /\ r.key = <<s, t>> /\ r.archived = (OB!Existing(<<s, t>>) = {})
      BY <2>1, <2>2 DEF Upserts, OB!Keys
    <2>4. PICK i \in OB!Exists : OB!KeyOf(obRows[i]) = <<s, t>>
      BY <1>4 DEF OB!Conflicts, OB!Taken
    <2>5. obRows[i].archived = (OB!Existing(<<s, t>>) = {})
      <3>1. obRows[i].archived \in BOOLEAN
        BY <1>0, <2>4 DEF ObservationTypes, OB!Row
      <3>2. \A j \in OB!Existing(<<s, t>>) : j = i /\ ~obRows[j].archived
        BY <1>0, <2>4 DEF OB!Existing, OB!Active, KeysOk
      <3>3. ~obRows[i].archived => i \in OB!Existing(<<s, t>>)
        BY <2>4 DEF OB!Existing, OB!Active
      <3> QED
        BY <3>1, <3>2, <3>3
    <2>6. UpsertOk(r)
      BY <2>3, <2>4, <2>5 DEF UpsertOk, RowOf
    <2>7. /\ UNCHANGED <<obRows, obNextId, obScan, obEvents, obTold, obTwice>> /\ obUpsert' = [obUpsert EXCEPT ![u] = r]
          /\ obOvertaken \subseteq obOvertaken' \cup {u}
      BY <1>1, <1>4, <2>2
    <2> QED
      BY <2>3, <2>6, <2>7, UpsertTurns
  <1> QED
    BY <1>2, <1>3, <1>4 DEF OB!UpsertInsert

\* The SELECT of an upsert.
LEMMA UpsertSelectKeeps ==
  ASSUME ObservationsInv, NEW u \in Sessions, NEW how, OB!UpsertSelect(u, how)
  PROVE  ObservationsInv'
  <1>0. obUpsert[u] \in Upserts /\ KeysOk /\ obUpsert[u].step = "select"
    BY DEF ObservationsInv, ObservationTypes, OB!UpsertSelect
  <1>1. PICK which, old : which = obUpsert[u].key /\ old = obUpsert[u].archived
    OBVIOUS
  <1>2. PICK r : r = [step |-> IF OB!Existing(which) = {} THEN "failed" ELSE "found", key |-> which, archived |-> old]
    OBVIOUS
  <1>3. /\ obUpsert' = [obUpsert EXCEPT ![u] = r]
        /\ UNCHANGED <<obRows, obNextId, obScan, obEvents, obTold, obTwice, obOvertaken>>
    <2>1. r = [obUpsert[u] EXCEPT !.step = IF OB!Existing(which) = {} THEN "failed" ELSE "found"]
      BY <1>0, <1>1, <1>2 DEF Upserts
    <2> QED
      BY <1>1, <2>1 DEF OB!UpsertSelect, OB!history
  <1>4. /\ r \in Upserts /\ r.archived = old /\ r.step # "select"
        /\ r.step = "failed" <=> OB!Existing(which) = {}
    <2>1. which \in OB!Keys \cup {<<>>} /\ old \in BOOLEAN
      BY <1>0, <1>1 DEF Upserts
    <2> QED
      BY <1>2, <2>1 DEF Upserts
  <1>5. ASSUME u \notin obOvertaken PROVE UpsertOk(r)
    <2>1. PICK i \in OB!Exists : OB!KeyOf(obRows[i]) = which /\ obRows[i].archived = old
      BY <1>0, <1>1, <1>5 DEF KeysOk, UpsertOk, RowOf
    <2>2. \A j \in OB!Existing(which) : j = i /\ ~obRows[j].archived
      BY <1>0, <2>1 DEF OB!Existing, OB!Active, KeysOk
    <2>3. ~obRows[i].archived => i \in OB!Existing(which)
      BY <2>1 DEF OB!Existing, OB!Active
    <2>4. r.step = "failed" => old
      BY <1>4, <2>1, <2>3
    <2>5. r.step = "found" => ~old
      BY <1>4, <2>1, <2>2
    <2> QED
      BY <1>4, <2>4, <2>5 DEF UpsertOk
  <1>6. obOvertaken' = obOvertaken
    BY <1>3
  <1> QED
    BY <1>3, <1>4, <1>5, <1>6, UpsertTurns

\* Only the reader moved.
LEMMA ReaderMoved ==
  ASSUME ObservationsInv, UNCHANGED <<obRows, obNextId, obUpsert, obEvents, OB!history>>, obScan' \in Scans, ScanOk'
  PROVE  ObservationsInv'
  <1>1. ObservationTypes' /\ OB!Exists' = OB!Exists
    BY DEF ObservationsInv, ObservationTypes, OB!Exists
  <1>2. KeysOk'
    BY DEF ObservationsInv, KeysOk, UpsertOk, RowOf, OB!Taken, OB!Exists, OB!history
  <1> QED
    BY <1>1, <1>2 DEF ObservationsInv

\* The reader begins, takes a page, and ends.
LEMMA ScanKeeps ==
  ASSUME ObservationsInv, OB!ScanStep
  PROVE  ObservationsInv'
  <1>0. ObservationTypes /\ ScanOk /\ obScan \in Scans /\ OB!Active \subseteq OB!Exists /\ OB!Exists \subseteq OB!Ids
    BY DEF ObservationsInv, ObservationTypes, OB!Active
  <1>1. CASE OB!ScanStart
    <2>1. UNCHANGED <<obRows, obNextId, obUpsert, obEvents, OB!history>>
      BY <1>1 DEF OB!ScanStart
    <2>2. obScan' = [on |-> TRUE, cursor |-> OB!NoCursor, stable |-> OB!Active, seen |-> [i \in OB!Ids |-> 0], done |-> FALSE]
      BY <1>1 DEF OB!ScanStart
    <2>3. PICK none : none = [i \in OB!Ids |-> 0]
      OBVIOUS
    <2>4. none \in [OB!Ids -> Nat] /\ OB!NoCursor \in [ts : Nat, id : Nat] /\ \A i \in OB!Ids : none[i] = 0
      BY <2>3 DEF OB!NoCursor
    <2>5. /\ obScan' \in Scans /\ obScan'.stable = OB!Active /\ obScan'.seen = none /\ obScan'.cursor = OB!NoCursor
          /\ obScan'.done = FALSE
      BY <1>0, <2>2, <2>3, <2>4 DEF Scans
    <2>6. OB!Active' = OB!Active
      BY <2>1 DEF OB!Active, OB!Exists
    <2>7. ASSUME NEW i \in OB!Active PROVE OB!After(i, obScan.cursor)' /\ none[i] = 0
      <3>1. i \in OB!Exists /\ obRows[i].ts \in Nat /\ i \in Nat /\ i >= 1
        BY <1>0, EarlierOrders
      <3>2. obRows' = obRows /\ obScan'.cursor.ts = 0 /\ obScan'.cursor.id = 0
        BY <2>1, <2>5 DEF OB!NoCursor
      <3> QED
        BY <1>0, <2>4, <3>1, <3>2 DEF OB!After
    <2>8. ScanOk'
      BY <2>5, <2>6, <2>7 DEF ScanOk
    <2> QED
      BY <2>1, <2>5, <2>8, ReaderMoved
  <1>2. CASE OB!ScanPage
    <2>1. UNCHANGED <<obRows, obNextId, obUpsert, obEvents, OB!history>> /\ obScan.on /\ ~obScan.done
      BY <1>2 DEF OB!ScanPage
    <2>2. ScanOk' /\ obScan' \in Scans
      BY <1>2, <2>1, PageIsNext
    <2> QED
      BY <2>1, <2>2, ReaderMoved
  <1>3. CASE OB!ScanEnd
    <2>1. UNCHANGED <<obRows, obNextId, obUpsert, obEvents, OB!history>> /\ obScan.done
      BY <1>3 DEF OB!ScanEnd
    <2>2. /\ obScan' \in Scans /\ obScan'.stable = obScan.stable /\ obScan'.seen = obScan.seen
          /\ obScan'.on = FALSE /\ obScan'.done = FALSE
      BY <1>0, <1>3 DEF OB!ScanEnd, Scans
    <2>3. OB!Active' = OB!Active
      BY <2>1 DEF OB!Active, OB!Exists
    <2>4. ScanOk'
      BY <1>0, <2>2, <2>3 DEF ScanOk
    <2> QED
      BY <2>1, <2>2, <2>4, ReaderMoved
  <1> QED
    BY <1>1, <1>2, <1>3 DEF OB!ScanStep

\* Every step keeps the invariant.
LEMMA ObservationsNext == ObservationsInv /\ [OB!Next]_(OB!vars) => ObservationsInv'
  <1> SUFFICES ASSUME ObservationsInv, [OB!Next]_(OB!vars) PROVE ObservationsInv'
    OBVIOUS
  <1>1. CASE OB!WriteStep
    BY <1>1, CreateKeeps, BatchKeeps, ProcessKeeps, ArchiveKeeps, DeleteKeeps, UpdateKeeps DEF OB!WriteStep
  <1>2. CASE OB!ReadStep
    <2>1. UNCHANGED <<obRows, obNextId, obUpsert, obScan, obEvents, obWrites, OB!history>>
      BY <1>2 DEF OB!ReadStep, OB!ListObservations, OB!EnrichObservations, OB!AnalyzeObservation,
                  OB!AnalyzeObservationStream, OB!DemoNPlusOne, OB!GetObservationSecured, OB!WriteSecured, OB!GetObservation
    <2> QED
      BY <2>1, ReadKeeps
  <1>3. CASE OB!UpsertStep
    BY <1>3, UpsertInsertKeeps, UpsertSelectKeeps DEF OB!UpsertStep
  <1>4. CASE OB!ScanStep
    BY <1>4, ScanKeeps
  <1>5. CASE UNCHANGED OB!vars
    <2>1. UNCHANGED <<obRows, obNextId, obUpsert, obScan, obEvents, obWrites, OB!history>>
      BY <1>5 DEF OB!vars, OB!history
    <2> QED
      BY <2>1, ReadKeeps
  <1> QED
    BY <1>1, <1>2, <1>3, <1>4, <1>5 DEF OB!Next

\* The invariant says what the properties say.
LEMMA ObservationsImply == ObservationsInv => OB!TypeOK /\ OB!UpsertsAgree /\ OB!ScanIsStable
  <1> SUFFICES ASSUME ObservationsInv PROVE OB!TypeOK /\ OB!UpsertsAgree /\ OB!ScanIsStable
    OBVIOUS
  <1>1. OB!TypeOK
    BY DEF ObservationsInv, ObservationTypes, ScanOk, OB!TypeOK
  <1>2. OB!UpsertsAgree
    BY DEF ObservationsInv, KeysOk, UpsertOk, OB!UpsertsAgree
  <1>3. OB!ScanIsStable
    <2>1. \A i \in obScan.stable : obScan.seen[i] \in {0, 1} /\ (obScan.done => obScan.seen[i] = 1)
      BY DEF ObservationsInv, ScanOk
    <2> QED
      BY <2>1 DEF OB!ScanIsStable
  <1> QED
    BY <1>1, <1>2, <1>3

\* One upsert of a key is told that it created the row, an upsert that nobody overtook
\* fails if and only if the row it ran into was archived, and a reader of the cursor pages gets every row that
\* nobody touched exactly once, for any page size.
THEOREM RowsAreReadOnce == OB!Spec => [](OB!TypeOK /\ OB!UpsertsAgree /\ OB!ScanIsStable)
  BY ObservationsInit, ObservationsNext, ObservationsImply, PTL DEF OB!Spec

-----------------------------------------------------------------------------
(* Caching: the linked list of the LRU cache.                               *)

\* The m-th node of the list of s, from the first sentinel to the last.
At(s, m) == IF m = 0 THEN CA!MRU ELSE IF m = Len(s) + 1 THEN CA!LRU ELSE s[m]

Recency == {s \in Seq(CacheKeys) : \A m, n \in 1..Len(s) : s[m] = s[n] => m = n}

\* The links go along s in both directions.
Linked(l, s) ==
  /\ s \in Recency
  /\ l \in [n : [CA!Nodes -> CA!Nodes \cup {CA!Null}], p : [CA!Nodes -> CA!Nodes \cup {CA!Null}]]
  /\ \A m \in 0..Len(s) : l.n[At(s, m)] = At(s, m + 1) /\ l.p[At(s, m + 1)] = At(s, m)

Members(s) == {s[m] : m \in 1..Len(s)}

\* Different positions hold different nodes.
LEMMA PositionsDiffer ==
  ASSUME NEW s \in Recency
  PROVE  /\ Len(s) \in Nat /\ DOMAIN s = 1..Len(s) /\ \A m \in 1..Len(s) : s[m] \in CacheKeys
         /\ \A m \in 0..(Len(s) + 1) : At(s, m) \in CA!Nodes
         /\ \A m, n \in 0..(Len(s) + 1) : At(s, m) = At(s, n) => m = n
         /\ \A m \in 1..Len(s) : At(s, m) = s[m]
  <1>1. s \in Seq(CacheKeys) /\ \A m, n \in 1..Len(s) : s[m] = s[n] => m = n
    BY DEF Recency
  <1>2. Len(s) \in Nat /\ DOMAIN s = 1..Len(s) /\ \A m \in 1..Len(s) : s[m] \in CacheKeys
    BY <1>1
  <1>3. CA!MRU \notin CacheKeys /\ CA!LRU \notin CacheKeys /\ CA!MRU # CA!LRU
    BY CachesAssumption DEF CA!MRU, CA!LRU
  <1>4. \A m \in 1..Len(s) : At(s, m) = s[m]
    BY <1>2 DEF At
  <1>5. At(s, 0) = CA!MRU /\ At(s, Len(s) + 1) = CA!LRU
    BY <1>2 DEF At
  <1>6. \A m \in 0..(Len(s) + 1) : m = 0 \/ m = Len(s) + 1 \/ m \in 1..Len(s)
    BY <1>2
  <1>7. \A m \in 0..(Len(s) + 1) : At(s, m) \in CA!Nodes
    BY <1>2, <1>4, <1>5, <1>6 DEF CA!Nodes
  <1>8. ASSUME NEW m \in 0..(Len(s) + 1), NEW n \in 0..(Len(s) + 1), At(s, m) = At(s, n) PROVE m = n
    BY <1>1, <1>2, <1>3, <1>4, <1>5, <1>6, <1>8
  <1> QED
    BY <1>2, <1>4, <1>7, <1>8

\* A value put in front.
LEMMA FrontOf ==
  ASSUME NEW s \in Recency, NEW k \in CacheKeys, k \notin Members(s)
  PROVE  /\ <<k>> \o s \in Recency /\ Len(<<k>> \o s) = Len(s) + 1
         /\ (<<k>> \o s)[1] = k /\ \A m \in 1..Len(s) : (<<k>> \o s)[m + 1] = s[m]
         /\ Members(<<k>> \o s) = Members(s) \cup {k}
  <1>1. s \in Seq(CacheKeys) /\ <<k>> \in Seq(CacheKeys) /\ Len(<<k>>) = 1 /\ Len(s) \in Nat
    BY DEF Recency
  <1>2. PICK t : t = <<k>> \o s
    OBVIOUS
  <1>3. t \in Seq(CacheKeys) /\ Len(t) = Len(s) + 1
    BY <1>1, <1>2
  <1>4. t[1] = k
    BY <1>1, <1>2
  <1>5. \A m \in 1..Len(s) : t[m + 1] = s[m]
    BY <1>1, <1>2
  <1>6. \A m \in 1..Len(t) : m = 1 \/ (m - 1 \in 1..Len(s) /\ t[m] = s[m - 1])
    <2>1. ASSUME NEW m \in 1..Len(t), m # 1 PROVE m - 1 \in 1..Len(s) /\ t[m] = s[m - 1]
      <3>1. m - 1 \in 1..Len(s) /\ (m - 1) + 1 = m
        BY <1>1, <1>3, <2>1
      <3>2. t[(m - 1) + 1] = s[m - 1]
        BY <1>5, <3>1
      <3> QED
        BY <3>1, <3>2
    <2> QED
      BY <2>1
  <1>7. \A m, n \in 1..Len(t) : t[m] = t[n] => m = n
    <2> SUFFICES ASSUME NEW m \in 1..Len(t), NEW n \in 1..Len(t), t[m] = t[n] PROVE m = n
      OBVIOUS
    <2>1. \A x, y \in 1..Len(s) : s[x] = s[y] => x = y
      BY DEF Recency
    <2>2. \A x \in 1..Len(s) : s[x] # k
      BY DEF Members
    <2>3. CASE m = 1 \/ n = 1
      BY <1>4, <1>6, <2>2, <2>3
    <2>4. CASE m # 1 /\ n # 1
      <3>1. m - 1 \in 1..Len(s) /\ n - 1 \in 1..Len(s) /\ s[m - 1] = s[n - 1]
        BY <1>6, <2>4
      <3>2. m - 1 = n - 1
        BY <2>1, <3>1
      <3> QED
        BY <1>3, <1>1, <3>2
    <2> QED
      BY <2>3, <2>4
  <1>8. Members(t) = Members(s) \cup {k}
    <2>1. ASSUME NEW x \in Members(t) PROVE x \in Members(s) \cup {k}
      BY <1>4, <1>6 DEF Members
    <2>2. ASSUME NEW x \in Members(s) PROVE x \in Members(t)
      <3>1. PICK m \in 1..Len(s) : x = s[m]
        BY DEF Members
      <3>2. m + 1 \in 1..Len(t) /\ t[m + 1] = x
        BY <1>1, <1>3, <1>5, <3>1
      <3> QED
        BY <3>2 DEF Members
    <2>3. k \in Members(t)
      <3>1. 1 \in 1..Len(t)
        BY <1>1, <1>3
      <3> QED
        BY <1>4, <3>1 DEF Members
    <2> QED
      BY <2>1, <2>2, <2>3
  <1> QED
    BY <1>2, <1>3, <1>4, <1>5, <1>7, <1>8 DEF Recency

\* A value left out.
LEMMA DropFacts ==
  ASSUME NEW s \in Recency, NEW at \in 1..Len(s)
  PROVE  /\ CA!Drop(s, s[at]) \in Recency /\ Len(CA!Drop(s, s[at])) = Len(s) - 1
         /\ \A m \in 1..(Len(s) - 1) : CA!Drop(s, s[at])[m] = IF m < at THEN s[m] ELSE s[m + 1]
         /\ Members(CA!Drop(s, s[at])) = Members(s) \ {s[at]}
  <1>1. /\ s \in Seq(CacheKeys) /\ Len(s) \in Nat /\ DOMAIN s = 1..Len(s) /\ at \in Nat /\ at >= 1 /\ at <= Len(s)
        /\ \A m, n \in 1..Len(s) : s[m] = s[n] => m = n
        /\ \A m \in 1..Len(s) : s[m] \in CacheKeys
    BY PositionsDiffer DEF Recency
  <1>2. (CHOOSE n \in DOMAIN s : s[n] = s[at]) = at
    BY <1>1
  <1>3. PICK t : t = [m \in 1..(Len(s) - 1) |-> IF m < at THEN s[m] ELSE s[m + 1]]
    OBVIOUS
  <1>4. CA!Drop(s, s[at]) = t
    BY <1>1, <1>2, <1>3 DEF CA!Drop
  <1>5. Len(s) - 1 \in Nat /\ DOMAIN t = 1..(Len(s) - 1)
    BY <1>1, <1>3
  <1>6. \A m \in 1..(Len(s) - 1) : /\ m \in 1..Len(s) /\ m + 1 \in 1..Len(s)
                                   /\ t[m] = IF m < at THEN s[m] ELSE s[m + 1]
    BY <1>1, <1>3
  <1>7. t \in [1..(Len(s) - 1) -> CacheKeys]
    BY <1>1, <1>3, <1>6
  <1>8. t \in Seq(CacheKeys) /\ Len(t) = Len(s) - 1
    BY <1>5, <1>7
  <1>9. ASSUME NEW m \in 1..(Len(s) - 1), NEW n \in 1..(Len(s) - 1), t[m] = t[n] PROVE m = n
    <2>1. m \in Nat /\ n \in Nat
      BY <1>1
    <2>2. t[m] = s[IF m < at THEN m ELSE m + 1] /\ t[n] = s[IF n < at THEN n ELSE n + 1]
      BY <1>6
    <2>3. (IF m < at THEN m ELSE m + 1) = (IF n < at THEN n ELSE n + 1)
      BY <1>1, <1>6, <1>9, <2>2
    <2> QED
      BY <1>1, <2>1, <2>3
  <1>10. Members(t) = Members(s) \ {s[at]}
    <2>1. ASSUME NEW x \in Members(t) PROVE x \in Members(s) /\ x # s[at]
      <3>1. PICK m \in 1..(Len(s) - 1) : x = t[m]
        BY <1>8 DEF Members
      <3>2. PICK n \in 1..Len(s) : x = s[n] /\ n # at
        <4>1. CASE m < at
          BY <1>1, <1>6, <3>1, <4>1
        <4>2. CASE ~(m < at)
          <5>1. m + 1 \in 1..Len(s) /\ x = s[m + 1] /\ m + 1 # at
            BY <1>1, <1>6, <3>1, <4>2
          <5> QED
            BY <5>1
        <4> QED
          BY <4>1, <4>2
      <3> QED
        BY <1>1, <3>2 DEF Members
    <2>2. ASSUME NEW x \in Members(s), x # s[at] PROVE x \in Members(t)
      <3>1. PICK n \in 1..Len(s) : x = s[n]
        BY DEF Members
      <3>2. n # at /\ n \in Nat
        BY <2>2, <3>1
      <3>3. CASE n < at
        <4>1. n \in 1..(Len(s) - 1)
          BY <1>1, <3>2, <3>3
        <4>2. t[n] = x
          BY <1>6, <3>1, <3>3, <4>1
        <4> QED
          BY <1>8, <4>1, <4>2 DEF Members
      <3>4. CASE n > at
        <4>1. n - 1 \in 1..(Len(s) - 1) /\ ~(n - 1 < at) /\ (n - 1) + 1 = n
          BY <1>1, <3>2, <3>4
        <4>2. t[n - 1] = x
          BY <1>6, <3>1, <4>1
        <4> QED
          BY <1>8, <4>1, <4>2 DEF Members
      <3> QED
        BY <1>1, <3>2, <3>3, <3>4
    <2> QED
      BY <2>1, <2>2
  <1>11. t \in Recency
    BY <1>8, <1>9 DEF Recency
  <1> QED
    BY <1>4, <1>6, <1>8, <1>10, <1>11
\* _remove takes a node out of the list.
LEMMA RemoveLinks ==
  ASSUME NEW l, NEW s, Linked(l, s), NEW at \in 1..Len(s)
  PROVE  Linked(CA!Remove(l, s[at]), CA!Drop(s, s[at]))
  <1>1. s \in Recency /\ l \in [n : [CA!Nodes -> CA!Nodes \cup {CA!Null}], p : [CA!Nodes -> CA!Nodes \cup {CA!Null}]]
    BY DEF Linked
  <1>2. \A m \in 0..Len(s) : l.n[At(s, m)] = At(s, m + 1) /\ l.p[At(s, m + 1)] = At(s, m)
    BY DEF Linked
  <1>3. /\ Len(s) \in Nat /\ at \in Nat /\ at >= 1 /\ at <= Len(s)
        /\ \A m \in 0..(Len(s) + 1) : At(s, m) \in CA!Nodes
        /\ \A m, n \in 0..(Len(s) + 1) : At(s, m) = At(s, n) => m = n
        /\ At(s, at) = s[at]
    BY <1>1, PositionsDiffer
  <1>4. PICK t : t = CA!Drop(s, s[at])
    OBVIOUS
  <1>5. /\ t \in Recency /\ Len(t) = Len(s) - 1
        /\ \A m \in 1..(Len(s) - 1) : t[m] = IF m < at THEN s[m] ELSE s[m + 1]
    BY <1>1, <1>4, DropFacts
  <1>6. PICK a : a = At(s, at - 1)
    OBVIOUS
  <1>7. PICK b : b = At(s, at + 1)
    OBVIOUS
  <1>8. PICK k : k = s[at]
    OBVIOUS
  <1>9. l.p[k] = a /\ l.n[k] = b
    <2>1. at - 1 \in 0..Len(s) /\ at \in 0..Len(s) /\ (at - 1) + 1 = at
      BY <1>3
    <2>2. l.p[At(s, (at - 1) + 1)] = At(s, at - 1) /\ l.n[At(s, at)] = At(s, at + 1)
      BY <1>2, <2>1
    <2> QED
      BY <1>3, <1>6, <1>7, <1>8, <2>1, <2>2
  <1>10. a \in CA!Nodes /\ b \in CA!Nodes /\ k \in CA!Nodes /\ a # k /\ b # k
    <2>1. at - 1 \in 0..(Len(s) + 1) /\ at \in 0..(Len(s) + 1) /\ at + 1 \in 0..(Len(s) + 1)
      BY <1>3
    <2>2. At(s, at) = k /\ at - 1 # at /\ at + 1 # at
      BY <1>3, <1>8
    <2> QED
      BY <1>3, <1>6, <1>7, <2>1, <2>2
  <1>11. PICK n2 : n2 = [l.n EXCEPT ![a] = b, ![k] = CA!Null]
    OBVIOUS
  <1>12. PICK p2 : p2 = [l.p EXCEPT ![b] = a, ![k] = CA!Null]
    OBVIOUS
  <1>13. CA!Remove(l, k) = [n |-> n2, p |-> p2]
    BY <1>9, <1>11, <1>12 DEF CA!Remove
  <1>14. /\ n2 \in [CA!Nodes -> CA!Nodes \cup {CA!Null}] /\ n2[a] = b
         /\ \A x \in CA!Nodes : x # a /\ x # k => n2[x] = l.n[x]
    BY <1>1, <1>10, <1>11
  <1>15. /\ p2 \in [CA!Nodes -> CA!Nodes \cup {CA!Null}] /\ p2[b] = a
         /\ \A x \in CA!Nodes : x # b /\ x # k => p2[x] = l.p[x]
    BY <1>1, <1>10, <1>12
  <1>16. ASSUME NEW m \in 0..Len(s) PROVE At(t, m) = IF m < at THEN At(s, m) ELSE At(s, m + 1)
    <2>1. CASE m = 0
      BY <1>3, <2>1 DEF At
    <2>2. CASE m = Len(s)
      <3>1. At(t, m) = CA!LRU /\ At(s, m + 1) = CA!LRU
        BY <1>3, <1>5, <2>2 DEF At
      <3> QED
        BY <1>3, <2>2, <3>1
    <2>3. CASE m # 0 /\ m # Len(s)
      <3>1. m \in 1..(Len(s) - 1) /\ m \in 1..Len(s) /\ m + 1 \in 1..Len(s) /\ m \in Nat
        BY <1>3, <2>3
      <3>2. At(t, m) = t[m]
        BY <1>3, <1>5, <3>1 DEF At
      <3>3. At(s, m) = s[m] /\ At(s, m + 1) = s[m + 1]
        BY <1>1, <3>1, PositionsDiffer
      <3> QED
        BY <1>5, <3>1, <3>2, <3>3
    <2> QED
      BY <2>1, <2>2, <2>3
  <1>17. ASSUME NEW m \in 0..Len(t) PROVE n2[At(t, m)] = At(t, m + 1) /\ p2[At(t, m + 1)] = At(t, m)
    <2>0. m \in Nat /\ m <= Len(s) - 1 /\ m \in 0..Len(s) /\ m + 1 \in 0..Len(s) /\ m \in 0..(Len(s) + 1)
          /\ m + 1 \in 0..(Len(s) + 1) /\ m + 2 \in 0..(Len(s) + 1)
      BY <1>3, <1>5
    <2>1. CASE m + 1 < at
      <3>1. At(t, m) = At(s, m) /\ At(t, m + 1) = At(s, m + 1)
        BY <1>3, <1>16, <2>0, <2>1
      <3>2. At(s, m) # a /\ At(s, m) # k /\ At(s, m + 1) # b /\ At(s, m + 1) # k
        <4>1. /\ at - 1 \in 0..(Len(s) + 1) /\ at \in 0..(Len(s) + 1) /\ at + 1 \in 0..(Len(s) + 1)
              /\ m # at - 1 /\ m # at /\ m + 1 # at + 1 /\ m + 1 # at
          BY <1>3, <2>0, <2>1
        <4> QED
          BY <1>3, <1>6, <1>7, <1>8, <2>0, <4>1
      <3>3. At(s, m) \in CA!Nodes /\ At(s, m + 1) \in CA!Nodes
        BY <1>3, <2>0
      <3>4. n2[At(s, m)] = At(s, m + 1) /\ p2[At(s, m + 1)] = At(s, m)
        BY <1>2, <1>14, <1>15, <2>0, <3>2, <3>3
      <3> QED
        BY <3>1, <3>4
    <2>2. CASE m + 1 = at
      <3>1. At(t, m) = a
        BY <1>3, <1>6, <1>16, <2>0, <2>2
      <3>2. At(t, m + 1) = b
        BY <1>3, <1>7, <1>16, <2>0, <2>2
      <3> QED
        BY <1>14, <1>15, <3>1, <3>2
    <2>3. CASE m + 1 > at
      <3>0. ~(m < at) /\ ~(m + 1 < at) /\ (m + 1) + 1 = m + 2
        BY <1>3, <2>0, <2>3
      <3>1. At(t, m) = At(s, m + 1) /\ At(t, m + 1) = At(s, m + 2)
        BY <1>16, <2>0, <3>0
      <3>2. At(s, m + 1) # a /\ At(s, m + 1) # k /\ At(s, m + 2) # b /\ At(s, m + 2) # k
        <4>1. /\ at - 1 \in 0..(Len(s) + 1) /\ at \in 0..(Len(s) + 1) /\ at + 1 \in 0..(Len(s) + 1)
              /\ m + 1 # at - 1 /\ m + 1 # at /\ m + 2 # at + 1 /\ m + 2 # at
          BY <1>3, <2>0, <2>3
        <4> QED
          BY <1>3, <1>6, <1>7, <1>8, <2>0, <4>1
      <3>3. At(s, m + 1) \in CA!Nodes /\ At(s, m + 2) \in CA!Nodes
        BY <1>3, <2>0
      <3>4. l.n[At(s, m + 1)] = At(s, m + 2) /\ l.p[At(s, m + 2)] = At(s, m + 1)
        BY <1>2, <2>0, <3>0
      <3>5. n2[At(s, m + 1)] = At(s, m + 2) /\ p2[At(s, m + 2)] = At(s, m + 1)
        BY <1>14, <1>15, <3>2, <3>3, <3>4
      <3> QED
        BY <3>1, <3>5
    <2> QED
      BY <1>3, <2>0, <2>1, <2>2, <2>3
  <1>18. Linked([n |-> n2, p |-> p2], t)
    BY <1>5, <1>14, <1>15, <1>17 DEF Linked
  <1> QED
    BY <1>4, <1>8, <1>13, <1>18

\* _prepend puts a node behind the first sentinel.
LEMMA PrependLinks ==
  ASSUME NEW l, NEW s, Linked(l, s), NEW k \in CacheKeys, k \notin Members(s)
  PROVE  Linked(CA!Prepend(l, k), <<k>> \o s)
  <1>1. s \in Recency /\ l \in [n : [CA!Nodes -> CA!Nodes \cup {CA!Null}], p : [CA!Nodes -> CA!Nodes \cup {CA!Null}]]
    BY DEF Linked
  <1>2. \A m \in 0..Len(s) : l.n[At(s, m)] = At(s, m + 1) /\ l.p[At(s, m + 1)] = At(s, m)
    BY DEF Linked
  <1>3. /\ Len(s) \in Nat
        /\ \A m \in 0..(Len(s) + 1) : At(s, m) \in CA!Nodes
        /\ \A m, n \in 0..(Len(s) + 1) : At(s, m) = At(s, n) => m = n
        /\ \A m \in 1..Len(s) : At(s, m) = s[m]
    BY <1>1, PositionsDiffer
  <1>4. PICK t : t = <<k>> \o s
    OBVIOUS
  <1>5. /\ t \in Recency /\ Len(t) = Len(s) + 1 /\ t[1] = k /\ \A m \in 1..Len(s) : t[m + 1] = s[m]
    BY <1>1, <1>4, FrontOf
  <1>6. PICK b : b = At(s, 1)
    OBVIOUS
  <1>7. At(s, 0) = CA!MRU /\ l.n[CA!MRU] = b /\ CA!MRU # k /\ CA!LRU # k /\ CA!MRU \in CA!Nodes /\ k \in CA!Nodes
    <2>1. At(s, 0) = CA!MRU
      BY DEF At
    <2>2. 0 \in 0..Len(s) /\ 0 + 1 = 1
      BY <1>3
    <2>3. l.n[At(s, 0)] = At(s, 0 + 1)
      BY <1>2, <2>2
    <2>4. CA!MRU # k /\ CA!LRU # k /\ CA!MRU \in CA!Nodes /\ k \in CA!Nodes
      BY CachesAssumption DEF CA!MRU, CA!LRU, CA!Nodes
    <2> QED
      BY <1>6, <2>1, <2>2, <2>3, <2>4
  <1>8. \A m \in 0..(Len(s) + 1) : At(s, m) # k
    <2>1. \A m \in 1..Len(s) : s[m] # k
      BY DEF Members
    <2>2. \A m \in 0..(Len(s) + 1) : m = 0 \/ m = Len(s) + 1 \/ m \in 1..Len(s)
      BY <1>3
    <2>3. At(s, Len(s) + 1) = CA!LRU
      BY <1>3 DEF At
    <2> QED
      BY <1>3, <1>7, <2>1, <2>2, <2>3
  <1>9. b \in CA!Nodes /\ b # k /\ b # CA!MRU
    <2>1. 1 \in 0..(Len(s) + 1) /\ 0 \in 0..(Len(s) + 1)
      BY <1>3
    <2> QED
      BY <1>3, <1>6, <1>7, <1>8, <2>1
  <1>10. PICK n2 : n2 = [l.n EXCEPT ![k] = b, ![CA!MRU] = k]
    OBVIOUS
  <1>11. PICK p2 : p2 = [l.p EXCEPT ![k] = CA!MRU, ![b] = k]
    OBVIOUS
  <1>12. CA!Prepend(l, k) = [n |-> n2, p |-> p2]
    BY <1>7, <1>10, <1>11 DEF CA!Prepend
  <1>13. /\ n2 \in [CA!Nodes -> CA!Nodes \cup {CA!Null}] /\ n2[k] = b /\ n2[CA!MRU] = k
         /\ \A x \in CA!Nodes : x # CA!MRU /\ x # k => n2[x] = l.n[x]
    BY <1>1, <1>7, <1>9, <1>10
  <1>14. /\ p2 \in [CA!Nodes -> CA!Nodes \cup {CA!Null}] /\ p2[k] = CA!MRU /\ p2[b] = k
         /\ \A x \in CA!Nodes : x # b /\ x # k => p2[x] = l.p[x]
    BY <1>1, <1>7, <1>9, <1>11
  <1>15. At(t, 0) = CA!MRU /\ At(t, 1) = k
    BY <1>3, <1>5 DEF At
  <1>16. ASSUME NEW m \in 1..(Len(s) + 1) PROVE At(t, m + 1) = At(s, m)
    <2>1. CASE m = Len(s) + 1
      BY <1>3, <1>5, <2>1 DEF At
    <2>2. CASE m # Len(s) + 1
      <3>1. m \in 1..Len(s) /\ m + 1 # 0 /\ m + 1 # Len(t) + 1
        BY <1>3, <1>5, <2>2
      <3>2. At(t, m + 1) = t[m + 1]
        BY <3>1 DEF At
      <3> QED
        BY <1>3, <1>5, <3>1, <3>2
    <2> QED
      BY <2>1, <2>2
  <1>17. ASSUME NEW m \in 0..Len(t) PROVE n2[At(t, m)] = At(t, m + 1) /\ p2[At(t, m + 1)] = At(t, m)
    <2>1. CASE m = 0
      BY <1>13, <1>14, <1>15, <2>1
    <2>2. CASE m = 1
      <3>1. 1 \in 1..(Len(s) + 1)
        BY <1>3
      <3>2. At(t, 1 + 1) = b
        BY <1>6, <1>16, <3>1
      <3> QED
        BY <1>13, <1>14, <1>15, <2>2, <3>2
    <2>3. CASE m # 0 /\ m # 1
      <3>0. PICK j : j = m - 1
        OBVIOUS
      <3>1. /\ j \in 1..Len(s) /\ j \in 1..(Len(s) + 1) /\ j + 1 \in 1..(Len(s) + 1) /\ j \in 0..Len(s)
            /\ j \in 0..(Len(s) + 1) /\ j + 1 \in 0..(Len(s) + 1) /\ m = j + 1 /\ j # 0 /\ j + 1 # 1
        BY <1>3, <1>5, <2>3, <3>0
      <3>2. At(t, m) = At(s, j) /\ At(t, m + 1) = At(s, j + 1)
        BY <1>16, <3>1
      <3>3. /\ At(s, j) # CA!MRU /\ At(s, j) # k /\ At(s, j + 1) # b /\ At(s, j + 1) # k
            /\ At(s, j) \in CA!Nodes /\ At(s, j + 1) \in CA!Nodes
        <4>1. 0 \in 0..(Len(s) + 1) /\ 1 \in 0..(Len(s) + 1)
          BY <1>3
        <4> QED
          BY <1>3, <1>6, <1>7, <1>8, <3>1, <4>1
      <3>4. l.n[At(s, j)] = At(s, j + 1) /\ l.p[At(s, j + 1)] = At(s, j)
        BY <1>2, <3>1
      <3> QED
        BY <1>13, <1>14, <3>2, <3>3, <3>4
    <2> QED
      BY <2>1, <2>2, <2>3
  <1>18. Linked([n |-> n2, p |-> p2], t)
    BY <1>5, <1>13, <1>14, <1>17 DEF Linked
  <1> QED
    BY <1>4, <1>12, <1>18

-----------------------------------------------------------------------------
(* Caching: the operations of the LRU cache.                                *)

LruOk ==
  /\ Linked(CA!Links, caOrder)
  /\ DOMAIN caLru = Members(caOrder) /\ IsFiniteSet(DOMAIN caLru)
  /\ Len(caOrder) = Cardinality(DOMAIN caLru) /\ Len(caOrder) <= Capacity
  /\ caLru = [k \in DOMAIN caLru |-> caLru[k]]

\* The pair of links is its two fields.
LEMMA LinksSet ==
  ASSUME NEW l, NEW s, Linked(l, s), CA!SetLinks(l), caOrder' = s
  PROVE  Linked(CA!Links, caOrder)'
  <1>1. l = [n |-> l.n, p |-> l.p]
    BY DEF Linked
  <1>2. CA!Links' = l
    BY <1>1 DEF CA!SetLinks, CA!Links
  <1>3. Linked(CA!Links', caOrder')
    BY <1>2
  <1> QED
    BY <1>3 DEF Linked, Recency, At, CA!Nodes, CA!MRU, CA!LRU, CA!Null, CA!Links

\* A hit is taken out and put in front.
LEMMA MovedToFront ==
  ASSUME NEW l, NEW s, Linked(l, s), NEW k \in Members(s)
  PROVE  /\ Linked(CA!Prepend(CA!Remove(l, k), k), <<k>> \o CA!Drop(s, k))
         /\ Members(<<k>> \o CA!Drop(s, k)) = Members(s) /\ Len(<<k>> \o CA!Drop(s, k)) = Len(s)
  <1>1. PICK at \in 1..Len(s) : k = s[at]
    BY DEF Members
  <1>2. s \in Recency
    BY DEF Linked
  <1>3. PICK t : t = CA!Drop(s, k)
    OBVIOUS
  <1>4. t \in Recency /\ Len(t) = Len(s) - 1 /\ Members(t) = Members(s) \ {k} /\ Linked(CA!Remove(l, k), t)
    BY <1>1, <1>2, <1>3, DropFacts, RemoveLinks
  <1>5. k \in CacheKeys /\ Len(s) \in Nat
    BY <1>1, <1>2, PositionsDiffer
  <1>6. /\ Linked(CA!Prepend(CA!Remove(l, k), k), <<k>> \o t)
        /\ Len(<<k>> \o t) = Len(t) + 1 /\ Members(<<k>> \o t) = Members(t) \cup {k}
    BY <1>4, <1>5, PrependLinks, FrontOf
  <1>7. PICK u : u = <<k>> \o t
    OBVIOUS
  <1>8. Len(u) = Len(s)
    BY <1>4, <1>5, <1>6, <1>7
  <1>9. Members(u) = Members(s)
    BY <1>4, <1>6, <1>7
  <1>10. Linked(CA!Prepend(CA!Remove(l, k), k), u)
    BY <1>6, <1>7
  <1> QED
    BY <1>3, <1>7, <1>8, <1>9, <1>10

\* Leaving out the last of a list with a new first.
LEMMA LastLeaves ==
  ASSUME NEW s \in Recency, NEW k \in CacheKeys, k \notin Members(s), Len(s) >= 1
  PROVE  CA!Drop(<<k>> \o s, s[Len(s)]) = <<k>> \o CA!Drop(s, s[Len(s)])
  <1>1. PICK t : t = <<k>> \o s
    OBVIOUS
  <1>2. t \in Recency /\ Len(t) = Len(s) + 1 /\ t[1] = k /\ \A m \in 1..Len(s) : t[m + 1] = s[m]
    BY <1>1, FrontOf
  <1>3. PICK L : L = Len(s)
    OBVIOUS
  <1>4. L \in Nat /\ L >= 1 /\ L \in 1..Len(s) /\ L + 1 \in 1..Len(t) /\ t[L + 1] = s[L]
    BY <1>2, <1>3, PositionsDiffer
  <1>5. PICK d : d = CA!Drop(s, s[L])
    OBVIOUS
  <1>6. PICK e : e = CA!Drop(t, t[L + 1])
    OBVIOUS
  <1>7. /\ d \in Recency /\ Len(d) = L - 1 /\ Members(d) = Members(s) \ {s[L]}
        /\ \A m \in 1..(Len(s) - 1) : d[m] = IF m < L THEN s[m] ELSE s[m + 1]
    BY <1>3, <1>4, <1>5, DropFacts
  <1>8. /\ e \in Recency /\ Len(e) = Len(t) - 1
        /\ \A m \in 1..(Len(t) - 1) : e[m] = IF m < L + 1 THEN t[m] ELSE t[m + 1]
    BY <1>2, <1>4, <1>6, DropFacts
  <1>9. k \notin Members(d)
    BY <1>7
  <1>10. PICK f : f = <<k>> \o d
    OBVIOUS
  <1>11. f \in Recency /\ Len(f) = Len(d) + 1 /\ f[1] = k /\ \A m \in 1..Len(d) : f[m + 1] = d[m]
    BY <1>7, <1>9, <1>10, FrontOf
  <1>12. Len(e) = L /\ Len(f) = L
    BY <1>2, <1>3, <1>4, <1>7, <1>8, <1>11
  <1>13. ASSUME NEW m \in 1..L PROVE e[m] = f[m]
    <2>1. m \in 1..(Len(t) - 1) /\ m < L + 1
      BY <1>2, <1>3, <1>4
    <2>2. e[m] = t[m]
      BY <1>8, <2>1
    <2>3. CASE m = 1
      BY <1>2, <1>11, <2>2, <2>3
    <2>4. CASE m # 1
      <3>0. PICK j : j = m - 1
        OBVIOUS
      <3>1. j \in 1..Len(s) /\ j \in 1..Len(d) /\ j \in 1..(Len(s) - 1) /\ j < L /\ m = j + 1
        BY <1>3, <1>4, <1>7, <2>4, <3>0
      <3>2. t[m] = s[j] /\ f[m] = d[j] /\ d[j] = s[j]
        BY <1>2, <1>7, <1>11, <3>1
      <3> QED
        BY <2>2, <3>2
    <2> QED
      BY <2>3, <2>4
  <1>14. e \in Seq(CacheKeys) /\ f \in Seq(CacheKeys)
    BY <1>8, <1>11 DEF Recency
  <1>15. e = f
    <2>1. e = [m \in 1..L |-> e[m]] /\ f = [m \in 1..L |-> f[m]]
      BY <1>12, <1>14
    <2> QED
      BY <1>13, <2>1
  <1> QED
    BY <1>1, <1>3, <1>4, <1>5, <1>6, <1>10, <1>15

\* get of an entry.
LEMMA TouchKeeps ==
  ASSUME LruOk, NEW k \in DOMAIN caLru, CA!Touch(k)
  PROVE  LruOk' /\ caLru' = caLru
  <1>1. PICK t : t = <<k>> \o CA!Drop(caOrder, k)
    OBVIOUS
  <1>2. k \in Members(caOrder) /\ Linked(CA!Links, caOrder)
    BY DEF LruOk
  <1>3. Linked(CA!Prepend(CA!Remove(CA!Links, k), k), t) /\ Members(t) = Members(caOrder) /\ Len(t) = Len(caOrder)
    BY <1>1, <1>2, MovedToFront
  <1>4. CA!SetLinks(CA!Prepend(CA!Remove(CA!Links, k), k)) /\ caOrder' = t /\ caLru' = caLru
    BY <1>1 DEF CA!Touch
  <1>5. Linked(CA!Links, caOrder)'
    BY <1>3, <1>4, LinksSet
  <1>6. Members(caOrder)' = Members(t)
    BY <1>4 DEF Members
  <1> QED
    BY <1>3, <1>4, <1>5, <1>6 DEF LruOk

\* put of an entry, which replaces one, adds one or evicts the least recently used.
LEMMA PutKeeps ==
  ASSUME LruOk, NEW k \in CacheKeys, NEW v, CA!Put(k, v)
  PROVE  /\ LruOk' /\ DOMAIN caLru' \subseteq DOMAIN caLru \cup {k}
         /\ \A x \in DOMAIN caLru' : caLru'[x] = IF x = k THEN v ELSE caLru[x]
  <1>0. /\ Linked(CA!Links, caOrder) /\ DOMAIN caLru = Members(caOrder) /\ IsFiniteSet(DOMAIN caLru)
        /\ Len(caOrder) = Cardinality(DOMAIN caLru) /\ Len(caOrder) <= Capacity
        /\ caOrder \in Recency /\ Len(caOrder) \in Nat /\ Capacity \in Nat /\ Capacity >= 1
        /\ caLru = [x \in DOMAIN caLru |-> caLru[x]]
    BY PositionsDiffer, CachesAssumption DEF LruOk, Linked
  <1>1. CASE /\ k \in DOMAIN caLru
             /\ caLru' = [caLru EXCEPT ![k] = v]
             /\ CA!SetLinks(CA!Prepend(CA!Remove(CA!Links, k), k))
             /\ caOrder' = <<k>> \o CA!Drop(caOrder, k)
    <2>1. PICK t : t = <<k>> \o CA!Drop(caOrder, k)
      OBVIOUS
    <2>2. Linked(CA!Prepend(CA!Remove(CA!Links, k), k), t) /\ Members(t) = Members(caOrder) /\ Len(t) = Len(caOrder)
      BY <1>0, <1>1, <2>1, MovedToFront
    <2>3. Linked(CA!Links, caOrder)'
      BY <1>1, <2>1, <2>2, LinksSet
    <2>4. Members(caOrder)' = Members(t) /\ caOrder' = t
      BY <1>1, <2>1 DEF Members
    <2>5. /\ DOMAIN caLru' = DOMAIN caLru /\ caLru' = [x \in DOMAIN caLru' |-> caLru'[x]]
          /\ \A x \in DOMAIN caLru' : caLru'[x] = IF x = k THEN v ELSE caLru[x]
      BY <1>0, <1>1
    <2> QED
      BY <1>0, <2>2, <2>3, <2>4, <2>5 DEF LruOk
  <1>2. CASE k \notin DOMAIN caLru
    <2>1. PICK l : l = CA!Prepend(CA!Links, k)
      OBVIOUS
    <2>2. PICK t : t = <<k>> \o caOrder
      OBVIOUS
    <2>3. /\ Linked(l, t) /\ t \in Recency /\ Len(t) = Len(caOrder) + 1 /\ t[1] = k
          /\ Members(t) = Members(caOrder) \cup {k} /\ \A m \in 1..Len(caOrder) : t[m + 1] = caOrder[m]
      BY <1>0, <1>2, <2>1, <2>2, PrependLinks, FrontOf
    <2>4. PICK w : w = CA!With(caLru, k, v)
      OBVIOUS
    <2>5. /\ DOMAIN w = DOMAIN caLru \cup {k} /\ w = [x \in DOMAIN w |-> w[x]]
          /\ \A x \in DOMAIN w : w[x] = IF x = k THEN v ELSE caLru[x]
      BY <2>4 DEF CA!With
    <2>6. PICK last : last = l.p[CA!LRU]
      OBVIOUS
    <2>7. IsFiniteSet(DOMAIN caLru \cup {k}) /\ Cardinality(DOMAIN caLru \cup {k}) = Cardinality(DOMAIN caLru) + 1
      BY <1>0, <1>2, FS_AddElement
    <2>8. CASE ~(Cardinality(DOMAIN caLru) + 1 > Capacity)
      <3>1. CA!SetLinks(l) /\ caLru' = w /\ caOrder' = t
        BY <1>2, <2>1, <2>2, <2>4, <2>8, FiniteIsFinite DEF CA!Put
      <3>2. Linked(CA!Links, caOrder)'
        BY <2>3, <3>1, LinksSet
      <3>3. Members(caOrder)' = Members(t)
        BY <3>1 DEF Members
      <3>4. Len(t) = Cardinality(DOMAIN w) /\ Len(t) <= Capacity /\ IsFiniteSet(DOMAIN w)
        BY <1>0, <2>3, <2>5, <2>7, <2>8
      <3> QED
        BY <1>0, <2>3, <2>5, <3>1, <3>2, <3>3, <3>4 DEF LruOk
    <2>9. CASE Cardinality(DOMAIN caLru) + 1 > Capacity
      <3>1. Len(caOrder) >= 1 /\ Len(caOrder) \in 1..Len(caOrder) /\ Len(t) \in 1..Len(t) /\ Len(t) = Len(caOrder) + 1
        BY <1>0, <2>3, <2>9
      <3>2. last = caOrder[Len(caOrder)] /\ last = t[Len(t)] /\ last \in Members(caOrder)
        <4>1. Len(t) \in 0..Len(t) /\ At(t, Len(t) + 1) = CA!LRU
          BY <3>1, <1>0 DEF At
        <4>2. l.p[At(t, Len(t) + 1)] = At(t, Len(t))
          BY <2>3, <4>1 DEF Linked
        <4>3. At(t, Len(t)) = t[Len(t)]
          BY <2>3, <3>1, PositionsDiffer
        <4>4. t[Len(t)] = caOrder[Len(caOrder)]
          BY <2>3, <3>1
        <4> QED
          BY <2>6, <3>1, <4>1, <4>2, <4>3, <4>4 DEF Members
      <3>3. PICK d : d = <<k>> \o CA!Drop(caOrder, last)
        OBVIOUS
      <3>4. PICK lat : lat = Len(t)
        OBVIOUS
      <3>5. /\ Linked(CA!Remove(l, last), d)
            /\ Members(d) = Members(t) \ {last} /\ Len(d) = Len(caOrder)
        <4>1. lat \in 1..Len(t) /\ t[lat] = last
          BY <3>1, <3>2, <3>4
        <4>2. Linked(CA!Remove(l, last), CA!Drop(t, last))
          BY <2>3, <4>1, RemoveLinks
        <4>3. Members(CA!Drop(t, last)) = Members(t) \ {last} /\ Len(CA!Drop(t, last)) = Len(t) - 1
          BY <2>3, <4>1, DropFacts
        <4>4. CA!Drop(t, last) = d
          BY <1>0, <1>2, <2>2, <3>1, <3>2, <3>3, LastLeaves
        <4> QED
          BY <1>0, <3>1, <4>2, <4>3, <4>4
      <3>6. CA!SetLinks(CA!Remove(l, last)) /\ caLru' = CA!Without(w, last) /\ caOrder' = d
        BY <1>2, <2>1, <2>4, <2>6, <2>9, <3>2, <3>3, FiniteIsFinite DEF CA!Put
      <3>7. Linked(CA!Links, caOrder)'
        BY <3>5, <3>6, LinksSet
      <3>8. Members(caOrder)' = Members(d)
        BY <3>6 DEF Members
      <3>9. /\ DOMAIN caLru' = (DOMAIN caLru \cup {k}) \ {last} /\ caLru' = [x \in DOMAIN caLru' |-> caLru'[x]]
            /\ \A x \in DOMAIN caLru' : caLru'[x] = w[x]
        BY <2>5, <3>6 DEF CA!Without
      <3>10. /\ IsFiniteSet((DOMAIN caLru \cup {k}) \ {last})
             /\ Cardinality((DOMAIN caLru \cup {k}) \ {last}) = Cardinality(DOMAIN caLru \cup {k}) - 1
        <4>1. last \in DOMAIN caLru \cup {k}
          BY <1>0, <3>2
        <4> QED
          BY <2>7, <4>1, FS_RemoveElement
      <3>11. Len(d) = Cardinality(DOMAIN caLru') /\ IsFiniteSet(DOMAIN caLru')
        BY <1>0, <2>7, <3>5, <3>9, <3>10
      <3>12. LruOk'
        BY <1>0, <2>3, <3>5, <3>6, <3>7, <3>8, <3>9, <3>11 DEF LruOk
      <3> QED
        BY <2>5, <3>9, <3>12
    <2> QED
      BY <2>8, <2>9
  <1> QED
    BY <1>1, <1>2 DEF CA!Put

\* invalidate of an entry, or of none.
LEMMA EvictKeeps ==
  ASSUME LruOk, NEW k, CA!Evict(k)
  PROVE  /\ LruOk' /\ DOMAIN caLru' = DOMAIN caLru \ {k}
         /\ \A x \in DOMAIN caLru' : caLru'[x] = caLru[x]
  <1>0. /\ Linked(CA!Links, caOrder) /\ DOMAIN caLru = Members(caOrder) /\ IsFiniteSet(DOMAIN caLru)
        /\ Len(caOrder) = Cardinality(DOMAIN caLru) /\ Len(caOrder) <= Capacity
        /\ caOrder \in Recency /\ Len(caOrder) \in Nat /\ Capacity \in Nat /\ DOMAIN caOrder = 1..Len(caOrder)
        /\ caLru = [x \in DOMAIN caLru |-> caLru[x]]
    BY PositionsDiffer, CachesAssumption DEF LruOk, Linked
  <1>1. /\ caLru' = [x \in DOMAIN caLru \ {k} |-> caLru[x]] /\ caOrder' = CA!Drop(caOrder, k)
    BY DEF CA!Evict, CA!Without
  <1>2. CASE k \in DOMAIN caLru
    <2>1. PICK at \in 1..Len(caOrder) : k = caOrder[at]
      BY <1>0, <1>2 DEF Members
    <2>2. PICK t : t = CA!Drop(caOrder, k)
      OBVIOUS
    <2>3. Linked(CA!Remove(CA!Links, k), t) /\ Len(t) = Len(caOrder) - 1 /\ Members(t) = Members(caOrder) \ {k}
      BY <1>0, <2>1, <2>2, RemoveLinks, DropFacts
    <2>4. CA!SetLinks(CA!Remove(CA!Links, k)) /\ caOrder' = t
      BY <1>1, <1>2, <2>2 DEF CA!Evict
    <2>5. Linked(CA!Links, caOrder)'
      BY <2>3, <2>4, LinksSet
    <2>6. Members(caOrder)' = Members(t)
      BY <2>4 DEF Members
    <2>7. /\ IsFiniteSet(DOMAIN caLru \ {k}) /\ Cardinality(DOMAIN caLru \ {k}) = Cardinality(DOMAIN caLru) - 1
      BY <1>0, <1>2, FS_RemoveElement
    <2>8. /\ DOMAIN caLru' = DOMAIN caLru \ {k} /\ caLru' = [x \in DOMAIN caLru' |-> caLru'[x]]
          /\ \A x \in DOMAIN caLru' : caLru'[x] = caLru[x]
      BY <1>1
    <2>9. Len(t) = Cardinality(DOMAIN caLru') /\ Len(t) <= Capacity
      BY <1>0, <2>3, <2>7, <2>8
    <2> QED
      BY <1>0, <2>3, <2>4, <2>5, <2>6, <2>7, <2>8, <2>9 DEF LruOk
  <1>3. CASE k \notin DOMAIN caLru
    <2>1. CA!Drop(caOrder, k) = caOrder
      BY <1>0, <1>3 DEF CA!Drop, Members
    <2>2. CA!SetLinks(CA!Links) /\ caOrder' = caOrder
      BY <1>1, <1>3, <2>1 DEF CA!Evict
    <2>3. Linked(CA!Links, caOrder)'
      BY <1>0, <2>2, LinksSet
    <2>4. Members(caOrder)' = Members(caOrder)
      BY <2>2 DEF Members
    <2>5. /\ DOMAIN caLru' = DOMAIN caLru /\ caLru' = [x \in DOMAIN caLru' |-> caLru'[x]]
          /\ \A x \in DOMAIN caLru' : caLru'[x] = caLru[x]
      BY <1>1, <1>3
    <2> QED
      BY <1>0, <1>3, <2>2, <2>3, <2>4, <2>5 DEF LruOk
  <1> QED
    BY <1>2, <1>3

\* An empty list.
LEMMA ClearedIsLinked ==
  ASSUME NEW l, l = [n |-> [x \in CA!Nodes |-> IF x = CA!MRU THEN CA!LRU ELSE CA!Null],
                     p |-> [x \in CA!Nodes |-> IF x = CA!LRU THEN CA!MRU ELSE CA!Null]]
  PROVE  Linked(l, <<>>) /\ Members(<<>>) = {}
  <1>1. <<>> \in Recency /\ Len(<<>>) = 0
    BY DEF Recency
  <1>2. CA!MRU \in CA!Nodes /\ CA!LRU \in CA!Nodes /\ At(<<>>, 0) = CA!MRU /\ At(<<>>, 1) = CA!LRU
    BY <1>1 DEF CA!Nodes, At
  <1>3. l \in [n : [CA!Nodes -> CA!Nodes \cup {CA!Null}], p : [CA!Nodes -> CA!Nodes \cup {CA!Null}]]
    BY <1>2
  <1>4. l.n[CA!MRU] = CA!LRU /\ l.p[CA!LRU] = CA!MRU
    BY <1>2
  <1>5. \A m \in 0..0 : m = 0 /\ m + 1 = 1
    OBVIOUS
  <1>6. \A m \in 0..Len(<<>>) : l.n[At(<<>>, m)] = At(<<>>, m + 1) /\ l.p[At(<<>>, m + 1)] = At(<<>>, m)
    BY <1>1, <1>2, <1>4, <1>5
  <1> QED
    BY <1>1, <1>3, <1>6 DEF Linked, Members

-----------------------------------------------------------------------------
(* Caching: what the layers hold, the lock and the pages of lists.          *)

\* A request that is on its way has a key.
Calls == {r \in [step : {"idle", "asked", "found", "missed", "read", "changed", "dropping"},
                 key : CacheKeys \cup {CA!Null}, value : CA!Values] :
            r.step # "idle" => r.key \in CacheKeys}

CacheTypes ==
  /\ caRedis \in [DOMAIN caRedis -> CA!Values] /\ DOMAIN caRedis \subseteq CacheKeys
  /\ caLru \in [DOMAIN caLru -> CA!Values] /\ DOMAIN caLru \subseteq CacheKeys
  /\ caCall \in [Sessions -> Calls]

\* Some request has changed row k and its invalidation is at one of these steps.
Owed(k, steps) == \E c \in Sessions : caCall[c].key = k /\ caCall[c].step \in steps

\* Whatever is outdated is about to go, and no reader holds it.
FreshOk ==
  /\ \A k \in DOMAIN caLru : caLru[k] = "outdated" => Owed(k, {"changed"})
  /\ \A k \in DOMAIN caRedis : caRedis[k] = "outdated" => Owed(k, {"changed", "dropping"})
  /\ \A c \in Sessions : caCall[c].step \in {"found", "read"} => caCall[c].value # "outdated"

CacheOk == LruOk /\ CacheTypes /\ FreshOk

\* Until a lock has expired under its job, whoever is inside owns the lock.
LockOk ==
  /\ caOwner \in Jobs \cup {CA!NoJob} /\ caJob \in [Jobs -> {"idle", "inside", "free"}]
  /\ caOverran = {} => \A j \in Jobs : caJob[j] = "inside" => caOwner = j

\* An outdated page of a name was found by the invalidation that is under way.
PagesOk ==
  /\ caPages \in [DOMAIN caPages -> BOOLEAN]
  /\ \A l \in Sessions, which \in DOMAIN caPages :
       which[1] = l /\ caPages[which] = FALSE => IF l \in DOMAIN caSweep THEN which \in caSweep[l] ELSE l \in caUnswept

FaultsOk == caFaults \in Nat /\ caFaults <= CacheFaults

CachesInv == CacheOk /\ LockOk /\ PagesOk /\ FaultsOk

\* An empty cache, nobody inside.
LEMMA CachesInit == CA!Init => CachesInv
  <1> SUFFICES ASSUME CA!Init PROVE CachesInv
    OBVIOUS
  <1>1. LruOk
    <2>1. CA!Links = [n |-> [x \in CA!Nodes |-> IF x = CA!MRU THEN CA!LRU ELSE CA!Null],
                   p |-> [x \in CA!Nodes |-> IF x = CA!LRU THEN CA!MRU ELSE CA!Null]]
      BY DEF CA!Init, CA!Links
    <2>2. Linked(CA!Links, <<>>) /\ Members(<<>>) = {}
      BY <2>1, ClearedIsLinked
    <2>3. caOrder = <<>> /\ caLru = [k \in {} |-> "current"] /\ DOMAIN caLru = {} /\ Len(caOrder) = 0
      BY DEF CA!Init
    <2>4. IsFiniteSet({}) /\ Cardinality({}) = 0
      BY FS_EmptySet
    <2> QED
      BY <2>2, <2>3, <2>4, CachesAssumption DEF LruOk
  <1>2. CacheTypes /\ FreshOk
    <2>1. CA!Idle \in Calls
      BY DEF CA!Idle, CA!Values, Calls
    <2> QED
      BY <2>1 DEF CA!Init, CA!Idle, CacheTypes, FreshOk
  <1>3. LockOk
    BY DEF CA!Init, LockOk
  <1>4. PagesOk /\ FaultsOk
    BY CachesAssumption DEF CA!Init, PagesOk, FaultsOk
  <1> QED
    BY <1>1, <1>2, <1>3, <1>4 DEF CachesInv, CacheOk

\* The links and the map of the LRU cache are left alone.
LEMMA LruFrame ==
  ASSUME LruOk, UNCHANGED <<caNxt, caPrv, caLru, caOrder>>
  PROVE  LruOk'
  <1>1. CA!SetLinks(CA!Links) /\ Linked(CA!Links, caOrder) /\ caOrder' = caOrder
    BY DEF LruOk, CA!SetLinks, CA!Links
  <1>2. Linked(CA!Links, caOrder)'
    BY <1>1, LinksSet
  <1>3. Members(caOrder)' = Members(caOrder)
    BY DEF Members
  <1> QED
    BY <1>2, <1>3 DEF LruOk

\* What is not touched stays as it is.
LEMMA CacheFrame ==
  ASSUME CacheOk, UNCHANGED CA!cacheVars
  PROVE  CacheOk'
  <1>1. LruOk'
    BY LruFrame DEF CacheOk, CA!cacheVars
  <1>2. CacheTypes' /\ FreshOk'
    BY DEF CacheOk, CacheTypes, FreshOk, Owed, CA!cacheVars
  <1> QED
    BY <1>1, <1>2 DEF CacheOk

\* The lock is left alone.
LEMMA LockFrame ==
  ASSUME LockOk, UNCHANGED CA!lockVars
  PROVE  LockOk'
  BY DEF LockOk, CA!lockVars

\* The pages of lists are left alone.
LEMMA PagesFrame ==
  ASSUME PagesOk, UNCHANGED CA!listVars
  PROVE  PagesOk'
  BY DEF PagesOk, CA!listVars

\* A counted fault.
LEMMA FaultCounted ==
  ASSUME FaultsOk, UNCHANGED caFaults \/ CA!RedisFails
  PROVE  FaultsOk'
  BY CachesAssumption DEF FaultsOk, CA!RedisFails

\* One request goes on.
LEMMA CallTurns ==
  ASSUME CacheTypes, NEW c \in Sessions, NEW r \in Calls, caCall' = [caCall EXCEPT ![c] = r]
  PROVE  /\ caCall' \in [Sessions -> Calls] /\ caCall'[c] = r
         /\ \A d \in Sessions : d # c => caCall'[d] = caCall[d]
  BY DEF CacheTypes

\* A request that owes no invalidation goes on and leaves the layers as they are.
LEMMA ReaderTurns ==
  ASSUME CacheOk, NEW c \in Sessions, NEW r \in Calls, caCall' = [caCall EXCEPT ![c] = r],
         caCall[c].step \notin {"changed", "dropping"},
         r.step \in {"found", "read"} => r.value # "outdated",
         LruOk', UNCHANGED <<caLru, caRedis>>
  PROVE  CacheOk'
  <1>0. CacheTypes /\ FreshOk
    BY DEF CacheOk
  <1>1. /\ caCall' \in [Sessions -> Calls] /\ caCall'[c] = r
        /\ \A d \in Sessions : d # c => caCall'[d] = caCall[d]
    BY <1>0, CallTurns
  <1>2. CacheTypes'
    BY <1>0, <1>1 DEF CacheTypes
  <1>3. FreshOk'
    BY <1>0, <1>1 DEF FreshOk, Owed
  <1> QED
    BY <1>2, <1>3 DEF CacheOk

\* The record of a request that has ended.
LEMMA IdleIsCall == CA!Idle \in Calls /\ CA!Idle.step = "idle"
  BY DEF CA!Idle, CA!Values, Calls

\* What was read is put into Redis.
LEMMA SetKeeps ==
  ASSUME CacheOk, NEW c \in Sessions, CA!SetObservation(c)
  PROVE  CacheOk'
  <1>0. /\ UNCHANGED <<caNxt, caPrv, caLru, caOrder>> /\ LruOk /\ CacheTypes /\ FreshOk
        /\ caCall[c].step = "read" /\ caCall' = [caCall EXCEPT ![c] = CA!Idle]
    BY DEF CA!SetObservation, CA!Ends, CacheOk
  <1>1. LruOk'
    BY <1>0, LruFrame
  <1>2. CASE caRedis' = CA!With(caRedis, caCall[c].key, caCall[c].value)
    <2>1. PICK k, v : k = caCall[c].key /\ v = caCall[c].value
      OBVIOUS
    <2>2. k \in CacheKeys /\ v \in CA!Values /\ v # "outdated"
      BY <1>0, <2>1 DEF CacheTypes, Calls, FreshOk
    <2>3. /\ caRedis' \in [DOMAIN caRedis' -> CA!Values] /\ DOMAIN caRedis' = DOMAIN caRedis \cup {k}
          /\ caRedis'[k] = v /\ \A x \in DOMAIN caRedis \ {k} : caRedis'[x] = caRedis[x]
      <3>1. caRedis \in [DOMAIN caRedis -> CA!Values]
        BY <1>0 DEF CacheTypes
      <3>2. PICK w : w = CA!With(caRedis, k, v)
        OBVIOUS
      <3>3. /\ w \in [DOMAIN w -> CA!Values] /\ DOMAIN w = DOMAIN caRedis \cup {k}
            /\ w[k] = v /\ \A x \in DOMAIN caRedis \ {k} : w[x] = caRedis[x]
        BY <2>2, <3>1, <3>2 DEF CA!With
      <3> QED
        BY <1>2, <2>1, <3>2, <3>3
    <2>4. /\ caCall' \in [Sessions -> Calls] /\ caCall'[c] = CA!Idle
          /\ \A d \in Sessions : d # c => caCall'[d] = caCall[d]
      BY <1>0, IdleIsCall, CallTurns
    <2>5. CacheTypes'
      BY <1>0, <2>2, <2>3, <2>4 DEF CacheTypes
    <2>6. FreshOk'
      BY <1>0, <2>2, <2>3, <2>4, IdleIsCall DEF FreshOk, Owed
    <2> QED
      BY <1>1, <2>5, <2>6 DEF CacheOk
  <1>3. CASE UNCHANGED caRedis
    BY <1>0, <1>1, <1>3, IdleIsCall, ReaderTurns
  <1> QED
    BY <1>2, <1>3 DEF CA!SetObservation

\* An entry of Redis expires.
LEMMA ExpiryKeeps ==
  ASSUME CacheOk, NEW k \in CacheKeys, CA!EntryExpires(k)
  PROVE  CacheOk'
  <1>0. UNCHANGED <<caNxt, caPrv, caLru, caOrder, caCall>> /\ LruOk /\ CacheTypes /\ FreshOk
    BY DEF CA!EntryExpires, CacheOk
  <1>1. LruOk'
    BY <1>0, LruFrame
  <1>2. /\ caRedis' \in [DOMAIN caRedis' -> CA!Values] /\ DOMAIN caRedis' = DOMAIN caRedis \ {k}
        /\ \A x \in DOMAIN caRedis \ {k} : caRedis'[x] = caRedis[x]
    BY <1>0 DEF CA!EntryExpires, CA!Without, CacheTypes
  <1>3. CacheTypes'
    BY <1>0, <1>2 DEF CacheTypes
  <1>4. FreshOk'
    BY <1>0, <1>2 DEF FreshOk, Owed
  <1> QED
    BY <1>1, <1>3, <1>4 DEF CacheOk

\* A read hits the list, or misses it.
LEMMA LookupKeeps ==
  ASSUME CacheOk, NEW c \in Sessions, NEW k \in CacheKeys, CA!GetObservationWithLru(c, k)
  PROVE  CacheOk'
  <1>0. UNCHANGED caRedis /\ LruOk /\ CacheTypes /\ FreshOk /\ caCall[c].step = "idle"
    BY DEF CA!GetObservationWithLru, CacheOk
  <1>1. CASE k \in DOMAIN caLru /\ CA!Touch(k) /\ UNCHANGED caCall
    <2>1. LruOk' /\ caLru' = caLru
      BY <1>0, <1>1, TouchKeeps
    <2>2. CacheTypes' /\ FreshOk'
      BY <1>0, <1>1, <2>1 DEF CacheTypes, FreshOk, Owed
    <2> QED
      BY <2>1, <2>2 DEF CacheOk
  <1>2. CASE /\ CA!Becomes(c, IF caConnected THEN "asked" ELSE "missed", k, "current")
             /\ UNCHANGED <<caNxt, caPrv, caLru, caOrder>>
    <2>1. PICK r : r = [step |-> IF caConnected THEN "asked" ELSE "missed", key |-> k, value |-> "current"]
      OBVIOUS
    <2>2. r \in Calls /\ r.step \in {"asked", "missed"}
      BY <2>1 DEF Calls, CA!Values
    <2>3. caCall' = [caCall EXCEPT ![c] = r]
      BY <1>2, <2>1 DEF CA!Becomes
    <2>4. LruOk'
      BY <1>0, <1>2, LruFrame
    <2> QED
      BY <1>0, <1>2, <2>2, <2>3, <2>4, ReaderTurns
  <1> QED
    BY <1>1, <1>2 DEF CA!GetObservationWithLru

\* Redis answers, or the call fails.
LEMMA AnswerKeeps ==
  ASSUME CacheOk, NEW c \in Sessions, CA!GetObservation(c)
  PROVE  CacheOk'
  <1>0. /\ UNCHANGED <<caNxt, caPrv, caLru, caOrder, caRedis>> /\ LruOk /\ CacheTypes /\ FreshOk
        /\ caCall[c].step = "asked"
    BY DEF CA!GetObservation, CacheOk
  <1>1. LruOk'
    BY <1>0, LruFrame
  <1>2. PICK k : k = caCall[c].key
    OBVIOUS
  <1>3. k \in CacheKeys
    BY <1>0, <1>2 DEF CacheTypes, Calls
  <1>4. CASE k \in DOMAIN caRedis /\ CA!Becomes(c, "found", k, IF caRedis[k] = "outdated" THEN "excused" ELSE caRedis[k])
    <2>1. PICK v : v = IF caRedis[k] = "outdated" THEN "excused" ELSE caRedis[k]
      OBVIOUS
    <2>2. v \in CA!Values /\ v # "outdated"
      BY <1>0, <1>4, <2>1 DEF CacheTypes, CA!Values
    <2>3. PICK r : r = [step |-> "found", key |-> k, value |-> v]
      OBVIOUS
    <2>4. r \in Calls /\ r.value # "outdated"
      BY <1>3, <2>2, <2>3 DEF Calls
    <2>5. caCall' = [caCall EXCEPT ![c] = r]
      BY <1>4, <2>1, <2>3 DEF CA!Becomes
    <2> QED
      BY <1>0, <1>1, <2>4, <2>5, ReaderTurns
  <1>5. CASE CA!Becomes(c, "missed", k, "current")
    <2>1. PICK r : r = [step |-> "missed", key |-> k, value |-> "current"]
      OBVIOUS
    <2>2. r \in Calls /\ r.step = "missed"
      BY <1>3, <2>1 DEF Calls, CA!Values
    <2>3. caCall' = [caCall EXCEPT ![c] = r]
      BY <1>5, <2>1 DEF CA!Becomes
    <2> QED
      BY <1>0, <1>1, <2>2, <2>3, ReaderTurns
  <1> QED
    BY <1>2, <1>4, <1>5 DEF CA!GetObservation

\* The row is read, or is not there.
LEMMA RowReadKeeps ==
  ASSUME CacheOk, NEW c \in Sessions, CA!ReadRow(c)
  PROVE  CacheOk'
  <1>0. /\ UNCHANGED <<caNxt, caPrv, caLru, caOrder, caRedis>> /\ LruOk /\ CacheTypes /\ FreshOk
        /\ caCall[c].step = "missed"
    BY DEF CA!ReadRow, CacheOk
  <1>1. LruOk'
    BY <1>0, LruFrame
  <1>2. CASE CA!Ends(c)
    BY <1>0, <1>1, <1>2, IdleIsCall, ReaderTurns DEF CA!Ends
  <1>3. CASE CA!Becomes(c, "read", caCall[c].key, "current")
    <2>1. PICK r : r = [step |-> "read", key |-> caCall[c].key, value |-> "current"]
      OBVIOUS
    <2>2. r \in Calls /\ r.value = "current"
      BY <1>0, <2>1 DEF CacheTypes, Calls, CA!Values
    <2>3. caCall' = [caCall EXCEPT ![c] = r]
      BY <1>3, <2>1 DEF CA!Becomes
    <2> QED
      BY <1>0, <1>1, <2>2, <2>3, ReaderTurns
  <1> QED
    BY <1>2, <1>3 DEF CA!ReadRow

\* What Redis gave is put into the list.
LEMMA BackFillKeeps ==
  ASSUME CacheOk, NEW c \in Sessions, CA!BackFill(c)
  PROVE  CacheOk'
  <1>0. /\ UNCHANGED caRedis /\ LruOk /\ CacheTypes /\ FreshOk /\ caCall[c].step = "found"
        /\ caCall' = [caCall EXCEPT ![c] = CA!Idle]
    BY DEF CA!BackFill, CA!Ends, CacheOk
  <1>1. PICK k, v : k = caCall[c].key /\ v = caCall[c].value
    OBVIOUS
  <1>2. k \in CacheKeys /\ v \in CA!Values /\ v # "outdated" /\ CA!Put(k, v)
    BY <1>0, <1>1 DEF CacheTypes, Calls, FreshOk, CA!BackFill
  <1>3. /\ LruOk' /\ DOMAIN caLru' \subseteq DOMAIN caLru \cup {k}
        /\ \A x \in DOMAIN caLru' : caLru'[x] = IF x = k THEN v ELSE caLru[x]
    BY <1>0, <1>2, PutKeeps
  <1>4. /\ caCall' \in [Sessions -> Calls] /\ caCall'[c] = CA!Idle
        /\ \A d \in Sessions : d # c => caCall'[d] = caCall[d]
    BY <1>0, IdleIsCall, CallTurns
  <1>5. caLru' \in [DOMAIN caLru' -> CA!Values]
    <2>1. caLru' = [x \in DOMAIN caLru' |-> caLru'[x]]
      BY <1>3 DEF LruOk
    <2>2. \A x \in DOMAIN caLru' : caLru'[x] \in CA!Values
      <3>1. \A x \in DOMAIN caLru : caLru[x] \in CA!Values
        BY <1>0 DEF CacheTypes
      <3> QED
        BY <1>2, <1>3, <3>1
    <2> QED
      BY <2>1, <2>2
  <1>6. CacheTypes'
    BY <1>0, <1>2, <1>3, <1>4, <1>5 DEF CacheTypes
  <1>7. FreshOk'
    <2>1. ASSUME NEW x \in DOMAIN caLru', caLru'[x] = "outdated" PROVE Owed(x, {"changed"})'
      <3>1. x \in DOMAIN caLru /\ caLru[x] = "outdated"
        BY <1>2, <1>3, <2>1
      <3> QED
        BY <1>0, <1>4, <3>1 DEF FreshOk, Owed
    <2> QED
      BY <1>0, <1>4, <2>1, IdleIsCall DEF FreshOk, Owed
  <1> QED
    BY <1>3, <1>6, <1>7 DEF CacheOk

\* The entries and links of the list keep their places while values change.
LEMMA LruRevalued ==
  ASSUME LruOk, UNCHANGED <<caNxt, caPrv, caOrder>>, DOMAIN caLru' = DOMAIN caLru,
         caLru' = [x \in DOMAIN caLru' |-> caLru'[x]]
  PROVE  LruOk'
  <1>1. CA!SetLinks(CA!Links) /\ Linked(CA!Links, caOrder) /\ caOrder' = caOrder
    BY DEF LruOk, CA!SetLinks, CA!Links
  <1>2. Linked(CA!Links, caOrder)'
    BY <1>1, LinksSet
  <1>3. Members(caOrder)' = Members(caOrder)
    BY DEF Members
  <1> QED
    BY <1>2, <1>3 DEF LruOk

\* Values change for one key only.
Revalued(f, g, k) ==
  /\ g \in [DOMAIN f -> CA!Values] /\ DOMAIN g = DOMAIN f
  /\ \A x \in DOMAIN f : x # k => g[x] = f[x]

LEMMA OutdatedValues ==
  ASSUME NEW f, NEW k, f \in [DOMAIN f -> CA!Values], NEW g, g = IF k \in DOMAIN f THEN CA!Outdate(f, k) ELSE f
  PROVE  Revalued(f, g, k)
  BY DEF CA!Outdate, CA!Values, Revalued

LEMMA AbandonedValues ==
  ASSUME NEW f, NEW k, f \in [DOMAIN f -> CA!Values], NEW g, g = IF k \in DOMAIN f THEN CA!Abandon(f, k) ELSE f
  PROVE  Revalued(f, g, k) /\ \A x \in DOMAIN f : g[x] = "outdated" => f[x] = "outdated"
  BY DEF CA!Abandon, CA!Values, Revalued

LEMMA ExcusedValues ==
  ASSUME NEW f, NEW k, f \in [DOMAIN f -> CA!Values], NEW g, g = IF k \in DOMAIN f THEN [f EXCEPT ![k] = "excused"] ELSE f
  PROVE  Revalued(f, g, k) /\ (k \in DOMAIN g => g[k] = "excused")
  BY DEF CA!Values, Revalued

\* The readers of a changed row.
LEMMA ReadersOvertaken ==
  ASSUME CacheTypes, FreshOk, NEW k
  PROVE  /\ CA!Overlapped(k) \in [Sessions -> Calls]
         /\ \A c \in Sessions : /\ CA!Overlapped(k)[c].key = caCall[c].key
                                /\ CA!Overlapped(k)[c].step = caCall[c].step
                                /\ caCall[c].step \in {"found", "read"} => CA!Overlapped(k)[c].value # "outdated"
  <1>1. ASSUME NEW c \in Sessions
        PROVE  /\ CA!Overlapped(k)[c] \in Calls /\ CA!Overlapped(k)[c].key = caCall[c].key
               /\ CA!Overlapped(k)[c].step = caCall[c].step
               /\ caCall[c].step \in {"found", "read"} => CA!Overlapped(k)[c].value # "outdated"
    <2>1. caCall[c] \in Calls
      BY DEF CacheTypes
    <2>2. PICK r : r = caCall[c]
      OBVIOUS
    <2>3. PICK s : s = [r EXCEPT !.value = "excused"]
      OBVIOUS
    <2>4. s \in Calls /\ s.key = r.key /\ s.step = r.step /\ s.value = "excused"
      BY <2>1, <2>2, <2>3 DEF Calls, CA!Values
    <2>5. CA!Overlapped(k)[c] = IF r.key = k /\ r.step \in {"found", "read"} THEN s ELSE r
      BY <2>2, <2>3 DEF CA!Overlapped
    <2>6. r.step \in {"found", "read"} => r.value # "outdated"
      BY <2>2 DEF FreshOk
    <2> QED
      BY <2>1, <2>2, <2>4, <2>5, <2>6
  <1>2. CA!Overlapped(k) = [c \in Sessions |-> CA!Overlapped(k)[c]]
    BY DEF CA!Overlapped
  <1> QED
    BY <1>1, <1>2

\* A row changes and an invalidation is owed.
LEMMA ChangeKeeps ==
  ASSUME CacheOk, NEW c \in Sessions, NEW k \in CacheKeys, CA!ChangeObservation(c, k)
  PROVE  CacheOk'
  <1>0. /\ UNCHANGED <<caNxt, caPrv, caOrder>> /\ LruOk /\ CacheTypes /\ FreshOk /\ caCall[c].step = "idle"
        /\ caLru' = (IF k \in DOMAIN caLru THEN CA!Outdate(caLru, k) ELSE caLru)
        /\ caRedis' = (IF k \in DOMAIN caRedis THEN CA!Outdate(caRedis, k) ELSE caRedis)
    BY DEF CA!ChangeObservation, CacheOk
  <1>1. Revalued(caLru, caLru', k) /\ Revalued(caRedis, caRedis', k)
    BY <1>0, OutdatedValues DEF CacheTypes
  <1>2. PICK o : o = CA!Overlapped(k)
    OBVIOUS
  <1>3. PICK r : r = [step |-> "changed", key |-> k, value |-> "current"]
    OBVIOUS
  <1>4. r \in Calls /\ r.key = k /\ r.step = "changed"
    BY <1>3 DEF Calls, CA!Values
  <1>5. /\ o \in [Sessions -> Calls]
        /\ \A d \in Sessions : /\ o[d].key = caCall[d].key /\ o[d].step = caCall[d].step
                               /\ caCall[d].step \in {"found", "read"} => o[d].value # "outdated"
    BY <1>0, <1>2, ReadersOvertaken
  <1>6. caCall' = [o EXCEPT ![c] = r]
    BY <1>2, <1>3 DEF CA!ChangeObservation
  <1>7. caCall' \in [Sessions -> Calls] /\ caCall'[c] = r /\ \A d \in Sessions : d # c => caCall'[d] = o[d]
    BY <1>4, <1>5, <1>6
  <1>8. LruOk'
    BY <1>0, <1>1, LruRevalued DEF Revalued
  <1>9. CacheTypes'
    BY <1>0, <1>1, <1>7 DEF CacheTypes, Revalued
  <1>10. ASSUME NEW x, NEW steps, Owed(x, steps) PROVE Owed(x, steps)' \/ "idle" \in steps
    <2>1. PICK d \in Sessions : caCall[d].key = x /\ caCall[d].step \in steps
      BY <1>10 DEF Owed
    <2>2. CASE d = c
      BY <1>0, <2>1, <2>2
    <2>3. CASE d # c
      <3>1. caCall'[d].key = x /\ caCall'[d].step \in steps
        BY <1>5, <1>7, <2>1, <2>3
      <3> QED
        BY <3>1 DEF Owed
    <2> QED
      BY <2>2, <2>3
  <1>11. Owed(k, {"changed"})' /\ Owed(k, {"changed", "dropping"})'
    BY <1>4, <1>7 DEF Owed
  <1>12. \A x \in DOMAIN caLru' : caLru'[x] = "outdated" => Owed(x, {"changed"})'
    <2>1. ASSUME NEW x \in DOMAIN caLru', caLru'[x] = "outdated", x # k PROVE Owed(x, {"changed"})'
      <3>1. x \in DOMAIN caLru /\ caLru[x] = "outdated"
        BY <1>1, <2>1 DEF Revalued
      <3>2. Owed(x, {"changed"})
        BY <1>0, <3>1 DEF FreshOk
      <3> QED
        BY <1>10, <3>2
    <2> QED
      BY <1>11, <2>1
  <1>13. \A x \in DOMAIN caRedis' : caRedis'[x] = "outdated" => Owed(x, {"changed", "dropping"})'
    <2>1. ASSUME NEW x \in DOMAIN caRedis', caRedis'[x] = "outdated", x # k PROVE Owed(x, {"changed", "dropping"})'
      <3>1. x \in DOMAIN caRedis /\ caRedis[x] = "outdated"
        BY <1>1, <2>1 DEF Revalued
      <3>2. Owed(x, {"changed", "dropping"})
        BY <1>0, <3>1 DEF FreshOk
      <3> QED
        BY <1>10, <3>2
    <2> QED
      BY <1>11, <2>1
  <1>14. \A d \in Sessions : caCall'[d].step \in {"found", "read"} => caCall'[d].value # "outdated"
    <2> TAKE d \in Sessions
    <2>1. CASE d = c
      BY <1>4, <1>7, <2>1
    <2>2. CASE d # c
      BY <1>5, <1>7, <2>2
    <2> QED
      BY <2>1, <2>2
  <1>15. FreshOk'
    BY <1>12, <1>13, <1>14 DEF FreshOk
  <1> QED
    BY <1>8, <1>9, <1>15 DEF CacheOk

\* A row changes and nobody invalidates it.
LEMMA UnannouncedKeeps ==
  ASSUME CacheOk, NEW k \in CacheKeys, CA!ChangeUnannounced(k)
  PROVE  CacheOk'
  <1>0. /\ UNCHANGED <<caNxt, caPrv, caOrder>> /\ LruOk /\ CacheTypes /\ FreshOk
        /\ caLru' = (IF k \in DOMAIN caLru THEN CA!Abandon(caLru, k) ELSE caLru)
        /\ caRedis' = (IF k \in DOMAIN caRedis THEN CA!Abandon(caRedis, k) ELSE caRedis)
        /\ caCall' = CA!Overlapped(k)
    BY DEF CA!ChangeUnannounced, CacheOk
  <1>1. /\ Revalued(caLru, caLru', k) /\ \A x \in DOMAIN caLru : caLru'[x] = "outdated" => caLru[x] = "outdated"
        /\ Revalued(caRedis, caRedis', k) /\ \A x \in DOMAIN caRedis : caRedis'[x] = "outdated" => caRedis[x] = "outdated"
    BY <1>0, AbandonedValues DEF CacheTypes
  <1>2. /\ caCall' \in [Sessions -> Calls]
        /\ \A d \in Sessions : /\ caCall'[d].key = caCall[d].key /\ caCall'[d].step = caCall[d].step
                               /\ caCall[d].step \in {"found", "read"} => caCall'[d].value # "outdated"
    BY <1>0, ReadersOvertaken
  <1>3. LruOk'
    BY <1>0, <1>1, LruRevalued DEF Revalued
  <1>4. CacheTypes'
    BY <1>0, <1>1, <1>2 DEF CacheTypes, Revalued
  <1>5. FreshOk'
    <2>1. ASSUME NEW x, NEW steps, Owed(x, steps) PROVE Owed(x, steps)'
      BY <1>2, <2>1 DEF Owed
    <2>2. \A x \in DOMAIN caLru' : caLru'[x] = "outdated" => Owed(x, {"changed"})'
      BY <1>0, <1>1, <2>1 DEF FreshOk, Revalued
    <2>3. \A x \in DOMAIN caRedis' : caRedis'[x] = "outdated" => Owed(x, {"changed", "dropping"})'
      BY <1>0, <1>1, <2>1 DEF FreshOk, Revalued
    <2>4. \A d \in Sessions : caCall'[d].step \in {"found", "read"} => caCall'[d].value # "outdated"
      BY <1>2
    <2> QED
      BY <2>2, <2>3, <2>4 DEF FreshOk
  <1> QED
    BY <1>3, <1>4, <1>5 DEF CacheOk

\* The list loses its entry; without Redis that is all.
LEMMA InvalidateKeeps ==
  ASSUME CacheOk, NEW c \in Sessions, CA!InvalidateObservationAllLayers(c)
  PROVE  CacheOk'
  <1>0. LruOk /\ CacheTypes /\ FreshOk /\ caCall[c].step = "changed" /\ CA!Evict(caCall[c].key)
    BY DEF CA!InvalidateObservationAllLayers, CA!InvalidateLru, CacheOk
  <1>1. PICK k : k = caCall[c].key
    OBVIOUS
  <1>2. LruOk' /\ DOMAIN caLru' = DOMAIN caLru \ {k} /\ \A x \in DOMAIN caLru' : caLru'[x] = caLru[x]
    BY <1>0, <1>1, EvictKeeps
  <1>3. PICK r : caCall' = [caCall EXCEPT ![c] = r] /\ (r = CA!Idle \/ r = [caCall[c] EXCEPT !.step = "dropping"])
    BY DEF CA!InvalidateObservationAllLayers, CA!Ends
  <1>4. r \in Calls /\ r.step \in {"idle", "dropping"}
    BY <1>0, <1>3, IdleIsCall DEF CacheTypes, Calls
  <1>5. /\ caCall' \in [Sessions -> Calls] /\ caCall'[c] = r
        /\ \A d \in Sessions : d # c => caCall'[d] = caCall[d]
    BY <1>0, <1>3, <1>4, CallTurns
  <1>6. /\ Revalued(caRedis, caRedis', k)
        /\ \/ caRedis' = caRedis /\ r.step = "dropping" /\ r.key = k
           \/ k \in DOMAIN caRedis' => caRedis'[k] = "excused"
    <2>1. CASE caRedis' = caRedis /\ caCall' = [caCall EXCEPT ![c].step = "dropping"]
      <3>1. caCall'[c].key = k /\ caCall'[c].step = "dropping"
        BY <1>0, <1>1, <2>1 DEF CacheTypes, Calls
      <3> QED
        BY <1>0, <1>5, <2>1, <3>1 DEF CacheTypes, Revalued
    <2>2. CASE CA!NotDeleted(k)
      BY <1>0, <2>2, ExcusedValues DEF CA!NotDeleted, CacheTypes
    <2> QED
      BY <1>1, <2>1, <2>2 DEF CA!InvalidateObservationAllLayers
  <1>7. caLru' \in [DOMAIN caLru' -> CA!Values]
    <2>1. caLru' = [x \in DOMAIN caLru' |-> caLru'[x]]
      BY <1>2 DEF LruOk
    <2>2. \A x \in DOMAIN caLru' : caLru'[x] \in CA!Values
      <3>1. \A x \in DOMAIN caLru : caLru[x] \in CA!Values
        BY <1>0 DEF CacheTypes
      <3> QED
        BY <1>2, <3>1
    <2> QED
      BY <2>1, <2>2
  <1>8. CacheTypes'
    BY <1>0, <1>2, <1>5, <1>6, <1>7 DEF CacheTypes, Revalued
  <1>9. ASSUME NEW x, NEW steps, x # k, Owed(x, steps) PROVE Owed(x, steps)'
    BY <1>1, <1>5, <1>9 DEF Owed
  <1>10. \A x \in DOMAIN caLru' : caLru'[x] = "outdated" => Owed(x, {"changed"})'
    BY <1>0, <1>2, <1>9 DEF FreshOk
  <1>11. ASSUME NEW x \in DOMAIN caRedis', caRedis'[x] = "outdated" PROVE Owed(x, {"changed", "dropping"})'
    <2>1. CASE x = k
      <3>1. r.step = "dropping" /\ r.key = k
        BY <1>6, <1>11, <2>1
      <3> QED
        BY <1>5, <2>1, <3>1 DEF Owed
    <2>2. CASE x # k
      <3>1. x \in DOMAIN caRedis /\ caRedis[x] = "outdated"
        BY <1>6, <1>11, <2>2 DEF Revalued
      <3> QED
        BY <1>0, <1>9, <2>2, <3>1 DEF FreshOk
    <2> QED
      BY <2>1, <2>2
  <1>12. \A d \in Sessions : caCall'[d].step \in {"found", "read"} => caCall'[d].value # "outdated"
    BY <1>0, <1>4, <1>5 DEF FreshOk
  <1>13. FreshOk'
    BY <1>10, <1>11, <1>12 DEF FreshOk
  <1> QED
    BY <1>2, <1>8, <1>13 DEF CacheOk

\* The entry of Redis is deleted, or the call fails.
LEMMA DeleteKeepsCache ==
  ASSUME CacheOk, NEW c \in Sessions, CA!InvalidateObservation(c)
  PROVE  CacheOk'
  <1>0. /\ UNCHANGED <<caNxt, caPrv, caLru, caOrder>> /\ caCall' = [caCall EXCEPT ![c] = CA!Idle]
        /\ LruOk /\ CacheTypes /\ FreshOk /\ caCall[c].step = "dropping"
    BY DEF CA!InvalidateObservation, CA!Ends, CacheOk
  <1>1. LruOk'
    BY <1>0, LruFrame
  <1>2. /\ caCall' \in [Sessions -> Calls] /\ caCall'[c] = CA!Idle
        /\ \A d \in Sessions : d # c => caCall'[d] = caCall[d]
    BY <1>0, IdleIsCall, CallTurns
  <1>3. PICK k : k = caCall[c].key
    OBVIOUS
  <1>4. /\ caRedis' \in [DOMAIN caRedis' -> CA!Values] /\ DOMAIN caRedis' \subseteq DOMAIN caRedis
        /\ \A x \in DOMAIN caRedis' : IF x = k THEN caRedis'[x] = "excused" ELSE caRedis'[x] = caRedis[x]
    <2>1. CASE caRedis' = CA!Without(caRedis, k)
      BY <1>0, <2>1 DEF CA!Without, CacheTypes
    <2>2. CASE CA!NotDeleted(k)
      BY <1>0, <2>2, ExcusedValues DEF CA!NotDeleted, CacheTypes, Revalued
    <2> QED
      BY <1>3, <2>1, <2>2 DEF CA!InvalidateObservation
  <1>5. CacheTypes'
    BY <1>0, <1>2, <1>4 DEF CacheTypes
  <1>6. ASSUME NEW x, NEW steps, x # k \/ "dropping" \notin steps, Owed(x, steps) PROVE Owed(x, steps)'
    BY <1>0, <1>2, <1>3, <1>6 DEF Owed
  <1>7. \A x \in DOMAIN caLru' : caLru'[x] = "outdated" => Owed(x, {"changed"})'
    BY <1>0, <1>6 DEF FreshOk
  <1>8. \A x \in DOMAIN caRedis' : caRedis'[x] = "outdated" => Owed(x, {"changed", "dropping"})'
    BY <1>0, <1>4, <1>6 DEF FreshOk
  <1>9. \A d \in Sessions : caCall'[d].step \in {"found", "read"} => caCall'[d].value # "outdated"
    BY <1>0, <1>2, IdleIsCall DEF FreshOk
  <1>10. FreshOk'
    BY <1>7, <1>8, <1>9 DEF FreshOk
  <1> QED
    BY <1>1, <1>5, <1>10 DEF CacheOk

\* The list is cleared.
LEMMA ClearKeeps ==
  ASSUME CacheOk, CA!Clear
  PROVE  CacheOk'
  <1>1. UNCHANGED <<caRedis, caCall>> /\ CacheTypes /\ FreshOk
    BY DEF CA!Clear, CacheOk
  <1>2. PICK l : l = [n |-> [x \in CA!Nodes |-> IF x = CA!MRU THEN CA!LRU ELSE CA!Null],
                      p |-> [x \in CA!Nodes |-> IF x = CA!LRU THEN CA!MRU ELSE CA!Null]]
    OBVIOUS
  <1>3. CA!SetLinks(l) /\ caOrder' = <<>> /\ caLru' = [k \in {} |-> "current"]
    BY <1>2 DEF CA!Clear, CA!SetLinks
  <1>4. Linked(l, <<>>) /\ Members(<<>>) = {}
    BY <1>2, ClearedIsLinked
  <1>5. Linked(CA!Links, caOrder)'
    BY <1>3, <1>4, LinksSet
  <1>6. DOMAIN caLru' = {} /\ Members(caOrder)' = {} /\ Len(caOrder') = 0 /\ caLru' = [k \in DOMAIN caLru' |-> caLru'[k]]
    BY <1>3, <1>4 DEF Members
  <1>7. IsFiniteSet({}) /\ Cardinality({}) = 0
    BY FS_EmptySet
  <1>8. LruOk'
    BY <1>5, <1>6, <1>7, CachesAssumption DEF LruOk
  <1>9. CacheTypes'
    BY <1>1, <1>3 DEF CacheTypes
  <1>10. FreshOk'
    BY <1>1, <1>6 DEF FreshOk, Owed
  <1> QED
    BY <1>8, <1>9, <1>10 DEF CacheOk

\* A step of the two layers.
LEMMA CacheStepKeeps ==
  ASSUME CachesInv, CA!CacheStep
  PROVE  CachesInv'
  <1>0. CacheOk /\ LockOk /\ PagesOk /\ FaultsOk
    BY DEF CachesInv
  <1>1. UNCHANGED CA!lockVars /\ UNCHANGED CA!listVars
    BY DEF CA!CacheStep, CA!ConnectCache, CA!DisconnectCache, CA!Clear, CA!SetObservation, CA!EntryExpires,
           CA!GetObservationWithLru, CA!GetObservation, CA!BackFill, CA!ReadRow, CA!ChangeObservation,
           CA!ChangeUnannounced, CA!InvalidateObservationAllLayers, CA!InvalidateObservation
  <1>2. LockOk' /\ PagesOk'
    BY <1>0, <1>1, LockFrame, PagesFrame
  <1>3. UNCHANGED caFaults \/ CA!RedisFails
    BY DEF CA!CacheStep, CA!ConnectCache, CA!DisconnectCache, CA!Clear, CA!SetObservation, CA!EntryExpires,
           CA!GetObservationWithLru, CA!GetObservation, CA!BackFill, CA!ReadRow, CA!ChangeObservation,
           CA!ChangeUnannounced, CA!InvalidateObservationAllLayers, CA!InvalidateObservation
  <1>4. FaultsOk'
    BY <1>0, <1>3, FaultCounted
  <1>5. CacheOk'
    <2>1. CASE CA!ConnectCache \/ CA!DisconnectCache
      BY <1>0, <2>1, CacheFrame DEF CA!ConnectCache, CA!DisconnectCache
    <2> QED
      BY <1>0, <2>1, SetKeeps, ExpiryKeeps, LookupKeeps, AnswerKeeps, RowReadKeeps, BackFillKeeps,
         ChangeKeeps, UnannouncedKeeps, InvalidateKeeps, DeleteKeepsCache, ClearKeeps DEF CA!CacheStep
  <1> QED
    BY <1>2, <1>4, <1>5 DEF CachesInv

\* A job takes the lock, its lock expires, it leaves.
LEMMA LockStepKeeps ==
  ASSUME CachesInv, CA!LockStep
  PROVE  CachesInv'
  <1>0. CacheOk /\ LockOk /\ PagesOk /\ FaultsOk /\ CA!NoJob \notin Jobs
    BY CachesAssumption DEF CachesInv, CA!NoJob
  <1>1. UNCHANGED CA!cacheVars /\ UNCHANGED CA!listVars
    BY DEF CA!LockStep, CA!LockExpires, CA!IngestScheduledBatchExample, CA!Lock, CA!Unlock
  <1>2. CacheOk' /\ PagesOk'
    BY <1>0, <1>1, CacheFrame, PagesFrame
  <1>3. UNCHANGED caFaults \/ CA!RedisFails
    BY DEF CA!LockStep, CA!LockExpires, CA!IngestScheduledBatchExample, CA!Lock, CA!Unlock, CA!RedisFails
  <1>4. FaultsOk'
    BY <1>0, <1>3, FaultCounted
  <1>5. LockOk'
    <2>1. CASE CA!LockExpires
      <3>1. /\ caOwner' = CA!NoJob /\ caJob' = caJob
            /\ caOverran' = caOverran \cup {j \in Jobs : caJob[j] = "inside" /\ j = caOwner}
        BY <2>1 DEF CA!LockExpires
      <3>2. ASSUME caOverran' = {}, NEW j \in Jobs, caJob'[j] = "inside" PROVE FALSE
        <4>1. caOverran = {} /\ caJob[j] = "inside"
          BY <3>1, <3>2
        <4>2. caOwner = j
          BY <1>0, <4>1 DEF LockOk
        <4>3. j \in caOverran'
          BY <3>1, <4>1, <4>2
        <4> QED
          BY <3>2, <4>3
      <3> QED
        BY <1>0, <3>1, <3>2 DEF LockOk
    <2>2. ASSUME NEW j \in Jobs, CA!Lock(j) PROVE LockOk'
      <3>0. caOverran' = caOverran
        BY <2>2 DEF CA!Lock
      <3>1. CASE caJob' = [caJob EXCEPT ![j] = "free"] /\ UNCHANGED caOwner
        BY <1>0, <3>0, <3>1 DEF LockOk
      <3>2. CASE CA!Acquires(j) /\ caOwner' = j /\ caJob' = [caJob EXCEPT ![j] = "inside"]
        <4>1. caOwner = CA!NoJob
          BY <3>2 DEF CA!Acquires
        <4>2. caOverran = {} => \A i \in Jobs : caJob[i] # "inside"
          BY <1>0, <4>1 DEF LockOk
        <4>3. caJob' \in [Jobs -> {"idle", "inside", "free"}] /\ caOwner' \in Jobs \cup {CA!NoJob}
          BY <1>0, <3>2 DEF LockOk
        <4>4. \A i \in Jobs : i # j => caJob'[i] = caJob[i]
          BY <1>0, <3>2 DEF LockOk
        <4> QED
          BY <3>0, <3>2, <4>2, <4>3, <4>4 DEF LockOk
      <3>3. CASE UNCHANGED <<caJob, caOwner>>
        BY <1>0, <3>0, <3>3 DEF LockOk
      <3> QED
        BY <2>2, <3>1, <3>2, <3>3 DEF CA!Lock
    <2>3. ASSUME NEW j \in Jobs, CA!Unlock(j) PROVE LockOk'
      <3>0. caOverran' = caOverran /\ caJob' = [caJob EXCEPT ![j] = "idle"] /\ caJob \in [Jobs -> {"idle", "inside", "free"}]
        BY <1>0, <2>3 DEF CA!Unlock, LockOk
      <3>1. /\ caJob' \in [Jobs -> {"idle", "inside", "free"}] /\ caJob'[j] = "idle"
            /\ \A i \in Jobs : i # j => caJob'[i] = caJob[i]
        BY <3>0
      <3>2. CASE UNCHANGED caOwner
        BY <1>0, <3>0, <3>1, <3>2 DEF LockOk
      <3>3. CASE caJob[j] = "inside" /\ caOwner' = CA!NoJob
        <4>1. caOverran = {} => caOwner = j /\ \A i \in Jobs : caJob[i] = "inside" => i = j
          BY <1>0, <3>3 DEF LockOk
        <4> QED
          BY <3>0, <3>1, <3>3, <4>1 DEF LockOk
      <3> QED
        BY <2>3, <3>2, <3>3 DEF CA!Unlock
    <2> QED
      BY <2>1, <2>2, <2>3 DEF CA!LockStep, CA!IngestScheduledBatchExample
  <1> QED
    BY <1>2, <1>4, <1>5 DEF CachesInv

\* A fresh page is written, or the call fails.
LEMMA SetPageKeeps ==
  ASSUME PagesOk, NEW which, CA!SetPage(which), UNCHANGED <<caSweep, caUnswept>>
  PROVE  PagesOk'
  <1>1. CASE caPages' = CA!With(caPages, which, TRUE)
    <2>1. caPages \in [DOMAIN caPages -> BOOLEAN]
      BY DEF PagesOk
    <2>2. /\ caPages' \in [DOMAIN caPages' -> BOOLEAN] /\ DOMAIN caPages' = DOMAIN caPages \cup {which}
          /\ caPages'[which] = TRUE /\ \A x \in DOMAIN caPages \ {which} : caPages'[x] = caPages[x]
      <3>1. PICK w : w = CA!With(caPages, which, TRUE)
        OBVIOUS
      <3>2. /\ w \in [DOMAIN w -> BOOLEAN] /\ DOMAIN w = DOMAIN caPages \cup {which}
            /\ w[which] = TRUE /\ \A x \in DOMAIN caPages \ {which} : w[x] = caPages[x]
        BY <2>1, <3>1 DEF CA!With
      <3> QED
        BY <1>1, <3>1, <3>2
    <2>3. ASSUME NEW l \in Sessions, NEW x \in DOMAIN caPages', x[1] = l, caPages'[x] = FALSE
          PROVE  IF l \in DOMAIN caSweep THEN x \in caSweep[l] ELSE l \in caUnswept
      <3>1. x # which
        BY <2>2, <2>3
      <3>2. x \in DOMAIN caPages /\ caPages[x] = FALSE
        BY <2>2, <2>3, <3>1
      <3> QED
        BY <2>3, <3>2 DEF PagesOk
    <2> QED
      BY <2>2, <2>3 DEF PagesOk
  <1>2. CASE UNCHANGED caPages
    BY <1>2 DEF PagesOk
  <1> QED
    BY <1>1, <1>2 DEF CA!SetPage

\* The rows of a source have changed: every outdated page of it was found, or the
\* failure is remembered.
LEMMA ScanKeepsPages ==
  ASSUME PagesOk, NEW l \in Sessions, CA!InvalidateListScan(l)
  PROVE  PagesOk'
  <1>0. /\ caPages \in [DOMAIN caPages -> BOOLEAN] /\ l \notin DOMAIN caSweep
        /\ caPages' = [which \in DOMAIN caPages |-> caPages[which] /\ which[1] \notin {l, CA!IdOf(l)}]
    BY DEF PagesOk, CA!InvalidateListScan
  <1>1. caPages' \in [DOMAIN caPages' -> BOOLEAN] /\ DOMAIN caPages' = DOMAIN caPages
    BY <1>0
  <1>2. ASSUME NEW which \in DOMAIN caPages, which[1] \notin {l, CA!IdOf(l)}, caPages'[which] = FALSE PROVE caPages[which] = FALSE
    <2>1. caPages[which] \in BOOLEAN /\ caPages'[which] = (caPages[which] /\ which[1] \notin {l, CA!IdOf(l)})
      BY <1>0
    <2>2. caPages[which] = TRUE => caPages'[which] = TRUE
      BY <1>2, <2>1
    <2> QED
      BY <1>2, <2>1, <2>2
  <1>3. ASSUME NEW m \in Sessions, m # l, NEW which \in DOMAIN caPages, which[1] = m, caPages'[which] = FALSE
        PROVE  IF m \in DOMAIN caSweep THEN which \in caSweep[m] ELSE m \in caUnswept
    <2>1. which[1] \notin {l, CA!IdOf(l)}
      BY <1>3, CachesAssumption DEF CA!IdOf
    <2>2. caPages[which] = FALSE
      BY <1>2, <1>3, <2>1
    <2> QED
      BY <1>3, <2>2 DEF PagesOk
  <1>4. CASE caSweep' = CA!With(caSweep, l, CA!Matching(l)) /\ UNCHANGED caUnswept
    <2>1. /\ DOMAIN caSweep' = DOMAIN caSweep \cup {l} /\ caSweep'[l] = CA!Matching(l)
          /\ \A m \in DOMAIN caSweep : m # l => caSweep'[m] = caSweep[m]
      BY <1>4 DEF CA!With
    <2>2. ASSUME NEW m \in Sessions, NEW which \in DOMAIN caPages, which[1] = m, caPages'[which] = FALSE
          PROVE  IF m \in DOMAIN caSweep' THEN which \in caSweep'[m] ELSE m \in caUnswept'
      <3>1. CASE m = l
        <4>1. which \in CA!Matching(l)
          BY <2>2, <3>1 DEF CA!Matching
        <4> QED
          BY <2>1, <3>1, <4>1
      <3>2. CASE m # l
        BY <1>3, <1>4, <2>1, <2>2, <3>2
      <3> QED
        BY <3>1, <3>2
    <2> QED
      BY <1>1, <2>2 DEF PagesOk
  <1>5. CASE caUnswept' = caUnswept \cup {l} /\ UNCHANGED caSweep
    <2>1. ASSUME NEW m \in Sessions, NEW which \in DOMAIN caPages, which[1] = m, caPages'[which] = FALSE
          PROVE  IF m \in DOMAIN caSweep' THEN which \in caSweep'[m] ELSE m \in caUnswept'
      <3>1. CASE m = l
        BY <1>0, <1>5, <3>1
      <3>2. CASE m # l
        BY <1>3, <1>5, <2>1, <3>2
      <3> QED
        BY <3>1, <3>2
    <2> QED
      BY <1>1, <2>1 DEF PagesOk
  <1> QED
    BY <1>4, <1>5 DEF CA!InvalidateListScan

\* The pages that were found are deleted, or the failure is remembered.
LEMMA DeleteKeepsPages ==
  ASSUME PagesOk, NEW l \in Sessions, CA!InvalidateListDelete(l)
  PROVE  PagesOk'
  <1>0. /\ caPages \in [DOMAIN caPages -> BOOLEAN] /\ l \in DOMAIN caSweep
        /\ DOMAIN caSweep' = DOMAIN caSweep \ {l} /\ \A m \in DOMAIN caSweep' : caSweep'[m] = caSweep[m]
    BY DEF PagesOk, CA!InvalidateListDelete, CA!Without
  <1>1. ASSUME NEW m \in Sessions, NEW which \in DOMAIN caPages, which[1] = m, caPages[which] = FALSE
        PROVE  IF m \in DOMAIN caSweep THEN which \in caSweep[m] ELSE m \in caUnswept
    BY <1>1 DEF PagesOk
  <1>2. CASE caPages' = [which \in DOMAIN caPages \ caSweep[l] |-> caPages[which]] /\ caUnswept' = caUnswept \ {l}
    <2>1. /\ caPages' \in [DOMAIN caPages' -> BOOLEAN] /\ DOMAIN caPages' = DOMAIN caPages \ caSweep[l]
          /\ \A which \in DOMAIN caPages' : caPages'[which] = caPages[which]
      BY <1>0, <1>2
    <2>2. ASSUME NEW m \in Sessions, NEW which \in DOMAIN caPages', which[1] = m, caPages'[which] = FALSE
          PROVE  IF m \in DOMAIN caSweep' THEN which \in caSweep'[m] ELSE m \in caUnswept'
      <3>1. which \in DOMAIN caPages /\ which \notin caSweep[l] /\ caPages[which] = FALSE
        BY <2>1, <2>2
      <3>2. IF m \in DOMAIN caSweep THEN which \in caSweep[m] ELSE m \in caUnswept
        BY <1>1, <2>2, <3>1
      <3>3. m # l
        BY <1>0, <3>1, <3>2
      <3> QED
        BY <1>0, <1>2, <3>2, <3>3
    <2> QED
      BY <2>1, <2>2 DEF PagesOk
  <1>3. CASE caUnswept' = caUnswept \cup {l} /\ UNCHANGED caPages
    <2>1. ASSUME NEW m \in Sessions, NEW which \in DOMAIN caPages, which[1] = m, caPages[which] = FALSE
          PROVE  IF m \in DOMAIN caSweep' THEN which \in caSweep'[m] ELSE m \in caUnswept'
      BY <1>0, <1>1, <1>3, <2>1
    <2> QED
      BY <1>0, <1>3, <2>1 DEF PagesOk
  <1> QED
    BY <1>2, <1>3 DEF CA!InvalidateListDelete

\* A step of the pages of lists.
LEMMA ListStepKeeps ==
  ASSUME CachesInv, CA!ListStep
  PROVE  CachesInv'
  <1>0. CacheOk /\ LockOk /\ PagesOk /\ FaultsOk
    BY DEF CachesInv
  <1>1. UNCHANGED CA!lockVars /\ UNCHANGED CA!cacheVars
    BY DEF CA!ListStep, CA!SetObservationsList, CA!WarmListCache, CA!InvalidateListScan, CA!InvalidateListDelete, CA!PageExpires
  <1>2. LockOk' /\ CacheOk'
    BY <1>0, <1>1, LockFrame, CacheFrame
  <1>3. UNCHANGED caFaults \/ CA!RedisFails
    BY DEF CA!ListStep, CA!SetObservationsList, CA!WarmListCache, CA!InvalidateListScan, CA!InvalidateListDelete,
           CA!PageExpires, CA!SetPage
  <1>4. FaultsOk'
    BY <1>0, <1>3, FaultCounted
  <1>5. PagesOk'
    <2>1. ASSUME NEW l \in Sessions, NEW page \in CA!Pages, CA!SetObservationsList(l, page) PROVE PagesOk'
      BY <1>0, <2>1, SetPageKeeps DEF CA!SetObservationsList
    <2>2. ASSUME NEW l \in Sessions, CA!WarmListCache(l) PROVE PagesOk'
      BY <1>0, <2>2, SetPageKeeps DEF CA!WarmListCache
    <2>3. ASSUME NEW which \in DOMAIN caPages, CA!PageExpires(which) PROVE PagesOk'
      <3>1. caPages' = CA!Without(caPages, which) /\ UNCHANGED <<caSweep, caUnswept>> /\ caPages \in [DOMAIN caPages -> BOOLEAN]
        BY <1>0, <2>3 DEF CA!PageExpires, PagesOk
      <3>2. /\ caPages' \in [DOMAIN caPages' -> BOOLEAN] /\ DOMAIN caPages' = DOMAIN caPages \ {which}
            /\ \A x \in DOMAIN caPages' : caPages'[x] = caPages[x]
        BY <3>1 DEF CA!Without
      <3> QED
        BY <1>0, <3>1, <3>2 DEF PagesOk
    <2> QED
      BY <1>0, <2>1, <2>2, <2>3, ScanKeepsPages, DeleteKeepsPages DEF CA!ListStep
  <1> QED
    BY <1>2, <1>4, <1>5 DEF CachesInv

\* Every step keeps the invariant.
LEMMA CachesNext == CachesInv /\ [CA!Next]_(CA!vars) => CachesInv'
  <1> SUFFICES ASSUME CachesInv, [CA!Next]_(CA!vars) PROVE CachesInv'
    OBVIOUS
  <1>1. CASE UNCHANGED CA!vars
    <2>1. UNCHANGED CA!cacheVars /\ UNCHANGED CA!lockVars /\ UNCHANGED CA!listVars /\ UNCHANGED caFaults
      BY <1>1 DEF CA!vars
    <2>2. CacheOk' /\ LockOk' /\ PagesOk' /\ FaultsOk'
      BY <2>1, CacheFrame, LockFrame, PagesFrame, FaultCounted DEF CachesInv
    <2> QED
      BY <2>2 DEF CachesInv
  <1> QED
    BY <1>1, CacheStepKeeps, LockStepKeeps, ListStepKeeps DEF CA!Next

\* The list, followed in both directions, is the order of use.
LEMMA ListIsInOrder == LruOk => CA!ListIsRecency
  <1> SUFFICES ASSUME LruOk PROVE CA!ListIsRecency
    OBVIOUS
  <1>1. PICK seq : seq = <<CA!MRU>> \o caOrder \o <<CA!LRU>>
    OBVIOUS
  <1>2. /\ caOrder \in Recency /\ caOrder \in Seq(CacheKeys) /\ Len(caOrder) \in Nat /\ DOMAIN caOrder = 1..Len(caOrder)
        /\ Linked(CA!Links, caOrder)
    BY PositionsDiffer DEF LruOk, Linked, Recency
  <1>3. Len(seq) = Len(caOrder) + 2 /\ \A m \in 0..(Len(caOrder) + 1) : seq[m + 1] = At(caOrder, m)
    <2>1. <<CA!MRU>> \in Seq(CA!Nodes) /\ <<CA!LRU>> \in Seq(CA!Nodes) /\ caOrder \in Seq(CA!Nodes) /\ Len(<<CA!MRU>>) = 1 /\ Len(<<CA!LRU>>) = 1
      <3>1. CA!MRU \in CA!Nodes /\ CA!LRU \in CA!Nodes /\ CacheKeys \subseteq CA!Nodes
        BY DEF CA!Nodes
      <3>2. caOrder \in Seq(CA!Nodes)
        <4>1. \A m \in 1..Len(caOrder) : caOrder[m] \in CA!Nodes
          BY <1>2, <3>1
        <4> QED
          BY <1>2, <4>1
      <3> QED
        BY <3>1, <3>2
    <2>2. PICK f : f = <<CA!MRU>> \o caOrder
      OBVIOUS
    <2>3. f \in Seq(CA!Nodes) /\ Len(f) = Len(caOrder) + 1
      BY <1>2, <2>1, <2>2
    <2>4. f[1] = CA!MRU /\ \A m \in 1..Len(caOrder) : f[m + 1] = caOrder[m]
      BY <1>2, <2>1, <2>2
    <2>5. seq = f \o <<CA!LRU>>
      BY <1>1, <2>2
    <2>6. Len(seq) = Len(f) + 1
      BY <2>1, <2>3, <2>5
    <2>7. \A m \in 1..Len(f) : seq[m] = f[m]
      BY <2>1, <2>3, <2>5
    <2>8. seq[Len(f) + 1] = CA!LRU
      BY <2>1, <2>3, <2>5
    <2>9. ASSUME NEW m \in 0..(Len(caOrder) + 1) PROVE seq[m + 1] = At(caOrder, m)
      <3>1. CASE m = 0
        <4>1. 1 \in 1..Len(f) /\ seq[1] = CA!MRU
          BY <1>2, <2>3, <2>4, <2>7
        <4> QED
          BY <3>1, <4>1 DEF At
      <3>2. CASE m = Len(caOrder) + 1
        BY <1>2, <2>3, <2>8, <3>2 DEF At
      <3>3. CASE m # 0 /\ m # Len(caOrder) + 1
        <4>1. m \in 1..Len(caOrder) /\ m + 1 \in 1..Len(f)
          BY <1>2, <2>3, <3>3
        <4>2. seq[m + 1] = caOrder[m]
          BY <2>4, <2>7, <4>1
        <4> QED
          BY <3>3, <4>2 DEF At
      <3> QED
        BY <3>1, <3>2, <3>3
    <2>10. Len(seq) = Len(caOrder) + 2
      BY <1>2, <2>3, <2>6
    <2> QED
      BY <2>9, <2>10
  <1>4. \A m \in 0..Len(caOrder) : caNxt[At(caOrder, m)] = At(caOrder, m + 1) /\ caPrv[At(caOrder, m + 1)] = At(caOrder, m)
    BY <1>2 DEF Linked, CA!Links
  <1>5. ASSUME NEW n \in 1..(Len(seq) - 1) PROVE caNxt[seq[n]] = seq[n + 1] /\ caPrv[seq[n + 1]] = seq[n]
    <2>0. PICK m : m = n - 1
      OBVIOUS
    <2>1. m \in 0..Len(caOrder) /\ m \in 0..(Len(caOrder) + 1) /\ m + 1 \in 0..(Len(caOrder) + 1) /\ n = m + 1
      BY <1>2, <1>3, <2>0
    <2>2. seq[n] = At(caOrder, m) /\ seq[n + 1] = At(caOrder, m + 1)
      BY <1>3, <2>1
    <2> QED
      BY <1>4, <2>1, <2>2
  <1>6. DOMAIN caLru = {caOrder[n] : n \in DOMAIN caOrder}
    BY <1>2 DEF LruOk, Members
  <1>7. Len(caOrder) = Cardinality(DOMAIN caLru) /\ Len(caOrder) <= Capacity
    BY DEF LruOk
  <1> QED
    BY <1>1, <1>5, <1>6, <1>7, FiniteIsFinite DEF CA!ListIsRecency

\* The invariant says what the properties say.
LEMMA CachesImply == CachesInv => CA!TypeOK /\ CA!CachesAgree /\ CA!LockExclusive
  <1> SUFFICES ASSUME CachesInv PROVE CA!TypeOK /\ CA!CachesAgree /\ CA!LockExclusive
    OBVIOUS
  <1>0. LruOk /\ CacheTypes /\ FreshOk /\ LockOk /\ PagesOk /\ FaultsOk
    BY DEF CachesInv, CacheOk
  <1>1. CA!TypeOK
    BY <1>0 DEF CacheTypes, Calls, LockOk, FaultsOk, CA!TypeOK
  <1>2. CA!ListIsRecency
    BY <1>0, ListIsInOrder
  <1>3. CA!StaleNeedsOverlap
    BY <1>0 DEF FreshOk, Owed, CA!StaleNeedsOverlap
  <1>4. CA!PagesAreFresh
    <2>1. ASSUME NEW l \in Sessions \ (DOMAIN caSweep \cup caUnswept), NEW page \in CA!Pages
          PROVE  FALSE \notin CA!GetObservationsList(l, page)
      <3>1. PICK which : which = CA!ListCacheKey(l, page)
        OBVIOUS
      <3>2. which[1] = l
        BY <3>1 DEF CA!ListCacheKey
      <3>3. which \in DOMAIN caPages => caPages[which] # FALSE
        BY <1>0, <3>2 DEF PagesOk
      <3>4. CA!GetObservationsList(l, page) = IF caConnected /\ ~CA!ShouldSkipListCache(page) /\ which \in DOMAIN caPages
                                          THEN {caPages[which]} ELSE {}
        BY <3>1 DEF CA!GetObservationsList
      <3> QED
        BY <3>3, <3>4
    <2> QED
      BY <2>1 DEF CA!PagesAreFresh
  <1>5. CA!LockExclusive
    <2>1. ASSUME caOverran = {} PROVE ~(Cardinality({j \in Jobs : caJob[j] = "inside"}) > 1)
      <3> DEFINE S == {j \in Jobs : caJob[j] = "inside"}
      <3>1. S \subseteq {caOwner}
        BY <1>0, <2>1 DEF LockOk
      <3>2. S = {} \/ S = {caOwner}
        BY <3>1
      <3> HIDE DEF S
      <3>3. Cardinality(S) = 0 \/ Cardinality(S) = 1
        BY <3>2, FS_EmptySet, FS_Singleton
      <3> QED
        BY <3>3 DEF S
    <2> QED
      BY <2>1, FiniteIsFinite DEF CA!LockExclusive
  <1> QED
    BY <1>1, <1>2, <1>3, <1>4, <1>5 DEF CA!CachesAgree

\* The list of the LRU cache is the order of use in both directions, a stale copy
\* needs an overlap or a failed deletion, pages are fresh by name, and the lock
\* excludes until it expires under its job: for any keys, capacity and jobs.
THEOREM CopiesAreFresh == CA!Spec => [](CA!TypeOK /\ CA!CachesAgree /\ CA!LockExclusive)
  BY CachesInit, CachesNext, CachesImply, PTL DEF CA!Spec

-----------------------------------------------------------------------------
(* The retention batch.  Its rows are selected without locks; what makes it *)
(* safe is the comparison of the number of deleted rows with the batch: two *)
(* finite sets of one size, one in the other, are equal, so that the DELETE *)
(* got, and locked, every row of the batch.                                 *)

RunSteps == {"idle", "begun", "selected", "checked", "flushed", "deleted"}
Batches == UNION {[S -> Nat] : S \in SUBSET RE!Ids}
RunRecords == [pc : RunSteps, batch : Batches, archived : SUBSET RE!Ids, raced : SUBSET RE!Ids]
KeptRows == [v : Nat, old : BOOLEAN]

RetentionTypes ==
  /\ reRun \in [Sessions -> RunRecords]
  /\ \A i \in RE!Hot : reHot[i] \in KeptRows
  /\ reLast \in [RE!Ids -> Nat]
  /\ reLock \in Sessions \cup {RE!NoRun}

\* Primary keys are handed out in order.
IdsInOrder == \E n \in 0..MaxKept : reCreated = 1..n

\* An observation that was created has one home.
RowHomes ==
  /\ RE!Hot \cap RE!Archived = {}
  /\ RE!Hot \cap reRemoved = {}
  /\ RE!Archived \cap reRemoved = {}
  /\ reCreated = RE!Hot \cup RE!Archived \cup reRemoved

\* What is stored is the latest content, but for the rows known as stale.
KeptVersions ==
  /\ \A i \in RE!Hot : reHot[i].v = reLast[i]
  /\ \A i \in RE!Ids \ reCreated : reLast[i] = 0
  /\ \A i \in RE!Archived : reArchive[i] = reLast[i] \/ i \in reStale

BatchOK(x) ==
  /\ DOMAIN x.batch \subseteq reCreated
  /\ Cardinality(DOMAIN x.batch) <= BatchSize
  /\ \A i \in DOMAIN x.batch : x.batch[i] = reLast[i] \/ i \in x.raced

\* What a run has copied is the latest content of each row that did not change since.
BatchCopies == \A r \in Sessions : BatchOK(reRun[r])

\* A run that has deleted its batch has it all, still old, and shares no row.
LockedRows(r) ==
  reRun[r].pc = "deleted" =>
    /\ \A i \in RE!Batch(r) : i \in RE!Hot /\ reHot[i].old
    /\ \A q \in Sessions \ {r} : reRun[q].pc = "deleted" => RE!Batch(r) \cap RE!Batch(q) = {}

RetentionInv ==
  /\ RetentionTypes
  /\ IdsInOrder
  /\ RowHomes
  /\ KeptVersions
  /\ BatchCopies
  /\ \A r \in Sessions : LockedRows(r)

-----------------------------------------------------------------------------
\* Sets of primary keys are finite.
LEMMA FiniteIds ==
  ASSUME MaxKept \in Nat, NEW S \in SUBSET RE!Ids
  PROVE  IsFiniteSet(S) /\ Cardinality(S) \in Nat
<1>1. IsFiniteSet(RE!Ids)
  BY FS_Interval DEF RE!Ids
<1>2. IsFiniteSet(S)
  BY <1>1, FS_Subset
<1> QED
  BY <1>2, FS_CardinalityType

\* A nonempty set of primary keys has a greatest one: the least upper bound.
LEMMA GreatestId ==
  ASSUME MaxKept \in Nat, NEW S \in SUBSET RE!Ids, S # {}
  PROVE  \E m \in S : \A j \in S : j <= m
<1> DEFINE U == {u \in Nat : \A j \in S : j <= u}
<1>1. U \subseteq Nat /\ MaxKept \in U
  BY DEF RE!Ids
<1>2. PICK m \in U : \A y \in U : ~ (<<y, m>> \in OpToRel(<, Nat))
  <2> HIDE DEF U
  <2> QED
    BY <1>1, NatLessThanWellFounded, WFMin
<1>3. m \in Nat /\ \A j \in S : j \in Nat /\ j >= 1 /\ j <= m
  <2>1. m \in Nat /\ \A j \in S : j <= m
    BY <1>2
  <2>2. \A j \in S : j \in Nat /\ j >= 1
    BY DEF RE!Ids
  <2> QED
    BY <2>1, <2>2
<1>4. ASSUME m \notin S PROVE FALSE
  <2>1. \A j \in S : j <= m - 1
    BY <1>3, <1>4
  <2>2. m - 1 \in Nat
    BY <1>3
  <2>3. m - 1 \in U
    BY <2>1, <2>2
  <2>4. <<m - 1, m>> \in OpToRel(<, Nat)
    BY <1>3, <2>2 DEF OpToRel
  <2> QED
    BY <1>2, <2>3, <2>4
<1> QED
  BY <1>3, <1>4

\* The LIMIT of the query: all rows of a batch but the greatest are before it.
LEMMA OldestBound ==
  ASSUME MaxKept \in Nat, BatchSize \in Nat, NEW ids \in SUBSET RE!Ids
  PROVE  Cardinality(RE!Oldest(ids)) <= BatchSize
<1>1. RE!Oldest(ids) \in SUBSET ids /\ RE!Oldest(ids) \in SUBSET RE!Ids
  BY DEF RE!Oldest
<1>2. CASE RE!Oldest(ids) = {}
  BY <1>2, FS_EmptySet
<1>3. CASE RE!Oldest(ids) # {}
  <2>1. PICK m \in RE!Oldest(ids) : \A j \in RE!Oldest(ids) : j <= m
    BY <1>1, <1>3, GreatestId
  <2> DEFINE below == {j \in ids : j < m}
  <2>2. Cardinality(below) < BatchSize
    BY <2>1, FiniteIsFinite DEF RE!Oldest
  <2>3. RE!Oldest(ids) \ {m} \in SUBSET below
    BY <1>1, <2>1 DEF RE!Ids
  <2>4. below \in SUBSET RE!Ids
    OBVIOUS
  <2> HIDE DEF below
  <2>5. IsFiniteSet(below) /\ Cardinality(below) \in Nat
    BY <2>4, FiniteIds
  <2>6. Cardinality(RE!Oldest(ids) \ {m}) <= Cardinality(below)
    BY <2>3, <2>5, FS_Subset
  <2>7. IsFiniteSet(RE!Oldest(ids)) /\ Cardinality(RE!Oldest(ids)) \in Nat
    BY <1>1, FiniteIds
  <2>8. Cardinality(RE!Oldest(ids) \ {m}) = Cardinality(RE!Oldest(ids)) - 1
    BY <2>1, <2>7, FS_RemoveElement
  <2> QED
    BY <2>2, <2>5, <2>6, <2>7, <2>8
<1> QED
  BY <1>2, <1>3

\* The shape of a copied batch.
LEMMA BatchShape ==
  /\ \A b \in Batches : DOMAIN b \in SUBSET RE!Ids
  /\ \A S \in SUBSET RE!Ids : [S -> Nat] \subseteq Batches
<1>1. ASSUME NEW b \in Batches PROVE DOMAIN b \in SUBSET RE!Ids
  BY DEF Batches
<1>2. ASSUME NEW S \in SUBSET RE!Ids PROVE [S -> Nat] \subseteq Batches
  BY DEF Batches
<1> QED
  BY <1>1, <1>2

\* A run that has nothing in hand.
LEMMA IdleShape ==
  ASSUME BatchSize \in Nat
  PROVE  RE!Idle \in RunRecords /\ BatchOK(RE!Idle) /\ RE!Idle.pc = "idle"
<1>1. RE!Idle.batch = [i \in {} |-> 0] /\ RE!Idle.archived = {} /\ RE!Idle.raced = {} /\ RE!Idle.pc = "idle"
  BY DEF RE!Idle
<1>2. [i \in {} |-> 0] \in [{} -> Nat] /\ DOMAIN [i \in {} |-> 0] = {}
  OBVIOUS
<1>3. [i \in {} |-> 0] \in Batches
  BY <1>2, BatchShape
<1>4. RE!Idle \in RunRecords
  BY <1>3 DEF RE!Idle, RunRecords, RunSteps
<1>5. BatchOK(RE!Idle)
  BY <1>1, <1>2, FS_EmptySet DEF BatchOK
<1> QED
  BY <1>1, <1>4, <1>5

\* Every created observation has a primary key in range.
LEMMA CreatedIds ==
  ASSUME MaxKept \in Nat, RetentionInv
  PROVE  reCreated \subseteq RE!Ids /\ RE!Hot \subseteq RE!Ids /\ RE!Archived \subseteq RE!Ids
<1>1. reCreated \subseteq RE!Ids
  BY DEF RetentionInv, IdsInOrder, RE!Ids
<1> QED
  BY <1>1 DEF RetentionInv, RowHomes

-----------------------------------------------------------------------------
\* Initially there is nothing.
LEMMA RetentionInit ==
  ASSUME MaxKept \in Nat, BatchSize \in Nat, RE!Init
  PROVE  RetentionInv
<1>1. RE!Hot = {} /\ RE!Archived = {} /\ reCreated = {} /\ reRemoved = {}
  BY DEF RE!Init, RE!Hot, RE!Archived
<1>2. \A r \in Sessions : reRun[r] = RE!Idle
  BY DEF RE!Init
<1>3. RetentionTypes
  BY <1>1, <1>2, IdleShape DEF RetentionTypes, RE!Init
<1>4. IdsInOrder
  <2>1. 1..0 = {}
    OBVIOUS
  <2> QED
    BY <1>1, <2>1 DEF IdsInOrder
<1>5. RowHomes
  BY <1>1 DEF RowHomes
<1>6. KeptVersions
  BY <1>1 DEF KeptVersions, RE!Init
<1>7. BatchCopies
  BY <1>2, IdleShape DEF BatchCopies
<1>8. \A r \in Sessions : LockedRows(r)
  BY <1>2, IdleShape DEF LockedRows
<1> QED
  BY <1>3, <1>4, <1>5, <1>6, <1>7, <1>8 DEF RetentionInv

\* A step that changes only what one run has in hand.
LEMMA RunChanges ==
  ASSUME MaxKept \in Nat, BatchSize \in Nat, RetentionInv,
         NEW r \in Sessions, NEW x \in RunRecords,
         reRun' = [reRun EXCEPT ![r] = x],
         UNCHANGED <<reHot, reArchive, reCreated, reRemoved, reLast, reStale>>,
         reLock' \in Sessions \cup {RE!NoRun},
         BatchOK(x),
         x.pc = "deleted" =>
           /\ \A i \in DOMAIN x.batch : i \in RE!Hot /\ reHot[i].old
           /\ \A q \in Sessions \ {r} : reRun[q].pc = "deleted" => DOMAIN x.batch \cap RE!Batch(q) = {}
  PROVE  RetentionInv'
<1>1. \A q \in Sessions : reRun'[q] = IF q = r THEN x ELSE reRun[q]
  BY DEF RetentionInv, RetentionTypes
<1>2. RetentionTypes'
  <2>1. reRun' \in [Sessions -> RunRecords]
    BY DEF RetentionInv, RetentionTypes
  <2> QED
    BY <2>1 DEF RetentionInv, RetentionTypes, RE!Hot
<1>3. IdsInOrder'
  BY DEF RetentionInv, IdsInOrder
<1>4. RowHomes'
  BY DEF RetentionInv, RowHomes, RE!Hot, RE!Archived
<1>5. KeptVersions'
  BY DEF RetentionInv, KeptVersions, RE!Hot, RE!Archived
<1>6. BatchCopies'
  <2> SUFFICES ASSUME NEW q \in Sessions PROVE BatchOK(reRun[q])'
    BY DEF BatchCopies
  <2>1. CASE q = r
    BY <1>1, <2>1 DEF BatchOK
  <2>2. CASE q # r
    <3>1. BatchOK(reRun[q])
      BY DEF RetentionInv, BatchCopies
    <3> QED
      BY <1>1, <2>2, <3>1 DEF BatchOK
  <2> QED
    BY <2>1, <2>2
<1>7. ASSUME NEW q \in Sessions PROVE LockedRows(q)'
  <2>1. CASE q = r
    BY <1>1, <2>1 DEF LockedRows, RE!Batch, RE!Hot
  <2>2. CASE q # r
    <3>1. LockedRows(q)
      BY DEF RetentionInv
    <3> QED
      BY <1>1, <2>2, <3>1 DEF LockedRows, RE!Batch, RE!Hot
  <2> QED
    BY <2>1, <2>2
<1> QED
  BY <1>2, <1>3, <1>4, <1>5, <1>6, <1>7 DEF RetentionInv

\* The end of a run that changes nothing: lock_held, dry run, errors, crash.
LEMMA LeaveKeepsInv ==
  ASSUME MaxKept \in Nat, BatchSize \in Nat, RetentionInv, NEW r \in Sessions,
         reRun' = [reRun EXCEPT ![r] = RE!Idle],
         UNCHANGED <<reHot, reArchive, reCreated, reRemoved, reLast, reStale>>,
         reLock' \in Sessions \cup {RE!NoRun}
  PROVE  RetentionInv'
<1>1. RE!Idle.pc # "deleted"
  BY IdleShape
<1> QED
  BY <1>1, IdleShape, RunChanges

\* A run that goes on with the batch it has, short of the deletion.
LEMMA GotoKeepsInv ==
  ASSUME MaxKept \in Nat, BatchSize \in Nat, RetentionInv, NEW r \in Sessions,
         NEW at \in RunSteps, at # "deleted", RE!Goto(r, at),
         UNCHANGED <<reHot, reArchive, reCreated, reRemoved, reLast, reStale>>,
         reLock' \in Sessions \cup {RE!NoRun}
  PROVE  RetentionInv'
<1> DEFINE x == [reRun[r] EXCEPT !.pc = at]
<1>1. reRun[r] \in RunRecords /\ BatchOK(reRun[r])
  BY DEF RetentionInv, RetentionTypes, BatchCopies
<1>2. x \in RunRecords /\ x.pc = at /\ x.batch = reRun[r].batch /\ x.raced = reRun[r].raced
  BY <1>1 DEF RunRecords
<1>3. BatchOK(x)
  BY <1>1, <1>2 DEF BatchOK
<1>4. reRun' = [reRun EXCEPT ![r] = x]
  BY DEF RE!Goto, RetentionInv, RetentionTypes
<1> HIDE DEF x
<1> QED
  BY <1>2, <1>3, <1>4, RunChanges

\* The lock of Redis: whoever leaves deletes the key.
LEMMA LeaveLock ==
  ASSUME RetentionInv, NEW r \in Sessions, RE!Leave(r)
  PROVE  reRun' = [reRun EXCEPT ![r] = RE!Idle] /\ reLock' \in Sessions \cup {RE!NoRun}
BY DEF RE!Leave, RetentionInv, RetentionTypes

\* The lock is taken, or granted to everyone without Redis.
LEMMA StartKeepsInv ==
  ASSUME MaxKept \in Nat, BatchSize \in Nat, RetentionInv, NEW r \in Sessions, RE!Start(r)
  PROVE  RetentionInv'
<1>1. reLock' \in Sessions \cup {RE!NoRun}
  BY DEF RE!Start, RetentionInv, RetentionTypes
<1>2. RE!Goto(r, "begun") /\ "begun" \in RunSteps
  BY DEF RE!Start, RunSteps
<1>3. UNCHANGED <<reHot, reArchive, reCreated, reRemoved, reLast, reStale>>
  BY DEF RE!Start, RE!history
<1> QED
  BY <1>1, <1>2, <1>3, GotoKeepsInv

\* The copies are the contents at the time of the SELECT.
LEMMA SelectKeepsInv ==
  ASSUME MaxKept \in Nat, BatchSize \in Nat, RetentionInv, NEW r \in Sessions,
         NEW apply \in BOOLEAN, RE!Select(r, apply)
  PROVE  RetentionInv'
<1> DEFINE batch == RE!Oldest(RE!Eligible)
           b == [i \in batch |-> reHot[i].v]
           x == [reRun[r] EXCEPT !.pc = "selected", !.batch = b]
<1>1. UNCHANGED <<reHot, reArchive, reCreated, reRemoved, reLast, reStale>>
  BY DEF RE!Select, RE!history
<1>2. CASE RE!Leave(r)
  BY <1>1, <1>2, LeaveLock, LeaveKeepsInv
<1>3. CASE /\ reRun' = [reRun EXCEPT ![r].pc = "selected", ![r].batch = b]
           /\ UNCHANGED reLock
  <2>1. RE!Eligible \in SUBSET RE!Hot /\ RE!Eligible \in SUBSET RE!Ids
    BY CreatedIds DEF RE!Eligible
  <2>2. batch \in SUBSET RE!Hot /\ batch \in SUBSET RE!Ids /\ batch \subseteq reCreated
    BY <2>1, CreatedIds DEF RE!Oldest, RetentionInv, RowHomes
  <2>3. Cardinality(batch) <= BatchSize
    BY <2>1, OldestBound
  <2>4. \A i \in batch : reHot[i].v \in Nat /\ reHot[i].v = reLast[i]
    BY <2>2 DEF RetentionInv, RetentionTypes, KeptRows, KeptVersions
  <2> HIDE DEF batch
  <2>5. b \in [batch -> Nat] /\ DOMAIN b = batch
    BY <2>4
  <2>6. b \in Batches
    BY <2>2, <2>5, BatchShape
  <2>7. reRun[r] \in RunRecords
    BY DEF RetentionInv, RetentionTypes
  <2>8. \A i \in batch : b[i] = reLast[i]
    BY <2>4
  <2> HIDE DEF b
  <2>9. x \in RunRecords /\ x.batch = b /\ x.pc = "selected"
    BY <2>6, <2>7 DEF RunRecords, RunSteps
  <2>10. reRun' = [reRun EXCEPT ![r] = x]
    BY <1>3 DEF RetentionInv, RetentionTypes
  <2> HIDE DEF x
  <2>11. BatchOK(x)
    BY <2>2, <2>3, <2>5, <2>8, <2>9 DEF BatchOK
  <2>12. reLock' \in Sessions \cup {RE!NoRun}
    BY <1>3 DEF RetentionInv, RetentionTypes
  <2> QED
    BY <1>1, <2>9, <2>10, <2>11, <2>12, RunChanges
<1> QED
  BY <1>2, <1>3 DEF RE!Select

\* The ids that are archived already.
LEMMA SelectArchivedKeepsInv ==
  ASSUME MaxKept \in Nat, BatchSize \in Nat, RetentionInv, NEW r \in Sessions, RE!SelectArchived(r)
  PROVE  RetentionInv'
<1> DEFINE seen == RE!Batch(r) \cap RE!Archived
           x == [reRun[r] EXCEPT !.pc = "checked", !.archived = seen]
<1>1. UNCHANGED <<reHot, reArchive, reCreated, reRemoved, reLast, reStale>>
  BY DEF RE!SelectArchived, RE!history
<1>2. reRun[r] \in RunRecords /\ BatchOK(reRun[r])
  BY DEF RetentionInv, RetentionTypes, BatchCopies
<1>3. seen \in SUBSET RE!Ids
  BY CreatedIds
<1>4. reRun' = [reRun EXCEPT ![r].pc = "checked", ![r].archived = seen]
  BY DEF RE!SelectArchived
<1> HIDE DEF seen
<1>5. x \in RunRecords /\ x.pc = "checked" /\ x.batch = reRun[r].batch /\ x.raced = reRun[r].raced
  BY <1>2, <1>3 DEF RunRecords, RunSteps
<1>6. BatchOK(x)
  BY <1>2, <1>5 DEF BatchOK
<1>7. reRun' = [reRun EXCEPT ![r] = x]
  BY <1>4 DEF RetentionInv, RetentionTypes
<1>8. reLock' \in Sessions \cup {RE!NoRun}
  BY DEF RE!SelectArchived, RetentionInv, RetentionTypes
<1> HIDE DEF x
<1> QED
  BY <1>1, <1>5, <1>6, <1>7, <1>8, RunChanges

\* The INSERT of the copies, or its conflict.
LEMMA FlushKeepsInv ==
  ASSUME MaxKept \in Nat, BatchSize \in Nat, RetentionInv, NEW r \in Sessions, RE!Flush(r)
  PROVE  RetentionInv'
<1>1. UNCHANGED <<reHot, reArchive, reCreated, reRemoved, reLast, reStale>>
  BY DEF RE!Flush, RE!history
<1>2. CASE RE!Leave(r)
  BY <1>1, <1>2, LeaveLock, LeaveKeepsInv
<1>3. CASE RE!Goto(r, "flushed") /\ UNCHANGED reLock
  <2>1. reLock' \in Sessions \cup {RE!NoRun} /\ "flushed" \in RunSteps
    BY <1>3 DEF RetentionInv, RetentionTypes, RunSteps
  <2> QED
    BY <1>1, <1>3, <2>1, GotoKeepsInv
<1> QED
  BY <1>2, <1>3 DEF RE!Flush

\* Equal counts mean that the DELETE found the whole batch.
LEMMA CountIsEnough ==
  ASSUME MaxKept \in Nat, RetentionInv, NEW r \in Sessions, RE!CountMatches(r)
  PROVE  \A i \in RE!Batch(r) : i \in RE!Hot /\ reHot[i].old
<1>1. RE!Batch(r) \in SUBSET RE!Ids
  BY BatchShape DEF RetentionInv, RetentionTypes, RunRecords, RE!Batch
<1>2. IsFiniteSet(RE!Batch(r))
  BY <1>1, FiniteIds
<1>3. RE!Matched(r) \in SUBSET RE!Batch(r)
  BY DEF RE!Matched
<1>4. RE!Batch(r) = RE!Matched(r)
  BY <1>2, <1>3, FS_Subset, FiniteIsFinite DEF RE!CountMatches
<1> QED
  BY <1>4 DEF RE!Matched

\* The DELETE, whose count decides.
LEMMA DeleteKeepsInv ==
  ASSUME MaxKept \in Nat, BatchSize \in Nat, RetentionInv, NEW r \in Sessions, RE!Delete(r)
  PROVE  RetentionInv'
<1>1. UNCHANGED <<reHot, reArchive, reCreated, reRemoved, reLast, reStale>>
  BY DEF RE!Delete, RE!history
<1>2. CASE RE!Leave(r)
  BY <1>1, <1>2, LeaveLock, LeaveKeepsInv
<1>3. CASE RE!CountMatches(r) /\ RE!Goto(r, "deleted") /\ UNCHANGED reLock
  <2> DEFINE x == [reRun[r] EXCEPT !.pc = "deleted"]
  <2>1. reRun[r] \in RunRecords /\ BatchOK(reRun[r])
    BY DEF RetentionInv, RetentionTypes, BatchCopies
  <2>2. x \in RunRecords /\ x.batch = reRun[r].batch /\ x.raced = reRun[r].raced
    BY <2>1 DEF RunRecords, RunSteps
  <2>3. BatchOK(x)
    BY <2>1, <2>2 DEF BatchOK
  <2>4. reRun' = [reRun EXCEPT ![r] = x]
    BY <1>3 DEF RE!Goto, RetentionInv, RetentionTypes
  <2> HIDE DEF x
  <2>5. \A i \in DOMAIN x.batch : i \in RE!Hot /\ reHot[i].old
    BY <1>3, <2>2, CountIsEnough DEF RE!Batch
  <2>6. \A q \in Sessions \ {r} : reRun[q].pc = "deleted" => DOMAIN x.batch \cap RE!Batch(q) = {}
    BY <2>2 DEF RE!Delete, RE!Deleting, RE!Batch
  <2>7. reLock' \in Sessions \cup {RE!NoRun}
    BY <1>3 DEF RetentionInv, RetentionTypes
  <2> QED
    BY <1>1, <2>2, <2>3, <2>4, <2>5, <2>6, <2>7, RunChanges
<1> QED
  BY <1>2, <1>3 DEF RE!Delete

\* The rows of the batch move, all of them, from one table to the other.
LEMMA CommitKeepsInv ==
  ASSUME MaxKept \in Nat, BatchSize \in Nat, RetentionInv, NEW r \in Sessions, RE!Commit(r)
  PROVE  RetentionInv'
<1>1. \A i \in RE!Batch(r) : i \in RE!Hot /\ reHot[i].old
  BY DEF RE!Commit, RE!At, RetentionInv, LockedRows
<1>2. RE!Matched(r) = RE!Batch(r)
  BY <1>1 DEF RE!Matched
<1>3. RE!Batch(r) \cap RE!Archived = {}
  BY <1>1 DEF RetentionInv, RowHomes
<1>4. reRun' = [reRun EXCEPT ![r] = RE!Idle] /\ reLock' \in Sessions \cup {RE!NoRun}
  BY LeaveLock DEF RE!Commit
<1>5. UNCHANGED <<reCreated, reRemoved, reLast>> /\ reStale' = reStale \cup reRun[r].raced
  BY DEF RE!Commit
<1>6. RE!Hot' = RE!Hot \ RE!Batch(r) /\ \A i \in RE!Hot' : reHot'[i] = reHot[i]
  <2>1. reHot' = [i \in RE!Hot \ RE!Batch(r) |-> reHot[i]]
    BY <1>2 DEF RE!Commit
  <2> QED
    BY <2>1 DEF RE!Hot
<1>7. /\ RE!Archived' = RE!Archived \cup RE!Batch(r)
      /\ \A i \in RE!Archived' : reArchive'[i] = IF i \in RE!Archived THEN reArchive[i] ELSE reRun[r].batch[i]
  BY DEF RE!Commit, RE!Archived
<1>8. \A q \in Sessions : reRun'[q] = IF q = r THEN RE!Idle ELSE reRun[q]
  BY <1>4 DEF RetentionInv, RetentionTypes
<1>9. RetentionTypes'
  <2>1. reRun' \in [Sessions -> RunRecords]
    BY <1>4, IdleShape DEF RetentionInv, RetentionTypes
  <2> QED
    BY <1>4, <1>5, <1>6, <2>1 DEF RetentionInv, RetentionTypes
<1>10. IdsInOrder'
  BY <1>5 DEF RetentionInv, IdsInOrder
<1>11. RowHomes'
  BY <1>1, <1>3, <1>5, <1>6, <1>7 DEF RetentionInv, RowHomes
<1>12. KeptVersions'
  <2>1. \A i \in RE!Batch(r) : reRun[r].batch[i] = reLast[i] \/ i \in reRun[r].raced
    BY DEF RetentionInv, BatchCopies, BatchOK, RE!Batch
  <2>2. \A i \in RE!Hot' : reHot'[i].v = reLast'[i]
    BY <1>5, <1>6 DEF RetentionInv, KeptVersions
  <2>3. \A i \in RE!Ids \ reCreated' : reLast'[i] = 0
    BY <1>5 DEF RetentionInv, KeptVersions
  <2>4. \A i \in RE!Archived' : reArchive'[i] = reLast'[i] \/ i \in reStale'
    BY <1>5, <1>7, <2>1 DEF RetentionInv, KeptVersions
  <2> QED
    BY <2>2, <2>3, <2>4 DEF KeptVersions
<1>13. BatchCopies'
  <2> SUFFICES ASSUME NEW q \in Sessions PROVE BatchOK(reRun[q])'
    BY DEF BatchCopies
  <2>1. BatchOK(reRun[q]) /\ BatchOK(RE!Idle)
    BY IdleShape DEF RetentionInv, BatchCopies
  <2> QED
    BY <1>5, <1>8, <2>1 DEF BatchOK
<1>14. ASSUME NEW q \in Sessions PROVE LockedRows(q)'
  <2>1. CASE q = r
    BY <1>8, <2>1, IdleShape DEF LockedRows
  <2>2. CASE q # r
    <3>1. LockedRows(q) /\ LockedRows(r) /\ reRun[r].pc = "deleted"
      BY DEF RetentionInv, RE!Commit, RE!At
    <3>2. reRun[q].pc = "deleted" => RE!Batch(q) \cap RE!Batch(r) = {}
      BY <2>2, <3>1 DEF LockedRows
    <3>3. reRun'[q] = reRun[q] /\ RE!Batch(q)' = RE!Batch(q)
      BY <1>8, <2>2 DEF RE!Batch
    <3>4. reRun'[q].pc = "deleted" => \A i \in RE!Batch(q)' : i \in RE!Hot' /\ reHot'[i].old
      BY <1>6, <3>1, <3>2, <3>3 DEF LockedRows
    <3>5. ASSUME NEW p \in Sessions \ {q}, reRun'[q].pc = "deleted", reRun'[p].pc = "deleted"
          PROVE  RE!Batch(q)' \cap RE!Batch(p)' = {}
      <4>1. p # r /\ reRun'[p] = reRun[p] /\ RE!Batch(p)' = RE!Batch(p)
        BY <1>8, <3>5, IdleShape DEF RE!Batch
      <4> QED
        BY <3>1, <3>3, <3>5, <4>1 DEF LockedRows
    <3> QED
      BY <3>4, <3>5 DEF LockedRows
  <2> QED
    BY <2>1, <2>2
<1> QED
  BY <1>9, <1>10, <1>11, <1>12, <1>13, <1>14 DEF RetentionInv

-----------------------------------------------------------------------------
\* create_observation: the next primary key is a new one.
LEMMA CreateKeepsInv ==
  ASSUME MaxKept \in Nat, BatchSize \in Nat, RetentionInv, NEW old \in BOOLEAN, RE!Create(old)
  PROVE  RetentionInv'
<1> DEFINE i == Cardinality(reCreated) + 1
           row == [v |-> 0, old |-> old]
<1>1. PICK n \in 0..MaxKept : reCreated = 1..n
  BY DEF RetentionInv, IdsInOrder
<1>2. Cardinality(reCreated) = n
  BY <1>1, FS_Interval
<1>3. i = n + 1 /\ i \in RE!Ids /\ i \notin reCreated
  BY <1>1, <1>2, FiniteIsFinite DEF RE!Create
<1>4. /\ reHot' = [j \in RE!Hot \cup {i} |-> IF j = i THEN row ELSE reHot[j]]
      /\ reCreated' = reCreated \cup {i}
      /\ UNCHANGED <<reArchive, reRun, reLock, reRemoved, reLast, reStale>>
  BY FiniteIsFinite DEF RE!Create
<1>5. row \in KeptRows /\ row.v = 0
  BY DEF KeptRows
<1> HIDE DEF i, row
<1>6. /\ RE!Hot' = RE!Hot \cup {i} /\ RE!Archived' = RE!Archived
      /\ \A j \in RE!Hot' : reHot'[j] = IF j = i THEN row ELSE reHot[j]
  BY <1>4 DEF RE!Hot, RE!Archived
<1>7. RetentionTypes'
  BY <1>4, <1>5, <1>6 DEF RetentionInv, RetentionTypes
<1>8. IdsInOrder'
  <2>1. n + 1 \in 0..MaxKept /\ reCreated' = 1..(n + 1)
    BY <1>1, <1>3, <1>4 DEF RE!Ids
  <2> QED
    BY <2>1 DEF IdsInOrder
<1>9. RowHomes'
  BY <1>3, <1>4, <1>6 DEF RetentionInv, RowHomes
<1>10. KeptVersions'
  BY <1>3, <1>4, <1>5, <1>6 DEF RetentionInv, KeptVersions
<1>11. BatchCopies'
  BY <1>4 DEF RetentionInv, BatchCopies, BatchOK
<1>12. ASSUME NEW q \in Sessions PROVE LockedRows(q)'
  <2>1. LockedRows(q) /\ RE!Batch(q) \subseteq reCreated
    BY DEF RetentionInv, BatchCopies, BatchOK, RE!Batch
  <2> QED
    BY <1>3, <1>4, <1>6, <2>1 DEF LockedRows, RE!Batch
<1> QED
  BY <1>7, <1>8, <1>9, <1>10, <1>11, <1>12 DEF RetentionInv

\* update_observation: every run that has copied the row is told by history.
LEMMA UpdateKeepsInv ==
  ASSUME MaxKept \in Nat, BatchSize \in Nat, RetentionInv,
         NEW i \in RE!Ids, NEW old \in BOOLEAN, RE!Update(i, old)
  PROVE  RetentionInv'
<1> DEFINE row == [v |-> reHot[i].v + 1, old |-> old]
           told(q) == [reRun[q] EXCEPT !.raced = IF i \in RE!Batch(q) THEN @ \cup {i} ELSE @]
<1>1. /\ i \in RE!Hot /\ RE!Unlocked(i)
      /\ reHot' = [reHot EXCEPT ![i] = row]
      /\ reLast' = [reLast EXCEPT ![i] = @ + 1]
      /\ reRun' = [q \in Sessions |-> told(q)]
      /\ UNCHANGED <<reArchive, reLock, reCreated, reRemoved, reStale>>
  BY DEF RE!Update
<1>2. reHot[i] \in KeptRows /\ reHot[i].v = reLast[i] /\ reLast[i] \in Nat
  BY <1>1 DEF RetentionInv, RetentionTypes, KeptVersions
<1>3. row \in KeptRows /\ row.v = reLast[i] + 1
  BY <1>2 DEF KeptRows
<1>4. ASSUME NEW q \in Sessions
      PROVE  /\ told(q) \in RunRecords
             /\ told(q).pc = reRun[q].pc /\ told(q).batch = reRun[q].batch
             /\ reRun[q].raced \subseteq told(q).raced
             /\ i \in RE!Batch(q) => i \in told(q).raced
  <2>1. reRun[q] \in RunRecords
    BY DEF RetentionInv, RetentionTypes
  <2> QED
    BY <2>1 DEF RunRecords
<1> HIDE DEF row
<1>5. RE!Hot' = RE!Hot /\ RE!Archived' = RE!Archived /\ \A j \in RE!Hot : reHot'[j] = IF j = i THEN row ELSE reHot[j]
  BY <1>1 DEF RE!Hot, RE!Archived
<1>6. \A j \in RE!Ids : reLast'[j] = IF j = i THEN reLast[i] + 1 ELSE reLast[j]
  BY <1>1 DEF RetentionInv, RetentionTypes
<1>7. \A q \in Sessions : /\ reRun'[q] \in RunRecords
                          /\ reRun'[q].pc = reRun[q].pc /\ reRun'[q].batch = reRun[q].batch
                          /\ reRun[q].raced \subseteq reRun'[q].raced
                          /\ i \in RE!Batch(q) => i \in reRun'[q].raced
  <2> HIDE DEF told
  <2> QED
    BY <1>1, <1>4
<1>8. \A q \in Sessions : RE!Batch(q)' = RE!Batch(q)
  BY <1>7 DEF RE!Batch
<1>9. RetentionTypes'
  <2>1. reRun' \in [Sessions -> RunRecords]
    BY <1>1, <1>4
  <2>2. reLast' \in [RE!Ids -> Nat]
    BY <1>1, <1>2 DEF RetentionInv, RetentionTypes
  <2>3. \A j \in RE!Hot' : reHot'[j] \in KeptRows
    BY <1>3, <1>5 DEF RetentionInv, RetentionTypes
  <2> QED
    BY <1>1, <2>1, <2>2, <2>3 DEF RetentionInv, RetentionTypes
<1>10. IdsInOrder'
  BY <1>1 DEF RetentionInv, IdsInOrder
<1>11. RowHomes'
  BY <1>1, <1>5 DEF RetentionInv, RowHomes
<1>12. KeptVersions'
  <2>1. i \in reCreated /\ i \notin RE!Archived /\ RE!Archived \subseteq RE!Ids /\ RE!Hot \subseteq RE!Ids
    BY <1>1, CreatedIds DEF RetentionInv, RowHomes
  <2> QED
    BY <1>1, <1>3, <1>5, <1>6, <2>1 DEF RetentionInv, KeptVersions
<1>13. BatchCopies'
  <2> SUFFICES ASSUME NEW q \in Sessions PROVE BatchOK(reRun[q])'
    BY DEF BatchCopies
  <2>1. BatchOK(reRun[q])
    BY DEF RetentionInv, BatchCopies
  <2>2. \A j \in DOMAIN reRun'[q].batch : reRun'[q].batch[j] = reLast'[j] \/ j \in reRun'[q].raced
    <3> TAKE j \in DOMAIN reRun'[q].batch
    <3>1. j \in DOMAIN reRun[q].batch /\ reRun'[q].batch[j] = reRun[q].batch[j]
      BY <1>7
    <3>2. j \in RE!Ids
      BY <2>1, <3>1, CreatedIds DEF BatchOK
    <3>3. CASE j = i
      BY <1>7, <3>1, <3>3 DEF RE!Batch
    <3>4. CASE j # i
      BY <1>6, <1>7, <2>1, <3>1, <3>2, <3>4 DEF BatchOK
    <3> QED
      BY <3>3, <3>4
  <2> QED
    BY <1>1, <1>7, <2>1, <2>2 DEF BatchOK
<1>14. ASSUME NEW q \in Sessions PROVE LockedRows(q)'
  <2>1. LockedRows(q)
    BY DEF RetentionInv
  <2>2. reRun[q].pc = "deleted" => i \notin RE!Batch(q)
    BY <1>1 DEF RE!Unlocked, RE!Deleting
  <2> QED
    BY <1>5, <1>7, <1>8, <2>1, <2>2 DEF LockedRows
<1> QED
  BY <1>9, <1>10, <1>11, <1>12, <1>13, <1>14 DEF RetentionInv

\* delete_observation.
LEMMA RemoveKeepsInv ==
  ASSUME MaxKept \in Nat, BatchSize \in Nat, RetentionInv, NEW i \in RE!Ids, RE!Remove(i)
  PROVE  RetentionInv'
<1>1. /\ i \in RE!Hot /\ RE!Unlocked(i)
      /\ reHot' = [j \in RE!Hot \ {i} |-> reHot[j]]
      /\ reRemoved' = reRemoved \cup {i}
      /\ UNCHANGED <<reArchive, reRun, reLock, reCreated, reLast, reStale>>
  BY DEF RE!Remove
<1>2. /\ RE!Hot' = RE!Hot \ {i} /\ RE!Archived' = RE!Archived
      /\ \A j \in RE!Hot' : reHot'[j] = reHot[j]
  BY <1>1 DEF RE!Hot, RE!Archived
<1>3. RetentionTypes'
  BY <1>1, <1>2 DEF RetentionInv, RetentionTypes
<1>4. IdsInOrder'
  BY <1>1 DEF RetentionInv, IdsInOrder
<1>5. RowHomes'
  BY <1>1, <1>2 DEF RetentionInv, RowHomes
<1>6. KeptVersions'
  BY <1>1, <1>2 DEF RetentionInv, KeptVersions
<1>7. BatchCopies'
  BY <1>1 DEF RetentionInv, BatchCopies, BatchOK
<1>8. ASSUME NEW q \in Sessions PROVE LockedRows(q)'
  <2>1. LockedRows(q)
    BY DEF RetentionInv
  <2>2. reRun[q].pc = "deleted" => i \notin RE!Batch(q)
    BY <1>1 DEF RE!Unlocked, RE!Deleting
  <2> QED
    BY <1>1, <1>2, <2>1, <2>2 DEF LockedRows, RE!Batch
<1> QED
  BY <1>3, <1>4, <1>5, <1>6, <1>7, <1>8 DEF RetentionInv

\* The cutoff passes a row.
LEMMA AgesKeepsInv ==
  ASSUME MaxKept \in Nat, BatchSize \in Nat, RetentionInv, NEW i \in RE!Ids, RE!Ages(i)
  PROVE  RetentionInv'
<1> DEFINE row == [reHot[i] EXCEPT !.old = TRUE]
<1>1. /\ i \in RE!Hot
      /\ reHot' = [reHot EXCEPT ![i] = row]
      /\ UNCHANGED <<reArchive, reRun, reLock, reCreated, reRemoved, reLast, reStale>>
  BY DEF RE!Ages, RE!history
<1>2. reHot[i] \in KeptRows
  BY <1>1 DEF RetentionInv, RetentionTypes
<1>3. row \in KeptRows /\ row.v = reHot[i].v /\ row.old
  BY <1>2 DEF KeptRows
<1> HIDE DEF row
<1>4. RE!Hot' = RE!Hot /\ RE!Archived' = RE!Archived /\ \A j \in RE!Hot : reHot'[j] = IF j = i THEN row ELSE reHot[j]
  BY <1>1 DEF RE!Hot, RE!Archived
<1>5. RetentionTypes'
  BY <1>1, <1>3, <1>4 DEF RetentionInv, RetentionTypes
<1>6. IdsInOrder'
  BY <1>1 DEF RetentionInv, IdsInOrder
<1>7. RowHomes'
  BY <1>1, <1>4 DEF RetentionInv, RowHomes
<1>8. KeptVersions'
  BY <1>1, <1>3, <1>4 DEF RetentionInv, KeptVersions
<1>9. BatchCopies'
  BY <1>1 DEF RetentionInv, BatchCopies, BatchOK
<1>10. ASSUME NEW q \in Sessions PROVE LockedRows(q)'
  <2>1. LockedRows(q)
    BY DEF RetentionInv
  <2>2. \A p \in Sessions : reRun'[p] = reRun[p] /\ RE!Batch(p)' = RE!Batch(p)
    BY <1>1 DEF RE!Batch
  <2> QED
    BY <1>3, <1>4, <2>1, <2>2 DEF LockedRows
<1> QED
  BY <1>5, <1>6, <1>7, <1>8, <1>9, <1>10 DEF RetentionInv

\* A step that leaves alone all that the invariant reads.
LEMMA StutterKeepsInv ==
  ASSUME RetentionInv, UNCHANGED <<reHot, reArchive, reRun, reCreated, reRemoved, reLast, reStale>>,
         reLock' \in Sessions \cup {RE!NoRun}
  PROVE  RetentionInv'
<1>1. RE!Hot' = RE!Hot /\ RE!Archived' = RE!Archived /\ \A q \in Sessions : RE!Batch(q)' = RE!Batch(q)
  BY DEF RE!Hot, RE!Archived, RE!Batch
<1>2. RetentionTypes'
  BY <1>1 DEF RetentionInv, RetentionTypes
<1>3. IdsInOrder' /\ RowHomes'
  BY <1>1 DEF RetentionInv, IdsInOrder, RowHomes
<1>4. KeptVersions'
  BY <1>1 DEF RetentionInv, KeptVersions
<1>5. BatchCopies'
  BY DEF RetentionInv, BatchCopies, BatchOK
<1>6. ASSUME NEW q \in Sessions PROVE LockedRows(q)'
  BY <1>1 DEF RetentionInv, LockedRows
<1> QED
  BY <1>2, <1>3, <1>4, <1>5, <1>6 DEF RetentionInv

\* Every step keeps the invariant.
LEMMA RetentionNext ==
  ASSUME MaxKept \in Nat, BatchSize \in Nat, RetentionInv, [RE!Next]_(RE!vars)
  PROVE  RetentionInv'
<1>1. ASSUME NEW r \in Sessions, RE!RunStep(r) PROVE RetentionInv'
  <2>1. CASE RE!Crash(r)
    <3>1. reLock' \in Sessions \cup {RE!NoRun}
      BY <2>1 DEF RE!Crash, RetentionInv, RetentionTypes
    <3> QED
      BY <2>1, <3>1, LeaveKeepsInv DEF RE!Crash, RE!history
  <2>2. ASSUME NEW apply \in BOOLEAN, RE!Select(r, apply) PROVE RetentionInv'
    BY <2>2, SelectKeepsInv
  <2> QED
    BY <1>1, <2>1, <2>2, StartKeepsInv, SelectArchivedKeepsInv, FlushKeepsInv,
       DeleteKeepsInv, CommitKeepsInv DEF RE!RunStep
<1>2. CASE RE!ClientStep
  BY <1>2, CreateKeepsInv, UpdateKeepsInv, RemoveKeepsInv, AgesKeepsInv DEF RE!ClientStep
<1>3. CASE RE!LockExpires
  BY <1>3, StutterKeepsInv DEF RE!LockExpires, RE!history
<1>4. CASE UNCHANGED RE!vars
  <2>1. reLock' \in Sessions \cup {RE!NoRun}
    BY <1>4 DEF RE!vars, RetentionInv, RetentionTypes
  <2> QED
    BY <1>4, <2>1, StutterKeepsInv DEF RE!vars
<1> QED
  BY <1>1, <1>2, <1>3, <1>4 DEF RE!Next

\* The invariant has the properties that the sources run checks.
LEMMA RetentionImplies ==
  ASSUME RetentionInv
  PROVE  RE!TypeOK /\ RE!RowsHaveOneHome
<1>1. RE!TypeOK
  BY FiniteIsFinite DEF RetentionInv, RetentionTypes, RowHomes, BatchCopies, BatchOK, RE!Batch, RE!TypeOK
<1>2. ASSUME NEW i \in reCreated
      PROVE  Cardinality({h \in {"hot", "archive", "removed"} :
                            \/ h = "hot" /\ i \in RE!Hot
                            \/ h = "archive" /\ i \in RE!Archived
                            \/ h = "removed" /\ i \in reRemoved}) = 1
  <2> DEFINE homes == {h \in {"hot", "archive", "removed"} :
                         \/ h = "hot" /\ i \in RE!Hot
                         \/ h = "archive" /\ i \in RE!Archived
                         \/ h = "removed" /\ i \in reRemoved}
  <2>1. \/ i \in RE!Hot /\ i \notin RE!Archived /\ i \notin reRemoved
        \/ i \in RE!Archived /\ i \notin RE!Hot /\ i \notin reRemoved
        \/ i \in reRemoved /\ i \notin RE!Hot /\ i \notin RE!Archived
    BY DEF RetentionInv, RowHomes
  <2>2. homes = {"hot"} \/ homes = {"archive"} \/ homes = {"removed"}
    BY <2>1
  <2> QED
    BY <2>2, FS_Singleton
<1>3. \A i \in RE!Archived : reArchive[i] # reLast[i] => i \in reStale
  BY DEF RetentionInv, KeptVersions
<1> QED
  BY <1>1, <1>2, <1>3, FiniteIsFinite DEF RE!RowsHaveOneHome

-----------------------------------------------------------------------------
\* For any number of runs, rows, changes and any batch size: every observation is
\* in the table, in the archive or removed, and in only one of these, and the
\* archive keeps its latest content unless it changed during the run that archived
\* it (labs/retention/retention.py archive_old_observations).
THEOREM OneHome == RE!Spec => [](RE!TypeOK /\ RE!RowsHaveOneHome)
<1>1. RE!Init => RetentionInv
  BY RetentionInit, RetentionAssumption
<1>2. RetentionInv /\ [RE!Next]_(RE!vars) => RetentionInv'
  BY RetentionNext, RetentionAssumption
<1>3. RetentionInv => RE!TypeOK /\ RE!RowsHaveOneHome
  BY RetentionImplies, RetentionAssumption
<1> QED
  BY <1>1, <1>2, <1>3, PTL DEF RE!Spec

-----------------------------------------------------------------------------
(* All parts side by side.                                                  *)

\* A step of the composition is a step of one part, or leaves a part as it is.
LEMMA StepsBeside ==
  ASSUME [MCNext]_allVars
  PROVE  /\ [Next]_vars /\ [SV!Next]_(SV!vars) /\ [OB!Next]_(OB!vars)
         /\ [CA!Next]_(CA!vars) /\ [RE!Next]_(RE!vars) /\ part' = part
  <1>1. [Next]_vars /\ part' = part
    BY DEF MCNext, allVars
  <1>2. [SV!Next]_(SV!vars)
    BY DEF MCNext, allVars, serviceVars, SV!vars, SV!memory, SV!Next
  <1>3. [OB!Next]_(OB!vars)
    BY DEF MCNext, allVars, observationVars, OB!vars, OB!Next
  <1>4. [CA!Next]_(CA!vars)
    BY DEF MCNext, allVars, cachingVars, CA!vars, CA!cacheVars, CA!lockVars, CA!listVars, CA!Next, CA!CacheStep
  <1>5. [RE!Next]_(RE!vars)
    BY DEF MCNext, allVars, retentionVars, RE!vars
  <1> QED
    BY <1>1, <1>2, <1>3, <1>4, <1>5

\* The invariants of all parts.
PartsInv ==
  /\ part \in Parts
  /\ TypeInv /\ ServiceInv /\ ObservationsInv /\ CachesInv /\ RetentionInv

\* Every part keeps its invariant while the others take their steps.
LEMMA PartsKeepInv == MCSpec => []PartsInv
  <1>1. MCInit => PartsInv
    BY TypeInit, ServiceInit, ObservationsInit, CachesInit, RetentionInit, RetentionAssumption
    DEF MCInit, PartsInv
  <1>2. PartsInv /\ [MCNext]_allVars => PartsInv'
    BY StepsBeside, TypeStep, ServiceNext, ObservationsNext, CachesNext, RetentionNext, RetentionAssumption
    DEF PartsInv
  <1> QED
    BY <1>1, <1>2, PTL DEF MCSpec

\* The part that is followed is well formed, and only an active incident holds its
\* deduplication key (dependency_incidents.active_key).
THEOREM PartsAreWellFormed == MCSpec => []WellFormed
  <1>1. PartsInv => WellFormed
    <2> SUFFICES ASSUME PartsInv PROVE WellFormed
      OBVIOUS
    <2>1. TypeOK /\ KeyImpliesActive /\ SV!TypeOK /\ OB!TypeOK /\ CA!TypeOK /\ RE!TypeOK
      BY ServiceImplies, ObservationsImply, CachesImply, RetentionImplies, RetentionAssumption
      DEF PartsInv, TypeInv
    <2> QED
      BY <2>1 DEF WellFormed
  <1> QED
    BY <1>1, PartsKeepInv, PTL

\* The scheduled jobs follow the sources (JobsAreFollowed).
THEOREM JobsAreFollowedBeside == MCSpec => []JobsFollowSources
  <1>1. PartsInv => JobsFollowSources
    BY ServiceImplies DEF PartsInv, JobsFollowSources
  <1> QED
    BY <1>1, PartsKeepInv, PTL

\* Upserts of a key agree, and an observation has one home (RowsAreReadOnce, OneHome).
THEOREM ObservationsAreKept == MCSpec => []ObservationsKept
  <1>1. PartsInv => ObservationsKept
    BY ObservationsImply, RetentionImplies, RetentionAssumption DEF PartsInv, ObservationsKept
  <1> QED
    BY <1>1, PartsKeepInv, PTL

\* A reader of the cursor pages gets every untouched row once (RowsAreReadOnce).
THEOREM ScansAreStable == MCSpec => []ScanIsStable
  <1>1. PartsInv => ScanIsStable
    BY ObservationsImply DEF PartsInv, ScanIsStable
  <1> QED
    BY <1>1, PartsKeepInv, PTL

\* The layers of the cache agree and the lock excludes (CopiesAreFresh).
THEOREM CopiesAreFreshBeside == MCSpec => []CachesAgree
  <1>1. PartsInv => CachesAgree
    BY CachesImply DEF PartsInv, CachesAgree
  <1> QED
    BY <1>1, PartsKeepInv, PTL
=============================================================================
