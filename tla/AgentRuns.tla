----------------------------- MODULE AgentRuns -----------------------------
(***************************************************************************)
(* The incident-triage agent: the AgentRun row that a confirmed drift      *)
(* leaves behind, the fire-and-forget task that runs the LangGraph graph   *)
(* up to the human review (agent/runner.py, agent/nodes.py), the resume    *)
(* endpoint that carries the reviewer's decision (api/routes/agent.py),    *)
(* and the notification fan-out of the last node (notifications.py).       *)
(*                                                                         *)
(* LangGraph is external: an invocation loads the thread's checkpoint,     *)
(* runs the remaining nodes one by one and writes a checkpoint after each. *)
(* A resume of a thread that has finished runs nothing and returns the     *)
(* state it finished with.  Two invocations of one thread do not exclude   *)
(* each other.  The graph's data is reduced to the review decision.        *)
(***************************************************************************)
EXTENDS Naturals, FiniteSets

CONSTANTS Runs,        \* AgentRun ids
          Reviewers,   \* concurrent calls of the resume endpoint
          DefaultChannels, \* the names in notification_default_channels
          Settings,    \* the provider settings that are present
          MaxFaults    \* bound on process crashes and database errors

VARIABLES
  enabled,    \* the setting notifications_enabled
  graph,      \* runner._graph is compiled (is_enabled)
  status,     \* AgentRun.status of each run; "absent" before the row exists
  thread,     \* LangGraph checkpoint of each run: next node, decision so far
  task,       \* the fire-and-forget task of each run
  review,     \* the resume calls in flight
  dispatches, \* how often notify handed over the event of each run
  attempted,  \* channels the dispatches of each run reported sent and failed
  causes,     \* history: what may have left each run unfinished
  raced,      \* history: runs two resume calls were in flight for at once
  faults

agentVars == <<enabled, graph, status, thread, task, review, dispatches, attempted,
               causes, raced, faults>>

Statuses == {"absent", "pending", "running", "awaiting_review", "approved",
             "rejected", "failed"}

Nodes == {"classify_severity", "retrieve_similar_incidents", "draft_analysis",
          "human_review", "notify", "end"}

Decisions == {"none", "approve", "reject"}

Causes == {"crash", "disabled", "missing", "database"}

Idle == [pc |-> "idle", run |-> CHOOSE r \in Runs : TRUE, wish |-> "none",
         next |-> "end", decision |-> "none"]

\* builder.add_edge: five nodes in a line.
build_graph ==
  [classify_severity          |-> "retrieve_similar_incidents",
   retrieve_similar_incidents |-> "draft_analysis",
   draft_analysis             |-> "human_review",
   human_review               |-> "notify",
   notify                     |-> "end"]

Start == [next |-> "classify_severity", decision |-> "none"]

Init ==
  /\ enabled \in BOOLEAN
  /\ graph \in BOOLEAN
  /\ status = [r \in Runs |-> "absent"]
  /\ thread = [r \in Runs |-> Start]
  /\ task = [r \in Runs |-> "none"]
  /\ review = [v \in Reviewers |-> Idle]
  /\ dispatches = [r \in Runs |-> 0]
  /\ attempted = [r \in Runs |-> [sent |-> {}, failed |-> {}]]
  /\ causes = [r \in Runs |-> {}]
  /\ raced = {}
  /\ faults = 0

----------------------------------------------------------------------------
(* Life cycle.                                                             *)

\* start_agent_checkpointer: the anthropic settings and the import of the
\* `ai` extra decide; opening the pool may raise.
StartAgentCheckpointer ==
  /\ ~graph
  /\ graph' = TRUE
  /\ UNCHANGED <<status, thread, task, review, dispatches, attempted, causes,
                 raced, faults>>

\* stop_agent_checkpointer closes the pool under whatever still runs.
StopAgentCheckpointer ==
  /\ graph
  /\ graph' = FALSE
  /\ UNCHANGED <<status, thread, task, review, dispatches, attempted, causes,
                 raced, faults>>

\* The process dies: tasks and resume calls are gone, rows and checkpoints
\* stay.  Nothing in the code looks for the runs it left behind.
Crash ==
  /\ faults < MaxFaults
  /\ faults' = faults + 1
  /\ graph' = FALSE
  /\ causes' = [r \in Runs |->
       IF task[r] # "none" \/ \E v \in Reviewers : review[v] # Idle /\ review[v].run = r
       THEN causes[r] \cup {"crash"} ELSE causes[r]]
  /\ task' = [r \in Runs |-> "none"]
  /\ review' = [v \in Reviewers |-> Idle]
  /\ UNCHANGED <<status, thread, dispatches, attempted, raced>>

----------------------------------------------------------------------------
(* The fire-and-forget run.                                                *)

\* ContractDrift commits the row with the drift event and then creates the
\* task (_requires_incident_response has been decided there).
CreateRun(r) ==
  /\ status[r] = "absent"
  /\ status' = [status EXCEPT ![r] = "pending"]
  /\ task' = [task EXCEPT ![r] = "committed"]
  /\ UNCHANGED <<graph, thread, review, dispatches, attempted, causes, raced, faults>>

TriggerAgentRun(r) ==
  /\ task[r] = "committed"
  /\ task' = [task EXCEPT ![r] = "scheduled"]
  /\ UNCHANGED <<graph, status, thread, review, dispatches, attempted, causes,
                 raced, faults>>

\* The task leaves its run as it is: the agent is disabled, or the row or
\* its observation is not found.
Skip(r, cause) ==
  /\ task' = [task EXCEPT ![r] = "none"]
  /\ causes' = [causes EXCEPT ![r] = @ \cup {cause}]
  /\ UNCHANGED <<graph, status, thread, review, dispatches, attempted, raced, faults>>

RunAgentForObservation(r) ==
  /\ task[r] = "scheduled"
  /\ IF graph
     THEN /\ task' = [task EXCEPT ![r] = "building"]
          /\ UNCHANGED <<graph, status, thread, review, dispatches, attempted,
                         causes, raced, faults>>
     ELSE Skip(r, "disabled")

\* get_observation filters archived observations, so the one that
\* triggered the run may be gone.
BuildInitialState(r) ==
  /\ task[r] = "building"
  /\ \/ Skip(r, "missing")
     \/ /\ task' = [task EXCEPT ![r] = "marking"]
        /\ UNCHANGED <<graph, status, thread, review, dispatches, attempted,
                       causes, raced, faults>>

\* Mutant: a failed run leaves no trace.
RunFails_Silent(r) == task' = [task EXCEPT ![r] = "none"]

\* Any exception inside the try block.
RunFails(r) == task' = [task EXCEPT ![r] = "failing"]

DatabaseError == /\ faults < MaxFaults
                 /\ faults' = faults + 1

MarkRunning(r) ==
  /\ task[r] = "marking"
  /\ \/ /\ status' = [status EXCEPT ![r] = "running"]
        /\ task' = [task EXCEPT ![r] = "invoking"]
        /\ UNCHANGED faults
     \/ DatabaseError /\ RunFails(r) /\ UNCHANGED status
  /\ UNCHANGED <<graph, thread, review, dispatches, attempted, causes, raced>>

\* retrieve_similar_incidents swallows the errors of the search and of the
\* indexing; the two model calls may raise (retries exhausted, breaker
\* open, unparsable or empty output), and a checkpoint cannot be written
\* once the pool is closed.
MayRaise(node) == node \in {"classify_severity", "draft_analysis"}

InvokeNode(r) ==
  LET node == thread[r].next IN
  /\ task[r] = "invoking"
  /\ node # "human_review"
  /\ \/ /\ graph
        /\ thread' = [thread EXCEPT ![r].next = build_graph[node]]
        /\ UNCHANGED task
     \/ /\ ~graph \/ MayRaise(node)
        /\ RunFails(r)
        /\ UNCHANGED thread
  /\ UNCHANGED <<graph, status, review, dispatches, attempted, causes, raced, faults>>

\* human_review interrupts: ainvoke returns with __interrupt__ and
\* _sync_agent_run records the pause.
SyncInterrupted(r) ==
  /\ task[r] = "invoking"
  /\ thread[r].next = "human_review"
  /\ \/ /\ status' = [status EXCEPT ![r] = "awaiting_review"]
        /\ task' = [task EXCEPT ![r] = "none"]
        /\ UNCHANGED faults
     \/ DatabaseError /\ RunFails(r) /\ UNCHANGED status
  /\ UNCHANGED <<graph, thread, review, dispatches, attempted, causes, raced>>

\* The handler's _set_status opens a session of its own and may raise too;
\* nobody awaits the task.
RecordFailure(r) ==
  /\ task[r] = "failing"
  /\ task' = [task EXCEPT ![r] = "none"]
  /\ \/ /\ status' = [status EXCEPT ![r] = "failed"]
        /\ UNCHANGED <<causes, faults>>
     \/ /\ DatabaseError
        /\ causes' = [causes EXCEPT ![r] = @ \cup {"database"}]
        /\ UNCHANGED status
  /\ UNCHANGED <<graph, thread, review, dispatches, attempted, raced>>

----------------------------------------------------------------------------
(* The review.                                                             *)

AwaitsReview(r) == status[r] = "awaiting_review"

\* The endpoint reads the row and checks its status; a run in any other
\* status is answered 409, a missing one 404, and nothing changes.
ResumeRead(v, r, wish) ==
  /\ review[v] = Idle
  /\ AwaitsReview(r)
  /\ review' = [review EXCEPT ![v] = [pc |-> "checked", run |-> r, wish |-> wish,
                                      next |-> "end", decision |-> "none"]]
  /\ raced' = IF \E w \in Reviewers : review[w] # Idle /\ review[w].run = r
              THEN raced \cup {r} ELSE raced
  /\ UNCHANGED <<graph, status, thread, task, dispatches, attempted, causes, faults>>

\* resume_agent_run: 501 when the agent is disabled, else ainvoke loads the
\* checkpoint.
ResumeAgentRun(v) ==
  LET saved == thread[review[v].run] IN
  /\ review[v].pc = "checked"
  /\ review' = [review EXCEPT ![v] =
       IF graph
       THEN [@ EXCEPT !.pc = "invoking", !.next = saved.next,
                      !.decision = saved.decision]
       ELSE Idle]
  /\ UNCHANGED <<graph, status, thread, task, dispatches, attempted, causes, raced,
                 faults>>

\* The node after the interrupt: the resume value becomes the decision.
HumanReview(v) ==
  LET done == [next |-> build_graph["human_review"], decision |-> review[v].wish] IN
  /\ review[v].pc = "invoking"
  /\ review[v].next = "human_review"
  /\ graph
  /\ thread' = [thread EXCEPT ![review[v].run] = done]
  /\ review' = [review EXCEPT ![v].next = done.next, ![v].decision = done.decision]
  /\ UNCHANGED <<graph, status, task, dispatches, attempted, causes, raced, faults>>

\* _parse_channels drops every name it does not know.
Selected == DefaultChannels \cap {"slack", "telegram", "webhook", "email"}

\* Each adapter raises ValueError when a setting it needs is missing.
SendSlack == "slack_webhook_url" \in Settings

SendTelegram == {"telegram_bot_token", "telegram_chat_id"} \subseteq Settings

SendWebhook == "webhook_url" \in Settings

SendEmail ==
  {"email_provider_resend", "resend_api_key", "email_from", "email_to"} \subseteq Settings

DispatchToChannel(channel) ==
  \/ channel = "slack" /\ SendSlack
  \/ channel = "telegram" /\ SendTelegram
  \/ channel = "webhook" /\ SendWebhook
  \/ channel = "email" /\ SendEmail

\* The channels that are tried: none while notifications are disabled.
Targets == IF enabled THEN Selected ELSE {}

\* dispatch_notification_event: the channels one after the other, an error
\* of one is recorded and the next one is tried (a channel without its
\* settings raises ValueError, the breaker or the provider may refuse).
DispatchNotificationEvent(ok) == [sent |-> ok, failed |-> Targets \ ok]

\* notify: a rejection dispatches nothing.
Dispatches(decision) == decision = "approve"

Notify(v) ==
  LET run == review[v].run IN
  /\ review[v].pc = "invoking"
  /\ review[v].next = "notify"
  /\ IF Dispatches(review[v].decision)
     THEN /\ dispatches' = [dispatches EXCEPT ![run] = @ + 1]
          /\ \E ok \in SUBSET {c \in Targets : DispatchToChannel(c)} :
               LET report == DispatchNotificationEvent(ok) IN
               attempted' = [attempted EXCEPT
                 ![run] = [sent   |-> @.sent \cup report.sent,
                           failed |-> @.failed \cup report.failed]]
     ELSE UNCHANGED <<dispatches, attempted>>
  /\ review' = [review EXCEPT ![v].next = "written"]
  /\ UNCHANGED <<graph, status, thread, task, causes, raced, faults>>

\* The last checkpoint; between the dispatch and this write lies an await.
FinishThread(v) ==
  /\ review[v].pc = "invoking"
  /\ review[v].next = "written"
  /\ graph
  /\ thread' = [thread EXCEPT ![review[v].run] =
                  [next |-> "end", decision |-> review[v].decision]]
  /\ review' = [review EXCEPT ![v].next = "end"]
  /\ UNCHANGED <<graph, status, task, dispatches, attempted, causes, raced, faults>>

\* The pool was closed, or the checkpoint's database call failed.
ResumeFails(v) ==
  /\ review[v].pc = "invoking"
  /\ review[v].next # "end"
  /\ \/ ~graph /\ UNCHANGED faults
     \/ DatabaseError
  /\ review' = [review EXCEPT ![v].pc = "failing"]
  /\ UNCHANGED <<graph, status, thread, task, dispatches, attempted, causes, raced>>

\* _set_status(failed) and the 502; the session may raise instead.
RecordResumeFailure(v) ==
  /\ review[v].pc = "failing"
  /\ review' = [review EXCEPT ![v] = Idle]
  /\ \/ status' = [status EXCEPT ![review[v].run] = "failed"] /\ UNCHANGED faults
     \/ DatabaseError /\ UNCHANGED status
  /\ UNCHANGED <<graph, thread, task, dispatches, attempted, causes, raced>>

\* Mutant: the reviewer's own wish is recorded.
Verdict_OwnWish(call) == IF call.wish = "approve" THEN "approved" ELSE "rejected"

\* _sync_agent_run(resumed=True): the verdict is the one the graph ended
\* with, which need not be this caller's.
Verdict(call) == IF call.decision = "approve" THEN "approved" ELSE "rejected"

SyncResumed(v) ==
  /\ review[v].pc = "invoking"
  /\ review[v].next = "end"
  /\ review' = [review EXCEPT ![v] = Idle]
  /\ \/ status' = [status EXCEPT ![review[v].run] = Verdict(review[v])]
        /\ UNCHANGED faults
     \/ DatabaseError /\ UNCHANGED status
  /\ UNCHANGED <<graph, thread, task, dispatches, attempted, causes, raced>>

----------------------------------------------------------------------------

TaskStep(r) ==
  \/ CreateRun(r) \/ TriggerAgentRun(r) \/ RunAgentForObservation(r)
  \/ BuildInitialState(r) \/ MarkRunning(r) \/ InvokeNode(r)
  \/ SyncInterrupted(r) \/ RecordFailure(r)

ReviewStep(v) ==
  \/ \E r \in Runs, wish \in {"approve", "reject"} : ResumeRead(v, r, wish)
  \/ ResumeAgentRun(v) \/ HumanReview(v) \/ Notify(v) \/ FinishThread(v)
  \/ ResumeFails(v) \/ RecordResumeFailure(v) \/ SyncResumed(v)

Next ==
  /\ UNCHANGED enabled
  /\ \/ StartAgentCheckpointer \/ StopAgentCheckpointer \/ Crash
     \/ \E r \in Runs : TaskStep(r)
     \/ \E v \in Reviewers : ReviewStep(v)

Spec == Init /\ [][Next]_agentVars

----------------------------------------------------------------------------

TypeOK ==
  /\ enabled \in BOOLEAN /\ graph \in BOOLEAN
  /\ status \in [Runs -> Statuses]
  /\ thread \in [Runs -> [next : Nodes, decision : Decisions]]
  /\ task \in [Runs -> {"none", "committed", "scheduled", "building", "marking",
                        "invoking", "failing"}]
  /\ review \in [Reviewers -> [pc : {"idle", "checked", "invoking", "failing"},
                               run : Runs, wish : Decisions,
                               next : Nodes \cup {"written"}, decision : Decisions]]
  /\ dispatches \in [Runs -> Nat]
  /\ attempted \in [Runs -> [sent : SUBSET DefaultChannels,
                            failed : SUBSET DefaultChannels]]
  /\ causes \in [Runs -> SUBSET Causes]
  /\ raced \subseteq Runs
  /\ faults \in 0..MaxFaults

\* The verdict on the row is what was done about it, through crashes
\* between the dispatch, its checkpoint and the row, and through a second
\* reviewer who finds the thread finished: the event of an approved run was
\* handed over for dispatch and, where notifications are enabled, tried on
\* every selected channel, whichever of them failed, and on none where they
\* are disabled; unless two resume calls overlapped, a rejected one handed
\* over nothing; and a run does so twice only after an overlap or a fault
\* (runner.py:111-141, 188-231, nodes.py:171-221, notifications.py:51-113).
VerdictIsWhatWasDone ==
  \A r \in Runs :
    /\ status[r] = "approved" =>
         /\ dispatches[r] > 0
         /\ attempted[r].sent \cup attempted[r].failed = IF enabled THEN Selected ELSE {}
    /\ status[r] = "rejected" /\ r \notin raced => dispatches[r] = 0
    /\ dispatches[r] > 1 => r \in raced \/ faults > 0

\* A run is left pending or running with nobody working on it only by a
\* crash, a disabled agent, a missing observation, or a database error in
\* the failure handler itself: the runner promises that failures are
\* reflected in AgentRun.status (runner.py:84-108).
StalledHasCause ==
  \A r \in Runs :
    status[r] \in {"pending", "running"} /\ task[r] = "none" => causes[r] # {}

=============================================================================
