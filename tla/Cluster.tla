------------------------------ MODULE Cluster ------------------------------
(***************************************************************************)
(* A CertOS cluster: one master (job table, node table, scheduler thread   *)
(* and RPC handlers) and the agents with their polling loop, heartbeat     *)
(* loop and execution threads (agent_daemon.cpp, grpc_service.cpp).        *)
(*                                                                         *)
(* Every RPC is a synchronous unary call without deadline or retry.  Its   *)
(* handler is one step, or two where it takes two locks.  When the caller  *)
(* uses the answer, receiving it is a step of its own; when it ignores the *)
(* answer (the three reports), the handler and the caller's advance are    *)
(* one step, because nothing can tell them apart.  A call lost on its way  *)
(* leaves the master unchanged; an answer lost on its way back looks to    *)
(* the agent like a failed call.                                           *)
(***************************************************************************)
EXTENDS SchedulerEngine, JobExecutor

CONSTANTS
  NoJob,                        \* the polling thread holds no answer
  HostOf,                       \* what an agent registers as: in the code, every
                                \* agent as "agent-host" at 127.0.0.1
  Announced,                    \* the resources it registers
  Reported,                     \* the resources every heartbeat reports
  Lossy,                        \* whether calls and answers get lost
  MaxDeaths                     \* bound on the deaths of processes

ASSUME ClusterAssumption ==
  /\ NoJob \notin JobIds
  /\ HostOf \in [Agents -> Hosts]
  /\ Announced \in [Agents -> Resources] /\ Reported \in Resources
  /\ Lossy \in BOOLEAN /\ MaxDeaths \in Nat

VARIABLES
  agent,                        \* the locals of an agent's two loops
  late,                         \* reports under way that nobody waits for
  deaths                        \* processes that died so far

agentVars == <<agent, late, deaths>>
clusterVars == <<masterVars, schedVars, executorVars, agentVars>>

(* node_id_ (NoNode: not running), the answer to FetchJob being handled,   *)
(* whether SendHeartbeat is between its two locks, and the jobs left in    *)
(* the loop over jobs_to_cancel.                                           *)
AgentState == [node_id: NodeIds \cup {NoNode}, fetched: JobIds \cup {NoJob},
               acknowledged: BOOLEAN, to_cancel: SUBSET JobIds]

Down == [node_id |-> NoNode, fetched |-> NoJob,
         acknowledged |-> FALSE, to_cancel |-> {}]

Up(a) == agent[a].node_id # NoNode

Report == [job: JobIds, status: {"RUNNING", "COMPLETED", "FAILED"}, node: NodeIds]

ClusterInit ==
  /\ SchedulerInitAll /\ ExecutorInit
  /\ agent = [a \in Agents |-> Down] /\ late = {} /\ deaths = 0

-----------------------------------------------------------------------------
(* Users, through the gateway.                                             *)

SubmitJob(j, spec) ==
  submit_job(j, spec) /\ UNCHANGED <<nodes, now, schedVars, executorVars, agentVars>>

CancelJob(j) ==
  cancel_job(j) /\ UNCHANGED <<nodes, issued, now, schedVars, executorVars, agentVars>>

-----------------------------------------------------------------------------
(* The agent daemon.                                                       *)

(* The handler RegisterNode.                                               *)
RegisterNode(a, n) == register_node(HostOf[a], Announced[a], n)

(* The answer to it, or none, for all that the master has registered.      *)
Registered(a, n) ==
  agent' = [agent EXCEPT ![a].node_id = n] \/ (Lossy /\ UNCHANGED agent)

(* start(): the process ends again when it gets no answer.                 *)
StartAgent(a) ==
  /\ ~Up(a)
  /\ \E n \in NodeIds : RegisterNode(a, n) /\ Registered(a, n)
  /\ UNCHANGED <<jobs, now, schedVars, executorVars, late, deaths>>

(* Faulty: the node of the job is not compared.                            *)
Offered_AnyNode(a) == {j \in list_jobs("ASSIGNED") : Up(a)}

(* The handler FetchJob answers with any of these, and leaves the job as   *)
(* it is, so the next poll may be offered the same job.                    *)
Offered(a) == {j \in list_jobs("ASSIGNED") : jobs[j].node = agent[a].node_id}

FetchJob(a) ==
  /\ Up(a) /\ agent[a].fetched = NoJob
  /\ \E j \in Offered(a) : agent' = [agent EXCEPT ![a].fetched = j]
  /\ UNCHANGED <<masterVars, schedVars, executorVars, late, deaths>>

ExecuteFetched(a) ==
  /\ agent[a].fetched # NoJob
  /\ execute_async(a, agent[a].fetched)
  /\ agent' = [agent EXCEPT ![a].fetched = NoJob]
  /\ UNCHANGED <<masterVars, schedVars, late, deaths>>

(* The first half of the handler; a node the master does not know gets no  *)
(* further, and the agent only logs a warning.                             *)
SendHeartbeat(a) ==
  /\ Up(a) /\ ~agent[a].acknowledged /\ agent[a].to_cancel = {}
  /\ update_heartbeat(agent[a].node_id, Reported)
  /\ agent' = [agent EXCEPT ![a].acknowledged = Acknowledged(agent[a].node_id)]
  /\ UNCHANGED <<jobs, issued, now, schedVars, executorVars, late, deaths>>

(* What send_heartbeat may return: the answer, or nothing if that is lost. *)
HeartbeatResults(a) ==
  {get_jobs_to_cancel_for_node(agent[a].node_id)} \cup {x \in {{}} : Lossy}

(* The second half: the answer carries the cancelled jobs of the node.     *)
AnswerHeartbeat(a) ==
  /\ agent[a].acknowledged
  /\ \E answer \in HeartbeatResults(a) :
       agent' = [agent EXCEPT ![a].acknowledged = FALSE, ![a].to_cancel = answer]
  /\ UNCHANGED <<masterVars, schedVars, executorVars, late, deaths>>

KillCancelled(a, j) ==
  /\ j \in agent[a].to_cancel
  /\ cancel(a, j)
  /\ agent' = [agent EXCEPT ![a].to_cancel = @ \ {j}]
  /\ UNCHANGED <<masterVars, schedVars, late, deaths>>

-----------------------------------------------------------------------------
(* The callbacks of the execution threads, which report to the master.     *)

(* The handlers ReportJobStarted, ReportJobCompleted and ReportJobFailed.  *)
Deliver(report) ==
  /\ update_job_status(report.job, report.status, report.node)
  /\ UNCHANGED <<nodes, issued, now>>

ReportOf(r, status) ==
  [job |-> runs[r].job, status |-> status, node |-> agent[runs[r].agent].node_id]

(* A call that fails for the agent was lost before its handler ran, or its *)
(* handler runs later, while the thread has gone on.                       *)
Call(r, status) ==
  /\ \/ Deliver(ReportOf(r, status)) /\ UNCHANGED late
     \/ Lossy /\ UNCHANGED <<masterVars, late>>
     \/ Lossy /\ UNCHANGED masterVars /\ late' = late \cup {ReportOf(r, status)}
  /\ UNCHANGED <<schedVars, agent, deaths>>

ReportJobStarted(r) == OnStarted(r) /\ Call(r, "RUNNING")

ReportJobCompleted(r) == OnCompleted(r) /\ Call(r, "COMPLETED")

(* Faulty: a failed launch is reported like an exit.                       *)
ReportJobFailed_AsCompleted(r) == OnFailed(r) /\ Call(r, "COMPLETED")

ReportJobFailed(r) == OnFailed(r) /\ Call(r, "FAILED")

(* The steps a thread takes without the master.                            *)
LocalStep(r) ==
  /\ LaunchFails(r) \/ Fork(r) \/ RegisterPid(r) \/ Wait(r) \/ Erase(r)
  /\ UNCHANGED <<masterVars, schedVars, agentVars>>

RunThread(r) ==
  LocalStep(r) \/ ReportJobStarted(r) \/ ReportJobCompleted(r) \/ ReportJobFailed(r)

ProcessExits(r) == Exit(r) /\ UNCHANGED <<masterVars, schedVars, agentVars>>

-----------------------------------------------------------------------------
(* Deaths.                                                                 *)

(* The reports an agent's threads may have under way.                      *)
Calls(a) ==
  {ReportOf(r, "RUNNING") : r \in {s \in DOMAIN runs :
      runs[s].agent = a /\ runs[s].thread = "registered"}}
  \cup {ReportOf(r, "COMPLETED") : r \in {s \in DOMAIN runs :
      runs[s].agent = a /\ runs[s].thread = "erased"}}
  \cup {ReportOf(r, "FAILED") : r \in {s \in DOMAIN runs :
      runs[s].agent = a /\ runs[s].thread = "failed"}}

(* Calls already under way may still reach the master.                     *)
KillAgent(a) ==
  /\ Up(a) /\ deaths < MaxDeaths
  /\ AgentDies(a)
  /\ agent' = [agent EXCEPT ![a] = Down]
  /\ \E sent \in SUBSET Calls(a) : late' = late \cup sent
  /\ deaths' = deaths + 1
  /\ UNCHANGED <<masterVars, schedVars>>

LateReport(report) ==
  /\ report \in late
  /\ Deliver(report)
  /\ late' = late \ {report}
  /\ UNCHANGED <<schedVars, executorVars, agent, deaths>>

(* A new master process starts with empty tables; handlers that were       *)
(* running fail with the old one.                                          *)
RestartMaster ==
  /\ deaths < MaxDeaths
  /\ jobs' = EmptyTable /\ nodes' = EmptyTable
  /\ EndPass
  /\ agent' = [a \in Agents |-> [agent[a] EXCEPT !.acknowledged = FALSE]]
  /\ deaths' = deaths + 1
  /\ UNCHANGED <<issued, now, executorVars, late>>

-----------------------------------------------------------------------------
AgentStep(a) ==
  \/ StartAgent(a) \/ FetchJob(a) \/ ExecuteFetched(a)
  \/ SendHeartbeat(a) \/ AnswerHeartbeat(a)
  \/ \E j \in JobIds : KillCancelled(a, j)

ClusterNext ==
  \/ \E j \in JobIds : CancelJob(j) \/ \E spec \in Specs : SubmitJob(j, spec)
  \/ SchedulerStep /\ UNCHANGED <<executorVars, agentVars>>
  \/ \E a \in Agents : AgentStep(a) \/ KillAgent(a)
  \/ \E r \in Runs : RunThread(r) \/ ProcessExits(r)
  \/ \E report \in late : LateReport(report)
  \/ RestartMaster
  \/ Tick /\ UNCHANGED <<jobs, nodes, issued, schedVars, executorVars, agentVars>>

ClusterSpec == ClusterInit /\ [][ClusterNext]_clusterVars

(* Progress: time passes, and the threads of the master and of running     *)
(* agents are scheduled.                                                   *)
Progress ==
  /\ WF_now(Tick /\ UNCHANGED <<jobs, nodes, issued, schedVars, executorVars, agentVars>>)
  /\ WF_clusterVars(SchedulerStep /\ UNCHANGED <<executorVars, agentVars>>)
  /\ \A a \in Agents :
       /\ WF_clusterVars(FetchJob(a)) /\ WF_clusterVars(ExecuteFetched(a))
       /\ WF_clusterVars(SendHeartbeat(a)) /\ WF_clusterVars(AnswerHeartbeat(a))
       /\ \A j \in JobIds : WF_clusterVars(KillCancelled(a, j))
  /\ \A r \in Runs : WF_clusterVars(RunThread(r))

ProgressSpec == ClusterSpec /\ Progress

(* Somebody also starts every agent that is not running.                   *)
FairSpec == ProgressSpec /\ \A a \in Agents : WF_clusterVars(StartAgent(a))

-----------------------------------------------------------------------------
ClusterTypeOK ==
  /\ SchedulerTypeOK /\ ExecutorTypeOK
  /\ agent \in [Agents -> AgentState]
  /\ late \subseteq Report /\ deaths \in 0..MaxDeaths

(* Jobs run where they were assigned: an agent executes a job only under   *)
(* the node id the scheduler gave that job, through late answers, deaths   *)
(* and restarts of either side.                                            *)
RunsWhereAssigned ==
  \A r \in DOMAIN runs :
    ThreadAt(r, "gone")
    \/ runs[r].job \notin DOMAIN jobs
    \/ jobs[runs[r].job].node = agent[runs[r].agent].node_id

(* The job table never invents an execution: RUNNING means that an agent   *)
(* forked the job, COMPLETED that a process of it ended and was collected, *)
(* FAILED that a launch is over which never had one.                       *)
StatusHasCause ==
  \A j \in DOMAIN jobs :
    LET Seen(P) == \E r \in DOMAIN runs : runs[r].job = j /\ runs[r].proc \in P
    IN  /\ jobs[j].status = "RUNNING" => Seen({"alive", "zombie", "reaped"})
        /\ jobs[j].status = "COMPLETED" => Seen({"reaped"})
        /\ jobs[j].status = "FAILED" => \E r \in DOMAIN runs :
             /\ runs[r].job = j /\ runs[r].proc = "none"
             /\ runs[r].thread \in {"failed", "gone"}

(* Provided that every job process ends some day, every submitted job      *)
(* reaches a terminal status and stays there, however often it is          *)
(* dispatched and whenever it is cancelled.                                *)
JobsFinish ==
  (\A r \in Runs : Alive(r) ~> ~Alive(r))
    => \A j \in JobIds : j \in DOMAIN jobs ~> [](HasStatus(j, Terminal))

(* As long as the window stays open, a living process of a cancelled job   *)
(* does not stay one: a heartbeat brings the order and kills it, unless a  *)
(* late report of its start has overwritten the status first.              *)
CancelIsDecided ==
  \A r \in Runs :
    Alive(r) /\ HasStatus(runs[r].job, {"CANCELLED"})
      ~> ~Alive(r) \/ ~HasStatus(runs[r].job, {"CANCELLED"})

-----------------------------------------------------------------------------
(* What comments and documents of the program say and the program does not *)
(* do; each is refuted by a run of its own.                                *)

(* job_manager.cpp:116, "If it's CANCELLED, the node heartbeat will see it *)
(* and kill it."                                                           *)
CancelledIsKilled ==
  \A r \in Runs :
    Alive(r) /\ HasStatus(runs[r].job, {"CANCELLED"}) ~> ~Alive(r)

(* run_cluster.sh:39, "Starting certosc-agent (Node 2)": the two agents of *)
(* a cluster are two nodes, and a job, which is assigned to one node, is   *)
(* not executed by both.                                                   *)
OneAgentPerJob ==
  \A r, s \in DOMAIN runs :
    runs[r].job = runs[s].job => runs[r].agent = runs[s].agent

-----------------------------------------------------------------------------
(* The cluster implements JobLifecycle: this is all that a user can see of *)
(* a job, and nothing the scheduler, the agents, the network or a death do *)
(* takes a job anywhere else.  StatusSeen is what GetJobStatus answers,    *)
(* where an unknown job was either never submitted or is lost; NodeSeen is *)
(* the node in the list of jobs, empty for a job without one.              *)
StatusSeen(j) == IF j \in DOMAIN jobs THEN jobs[j].status
                 ELSE IF j \in issued THEN "GONE" ELSE "NONE"

NodeSeen(j) == IF j \in DOMAIN jobs THEN jobs[j].node ELSE NoNode

Lifecycle ==
  INSTANCE JobLifecycle WITH status <- [j \in JobIds |-> StatusSeen(j)],
                             node <- [j \in JobIds |-> NodeSeen(j)]

FollowsLifecycle == Lifecycle!Spec

=============================================================================
