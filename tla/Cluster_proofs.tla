--------------------------- MODULE Cluster_proofs ---------------------------
(***************************************************************************)
(* For any cluster, any losses and any deaths: a job runs where it was     *)
(* assigned, every status has a cause, and what a user sees of a job       *)
(* follows JobLifecycle.                                                   *)
(*                                                                         *)
(* The invariants of the scheduler and of the executor carry over, because *)
(* every step of the cluster but the restart of the master is a step of    *)
(* each of them.  What is new is AgentInv: what an agent holds for a job,  *)
(* an answer, a run or a report under way, was given to it under the node  *)
(* id it has, and a report under way tells what has happened.              *)
(***************************************************************************)
EXTENDS Cluster, SchedulerEngine_proofs, JobExecutor_proofs

(* A job that was given to node n, as far as it is known.                  *)
Placed(j, n) == j \in issued /\ (j \in DOMAIN jobs => jobs[j].node = n)

Started(r) == runs[r].proc \in {"alive", "zombie", "reaped"}

Ended(r) == runs[r].proc = "reaped"

NotLaunched(r) == runs[r].proc = "none" /\ runs[r].thread \in {"failed", "gone"}

Cause(j, status) ==
  \E r \in DOMAIN runs :
    /\ runs[r].job = j
    /\ status = "RUNNING" => Started(r)
    /\ status = "COMPLETED" => Ended(r)
    /\ status = "FAILED" => NotLaunched(r)

Reports == {"RUNNING", "COMPLETED", "FAILED"}

AgentInv ==
  /\ agent \in [Agents -> AgentState] /\ late \subseteq Report /\ deaths \in 0..MaxDeaths
  /\ \A a \in Agents :
       agent[a].fetched # NoJob => Up(a) /\ Placed(agent[a].fetched, agent[a].node_id)
  /\ \A r \in DOMAIN runs :
       runs[r].thread # "gone" =>
         Up(runs[r].agent) /\ Placed(runs[r].job, agent[runs[r].agent].node_id)
  /\ \A report \in late :
       Placed(report.job, report.node) /\ Cause(report.job, report.status)

StatusCaused ==
  \A j \in DOMAIN jobs : jobs[j].status \in Reports => Cause(j, jobs[j].status)

ClusterInv == SchedulerInv /\ ExecutorInv /\ AgentInv /\ StatusCaused

-----------------------------------------------------------------------------
(* What a step does to the job table, as far as node and status go.        *)
OthersStay(j) == \A k \in DOMAIN jobs : k # j => jobs'[k] = jobs[k]

Becomes(j, status, n) ==
  /\ j \in DOMAIN jobs /\ DOMAIN jobs' = DOMAIN jobs
  /\ jobs'[j].status = status /\ jobs'[j].node = n
  /\ OthersStay(j) /\ UNCHANGED issued

NoJobMoves ==
  UNCHANGED jobs /\ issued \subseteq issued' /\ issued' \subseteq issued \cup NodeIds

IsSubmitted(j) ==
  /\ j \notin issued /\ issued' = issued \cup {j}
  /\ DOMAIN jobs' = DOMAIN jobs \cup {j}
  /\ jobs'[j].status = "QUEUED" /\ jobs'[j].node = NoNode
  /\ OthersStay(j)

IsCancelled(j) ==
  Becomes(j, "CANCELLED", jobs[j].node) /\ jobs[j].status \notin Terminal

IsAssigned(j) ==
  jobs[j].node = NoNode /\ \E n \in NodeIds : Becomes(j, "ASSIGNED", n)

IsReported(j, status) ==
  jobs[j].node # NoNode /\ Becomes(j, status, jobs[j].node) /\ Cause(j, status)

AllLost == DOMAIN jobs' = {} /\ UNCHANGED issued

JobsMove ==
  \/ NoJobMoves \/ AllLost
  \/ \E j \in JobIds :
       \/ IsSubmitted(j) \/ IsCancelled(j) \/ IsAssigned(j)
       \/ \E status \in Reports : IsReported(j, status)

(* What has happened to a run has happened.                                *)
RunsKept ==
  /\ DOMAIN runs \subseteq DOMAIN runs'
  /\ \A r \in DOMAIN runs :
       /\ runs'[r].job = runs[r].job /\ runs'[r].agent = runs[r].agent
       /\ runs[r].thread = "gone" => runs'[r].thread = "gone"
       /\ Started(r) => Started(r)'
       /\ Ended(r) => Ended(r)'
       /\ NotLaunched(r) => NotLaunched(r)'

LEMMA PlacedStays ==
  ASSUME SchedulerInv, JobsMove, NEW j \in JobIds, NEW n \in NodeIds, Placed(j, n)
  PROVE  Placed(j, n)'
<1>1. n # NoNode /\ j \notin NodeIds /\ DOMAIN jobs \subseteq issued
  BY IdentifierAssumption DEF SchedulerInv, JobsInv
<1> QED
  BY <1>1 DEF Placed, JobsMove, NoJobMoves, AllLost, IsSubmitted, IsCancelled, IsAssigned,
     IsReported, Becomes, OthersStay

LEMMA CauseStays ==
  ASSUME RunsKept, NEW j, NEW status, Cause(j, status)
  PROVE  Cause(j, status)'
BY DEF RunsKept, Cause

LEMMA StatusStaysCaused ==
  ASSUME StatusCaused, JobsMove, RunsKept
  PROVE  StatusCaused'
<1> SUFFICES ASSUME NEW j \in DOMAIN jobs', NEW status \in Reports, jobs'[j].status = status
             PROVE  Cause(j, status)'
  BY DEF StatusCaused, Cause
<1>1. Cause(j, status)
  BY DEF StatusCaused, JobsMove, NoJobMoves, AllLost, IsSubmitted, IsCancelled, IsAssigned,
     IsReported, Becomes, OthersStay, Reports
<1> QED
  BY <1>1, CauseStays

-----------------------------------------------------------------------------
(* The executors.                                                          *)

LEMMA MovedKeepsRuns ==
  ASSUME NEW r \in DOMAIN runs, NEW thread, NEW proc, Moved(r, thread, proc),
         runs[r].thread = "gone" => thread = "gone",
         Started(r) => proc \in {"alive", "zombie", "reaped"},
         Ended(r) => proc = "reaped",
         NotLaunched(r) => proc = "none" /\ thread \in {"failed", "gone"}
  PROVE  RunsKept
<1>1. \A s \in DOMAIN runs : s # r => runs'[s] = runs[s]
  BY DEF Moved
<1>2. runs'[r].thread = thread /\ runs'[r].proc = proc
  BY DEF Moved
<1>3. /\ DOMAIN runs' = DOMAIN runs
      /\ \A s \in DOMAIN runs : runs'[s].job = runs[s].job /\ runs'[s].agent = runs[s].agent
  BY DEF Moved
<1> QED
  BY <1>1, <1>2, <1>3 DEF RunsKept, Started, Ended, NotLaunched

(* A step of a thread moves its run alone; it starts no run.               *)
ThreadMoves(r) ==
  /\ r \in DOMAIN runs /\ runs[r].thread # "gone"
  /\ \E thread \in ThreadStates \ {"new"}, proc \in ProcessStates : Moved(r, thread, proc)

LEMMA AdvanceKeepsRuns ==
  ASSUME ExecutorInv, NEW r \in Runs, NEW from, NEW to \in ThreadStates \ {"new"},
         Advance(r, from, to), from # "gone", from = "failed" => to = "gone"
  PROVE  RunsKept /\ ThreadMoves(r)
<1>1. r \in DOMAIN runs /\ runs[r].thread = from /\ Moved(r, to, runs[r].proc)
  BY MoveThread DEF Advance, ThreadAt, ExecutorInv
<1>2. RunsKept
  BY <1>1, MovedKeepsRuns DEF Started, Ended, NotLaunched
<1>3. runs[r].proc \in ProcessStates
  BY <1>1 DEF ExecutorInv, ExecutorTypeOK, Run
<1> QED
  BY <1>1, <1>2, <1>3 DEF ThreadMoves

LEMMA ThreadKeepsRuns ==
  ASSUME ExecutorInv, NEW r \in Runs, ThreadStep(r)
  PROVE  RunsKept /\ ThreadMoves(r)
<1>2. {"failed", "forked", "registered", "reading", "reaped", "erased", "gone"}
        \subseteq ThreadStates \ {"new"}
  BY DEF ThreadStates
<1>3. CASE LaunchFails(r)
  <2>1. Advance(r, "new", "failed")
    BY <1>3 DEF LaunchFails
  <2>2. "failed" \in ThreadStates \ {"new"}
    BY DEF ThreadStates
  <2> QED
    BY <2>1, <2>2, AdvanceKeepsRuns
<1>4. CASE RegisterPid(r)
  <2>1. Advance(r, "forked", "registered")
    BY <1>4 DEF RegisterPid
  <2>2. "registered" \in ThreadStates \ {"new"}
    BY DEF ThreadStates
  <2> QED
    BY <2>1, <2>2, AdvanceKeepsRuns
<1>5. CASE OnStarted(r)
  <2>1. Advance(r, "registered", "reading")
    BY <1>5 DEF OnStarted
  <2>2. "reading" \in ThreadStates \ {"new"}
    BY DEF ThreadStates
  <2> QED
    BY <2>1, <2>2, AdvanceKeepsRuns
<1>6. CASE Erase(r)
  <2>1. Advance(r, "reaped", "erased")
    BY <1>6 DEF Erase
  <2>2. "erased" \in ThreadStates \ {"new"}
    BY DEF ThreadStates
  <2> QED
    BY <2>1, <2>2, AdvanceKeepsRuns
<1>7. CASE OnCompleted(r) \/ OnFailed(r)
  BY <1>2, <1>7, AdvanceKeepsRuns DEF OnCompleted, OnFailed
<1>8. CASE Fork(r)
  <2>1. r \in DOMAIN runs /\ runs[r].thread = "new" /\ runs[r].proc = "none"
    BY <1>8 DEF Fork, ThreadAt, ExecutorInv, ProcessFits
  <2>2. Moved(r, "forked", "alive") /\ "alive" \in ProcessStates
    BY <1>2, <1>8, <2>1, MoveBoth DEF Fork, ExecutorInv, ProcessStates
  <2> QED
    BY <1>2, <2>1, <2>2, MovedKeepsRuns DEF Started, Ended, NotLaunched, ThreadMoves
<1>9. CASE Wait(r)
  <2>1. r \in DOMAIN runs /\ runs[r].thread = "reading" /\ runs[r].proc = "zombie"
    BY <1>9 DEF Wait, ThreadAt
  <2>2. Moved(r, "reaped", "reaped") /\ "reaped" \in ProcessStates
    BY <1>2, <1>9, <2>1, MoveBoth DEF Wait, ExecutorInv, ProcessStates
  <2> QED
    BY <1>2, <2>1, <2>2, MovedKeepsRuns DEF Started, Ended, NotLaunched, ThreadMoves
<1> QED
  BY <1>3, <1>4, <1>5, <1>6, <1>7, <1>8, <1>9 DEF ThreadStep

(* A signal, or the end of a process.                                      *)
ProcessMoves ==
  /\ DOMAIN runs' = DOMAIN runs
  /\ \A r \in DOMAIN runs : runs'[r].thread = runs[r].thread

LEMMA ProcessKeepsRuns ==
  ASSUME ExecutorInv, NEW r \in DOMAIN runs, runs[r].proc = "alive",
         runs' = [runs EXCEPT ![r].proc = "zombie"]
  PROVE  RunsKept /\ ProcessMoves
<1>1. Moved(r, runs[r].thread, "zombie")
  BY MoveProcess DEF ExecutorInv, ProcessStates
<1>2. RunsKept
  BY <1>1, MovedKeepsRuns DEF Started, Ended, NotLaunched
<1> QED
  BY <1>1, <1>2 DEF Moved, ProcessMoves

LEMMA CancelKeepsRuns ==
  ASSUME ExecutorInv, NEW a \in Agents, NEW j \in JobIds, cancel(a, j)
  PROVE  RunsKept /\ ProcessMoves
<1> DEFINE pid == running_jobs[a][j]
<1>1. CASE pid \in Runs /\ runs[pid].proc = "alive"
  <2>1. pid \in DOMAIN runs
    BY <1>1 DEF ExecutorInv, ExecutorTypeOK
  <2>2. runs' = [runs EXCEPT ![pid].proc = "zombie"]
    BY <1>1 DEF cancel, Signal
  <2> QED
    BY <1>1, <2>1, <2>2, ProcessKeepsRuns
<1>2. CASE ~(pid \in Runs /\ runs[pid].proc = "alive")
  BY <1>2 DEF cancel, Signal, RunsKept, Started, Ended, NotLaunched, ProcessMoves
<1> QED
  BY <1>1, <1>2

(* A new run, unless the job has an entry.                                 *)
RunStarts(a, j) ==
  \E r \in Runs \ DOMAIN runs :
    /\ DOMAIN runs' = DOMAIN runs \cup {r}
    /\ runs'[r].agent = a /\ runs'[r].job = j
    /\ \A s \in DOMAIN runs : runs'[s] = runs[s]

LEMMA ExecuteKeepsRuns ==
  ASSUME ExecutorInv, NEW a \in Agents, NEW j \in JobIds, execute_async(a, j)
  PROVE  RunsKept /\ (UNCHANGED runs \/ RunStarts(a, j))
<1>1. CASE UNCHANGED executorVars
  BY <1>1 DEF executorVars, RunsKept, Started, Ended, NotLaunched
<1>2. ASSUME NEW r \in Runs \ DOMAIN runs,
             runs' = Put(runs, r, [agent |-> a, job |-> j, thread |-> "new", proc |-> "none"])
      PROVE  RunsKept /\ RunStarts(a, j)
  <2>1. /\ DOMAIN runs' = DOMAIN runs \cup {r}
        /\ runs'[r].agent = a /\ runs'[r].job = j
        /\ \A s \in DOMAIN runs : runs'[s] = runs[s]
    BY <1>2 DEF Put
  <2> QED
    BY <2>1 DEF RunsKept, Started, Ended, NotLaunched, RunStarts
<1> QED
  BY <1>1, <1>2 DEF execute_async

LEMMA DeathKeepsRuns ==
  ASSUME ExecutorInv, NEW a \in Agents, AgentDies(a)
  PROVE  /\ RunsKept /\ DOMAIN runs' = DOMAIN runs
         /\ \A r \in DOMAIN runs :
              runs'[r].thread = IF runs[r].agent = a THEN "gone" ELSE runs[r].thread
<1>1. \A r \in DOMAIN runs :
        /\ runs[r] \in Run
        /\ runs'[r] = IF runs[r].agent = a THEN [runs[r] EXCEPT !.thread = "gone"] ELSE runs[r]
  BY DEF AgentDies, ExecutorInv, ExecutorTypeOK
<1>2. \A r \in DOMAIN runs :
        /\ runs'[r].thread = IF runs[r].agent = a THEN "gone" ELSE runs[r].thread
        /\ runs'[r].job = runs[r].job /\ runs'[r].agent = runs[r].agent
        /\ runs'[r].proc = runs[r].proc
  BY <1>1 DEF Run
<1>3. DOMAIN runs' = DOMAIN runs
  BY DEF AgentDies
<1> QED
  BY <1>2, <1>3 DEF RunsKept, Started, Ended, NotLaunched

-----------------------------------------------------------------------------
(* The master.                                                             *)

(* A call or a step that SchedulerSpec has too.                            *)
LEMMA MasterKeeps ==
  ASSUME SchedulerInv,
         \/ SchedulerStep
         \/ Handlers /\ UNCHANGED schedVars
         \/ UNCHANGED masterVars /\ UNCHANGED schedVars
  PROVE  SchedulerInv'
BY SchedulerNextKeepsInv DEF SchedulerNext, allVars

LEMMA SubmitMoves ==
  ASSUME SchedulerInv, NEW j \in JobIds, NEW spec \in Specs, submit_job(j, spec)
  PROVE  JobsMove
<1>1. /\ j \notin issued /\ j \notin DOMAIN jobs /\ issued' = issued \cup {j}
      /\ DOMAIN jobs' = DOMAIN jobs \cup {j}
      /\ jobs'[j] = [status |-> "QUEUED", node |-> NoNode, spec |-> spec,
                     submitted_at |-> now, completed_at |-> 0]
      /\ \A k \in DOMAIN jobs : jobs'[k] = jobs[k]
  BY DEF submit_job, Fresh, Put, SchedulerInv, JobsInv
<1>2. IsSubmitted(j)
  BY <1>1 DEF IsSubmitted, OthersStay
<1> QED
  BY <1>2 DEF JobsMove

(* An entry that is changed in place.                                      *)
LEMMA EntryBecomes ==
  ASSUME JobsInv, UNCHANGED issued, NEW j \in DOMAIN jobs, NEW info,
         jobs' = [jobs EXCEPT ![j] = info]
  PROVE  Becomes(j, info.status, info.node)
BY DEF JobsInv, Becomes, OthersStay

LEMMA CancelMoves ==
  ASSUME SchedulerInv, UNCHANGED issued, NEW j \in JobIds, cancel_job(j)
  PROVE  JobsMove
<1> DEFINE info == [jobs[j] EXCEPT !.status = "CANCELLED", !.completed_at = now]
<1>1. /\ j \in DOMAIN jobs /\ jobs[j] \in JobInfo /\ jobs[j].status \notin Terminal
      /\ jobs' = [jobs EXCEPT ![j] = info] /\ JobsInv
  BY DEF cancel_job, HasStatus, SchedulerInv, JobsInv
<1>2. info.status = "CANCELLED" /\ info.node = jobs[j].node
  BY <1>1 DEF JobInfo
<1> HIDE DEF info
<1>3. IsCancelled(j)
  BY <1>1, <1>2, EntryBecomes DEF IsCancelled
<1> QED
  BY <1>3 DEF JobsMove

LEMMA UpdateMoves ==
  ASSUME SchedulerInv, UNCHANGED issued, NEW j \in DOMAIN jobs, NEW n \in NodeIds,
         NEW s \in {"ASSIGNED", "RUNNING", "COMPLETED", "FAILED"},
         s # "ASSIGNED" => jobs[j].node = n,
         update_job_status(j, s, n)
  PROVE  Becomes(j, s, n)
<1> DEFINE info == Updated(jobs[j], s, n)
<1>1. jobs[j] \in JobInfo /\ jobs' = [jobs EXCEPT ![j] = info] /\ JobsInv
  BY DEF update_job_status, SchedulerInv, JobsInv
<1>2. info.status = s /\ info.node = n
  BY <1>1, IdentifierAssumption DEF Updated, JobInfo
<1> HIDE DEF info
<1> QED
  BY <1>1, <1>2, EntryBecomes

LEMMA StepMoves ==
  ASSUME SchedulerInv, SchedulerStep
  PROVE  JobsMove
<1>1. CASE UNCHANGED masterVars
  BY <1>1 DEF JobsMove, NoJobMoves, masterVars
<1>2. ASSUME NEW j \in JobIds, PlaceJob(j) PROVE JobsMove
  <2>1. /\ UNCHANGED issued /\ j \in DOMAIN jobs /\ jobs[j].node = NoNode
    BY <1>2 DEF PlaceJob, IsNext, SchedulerInv, PassInv, PassTyped
  <2>2. CASE LeaveQueued(j)
    BY <2>1, <2>2 DEF LeaveQueued, JobsMove, NoJobMoves
  <2>3. ASSUME NEW i \in DOMAIN online_nodes, Assign(j, i) PROVE JobsMove
    <3>1. online_nodes[i].id \in NodeIds
      BY CopyTyped DEF SchedulerInv, PassInv, PassTyped
    <3>2. Becomes(j, "ASSIGNED", online_nodes[i].id)
      BY <2>1, <2>3, <3>1, UpdateMoves DEF Assign
    <3> QED
      BY <2>1, <3>1, <3>2 DEF JobsMove, IsAssigned
  <2> QED
    BY <1>2, <2>2, <2>3 DEF PlaceJob
<1> QED
  BY <1>1, <1>2 DEF SchedulerStep, ReadPendingJobs, ReadNodes, FinishPass

(* The report of an agent that has the job.                                *)
LEMMA DeliverMoves ==
  ASSUME SchedulerInv, NEW report \in Report, Deliver(report), UNCHANGED schedVars,
         Placed(report.job, report.node), Cause(report.job, report.status)
  PROVE  JobsMove /\ SchedulerInv'
<1>1. /\ report.job \in JobIds /\ report.status \in Reports /\ report.node \in NodeIds
      /\ UNCHANGED <<nodes, issued, now>>
  BY DEF Report, Reports, Deliver
<1>2. CASE report.job \notin DOMAIN jobs
  <2>1. UNCHANGED masterVars
    BY <1>1, <1>2 DEF Deliver, update_job_status, masterVars
  <2> QED
    BY <2>1, MasterKeeps DEF JobsMove, NoJobMoves, masterVars
<1>3. CASE report.job \in DOMAIN jobs
  <2>1. jobs[report.job].node = report.node /\ report.node # NoNode
    BY <1>1, <1>3, IdentifierAssumption DEF Placed
  <2>2. Handlers
    BY <1>1, <1>3, <2>1 DEF Handlers, JobTableCall, Deliver, Reports
  <2>3. Becomes(report.job, report.status, report.node)
    BY <1>1, <1>3, <2>1, UpdateMoves DEF Deliver, Reports
  <2>4. IsReported(report.job, report.status)
    BY <2>1, <2>3 DEF IsReported
  <2> QED
    BY <1>1, <2>2, <2>4, MasterKeeps DEF JobsMove
<1> QED
  BY <1>2, <1>3

LEMMA RestartKeepsMaster ==
  ASSUME SchedulerInv, RestartMaster
  PROVE  SchedulerInv' /\ JobsMove
<1>1. /\ DOMAIN jobs' = {} /\ DOMAIN nodes' = {}
      /\ jobs' = [k \in {} |-> 0] /\ nodes' = [k \in {} |-> 0]
      /\ UNCHANGED <<issued, now>>
  BY DEF RestartMaster, EmptyTable
<1>2. JobsInv' /\ NodesInv'
  BY <1>1, FS_EmptySet DEF JobsInv, NodesInv, StampsAgree, OneIdPerMachine, OfflineMeansSilent
<1>3. PassInv'
  <2>1. <<>> \in Seq(Copied)
    OBVIOUS
  <2> QED
    BY <2>1 DEF RestartMaster, EndPass, PassInv, PassTyped
<1> QED
  BY <1>1, <1>2, <1>3 DEF SchedulerInv, ClockInv, JobsMove, AllLost

-----------------------------------------------------------------------------
(* The agents.                                                             *)

(* What has to be seen of a step: who has another node id now has nothing  *)
(* left from before, and what is new was given to its agent.               *)
LEMMA AgentsKeep ==
  ASSUME ClusterInv, JobsMove, RunsKept, ExecutorInv',
         agent' \in [Agents -> AgentState], late' \subseteq Report, deaths' \in 0..MaxDeaths,
         \A a \in Agents :
           \/ agent'[a].node_id = agent[a].node_id
           \/ \A r \in DOMAIN runs : runs[r].agent = a => runs'[r].thread = "gone",
         \A a \in Agents :
           agent'[a].fetched # NoJob =>
             /\ agent'[a].node_id # NoNode
             /\ Placed(agent'[a].fetched, agent'[a].node_id),
         \A r \in DOMAIN runs' \ DOMAIN runs :
           /\ agent'[runs'[r].agent].node_id # NoNode
           /\ Placed(runs'[r].job, agent'[runs'[r].agent].node_id),
         \A report \in late' :
           \/ report \in late
           \/ Placed(report.job, report.node) /\ Cause(report.job, report.status)
  PROVE  AgentInv' /\ StatusCaused'
<1>1. \A a \in Agents :
        /\ agent'[a].node_id \in NodeIds \cup {NoNode}
        /\ agent'[a].fetched \in JobIds \cup {NoJob}
  BY DEF AgentState
<1>2. ASSUME NEW a \in Agents, agent'[a].fetched # NoJob
      PROVE  Up(a)' /\ Placed(agent[a].fetched, agent[a].node_id)'
  <2>1. PICK j \in JobIds, n \in NodeIds : j = agent'[a].fetched /\ n = agent'[a].node_id
    BY <1>1, <1>2
  <2>2. Placed(j, n)'
    BY <1>2, <2>1, PlacedStays DEF ClusterInv
  <2> QED
    BY <1>2, <2>1, <2>2 DEF Up, Placed
<1>3. ASSUME NEW r \in DOMAIN runs', runs'[r].thread # "gone"
      PROVE  Up(runs[r].agent)' /\ Placed(runs[r].job, agent[runs[r].agent].node_id)'
  <2>1. PICK a \in Agents, j \in JobIds : a = runs'[r].agent /\ j = runs'[r].job
    BY DEF ExecutorInv, ExecutorTypeOK, Run
  <2>2. agent'[a].node_id # NoNode /\ Placed(j, agent'[a].node_id)
    <3>1. CASE r \notin DOMAIN runs
      BY <1>3, <2>1, <3>1
    <3>2. CASE r \in DOMAIN runs
      <4>1. runs[r].agent = a /\ runs[r].job = j /\ runs[r].thread # "gone"
        BY <1>3, <2>1, <3>2 DEF RunsKept
      <4>2. agent[a].node_id # NoNode /\ Placed(j, agent[a].node_id)
        BY <3>2, <4>1 DEF ClusterInv, AgentInv, Up
      <4> QED
        BY <1>3, <3>2, <4>1, <4>2
    <3> QED
      BY <3>1, <3>2
  <2>3. PICK n \in NodeIds : n = agent'[a].node_id
    BY <1>1, <2>2
  <2>4. Placed(j, n)'
    BY <2>2, <2>3, PlacedStays DEF ClusterInv
  <2> QED
    BY <2>1, <2>2, <2>3, <2>4 DEF Up, Placed
<1>4. ASSUME NEW report \in late'
      PROVE  Placed(report.job, report.node)' /\ Cause(report.job, report.status)'
  <2>1. Placed(report.job, report.node) /\ Cause(report.job, report.status)
    BY <1>4 DEF ClusterInv, AgentInv
  <2>2. report.job \in JobIds /\ report.node \in NodeIds
    BY <1>4 DEF Report
  <2> QED
    BY <2>1, <2>2, PlacedStays, CauseStays DEF ClusterInv
<1>5. StatusCaused'
  BY StatusStaysCaused DEF ClusterInv
<1> QED
  BY <1>2, <1>3, <1>4, <1>5 DEF AgentInv

(* The usual case: nobody's node id or runs change.                        *)
LEMMA AgentsStay ==
  ASSUME ClusterInv, JobsMove, RunsKept, ExecutorInv', DOMAIN runs' = DOMAIN runs,
         agent' \in [Agents -> AgentState], UNCHANGED deaths, late' \subseteq Report,
         \A a \in Agents :
           /\ agent'[a].node_id = agent[a].node_id
           /\ \/ agent'[a].fetched \in {NoJob, agent[a].fetched}
              \/ agent[a].node_id # NoNode /\ Placed(agent'[a].fetched, agent[a].node_id),
         \A report \in late' :
           \/ report \in late
           \/ Placed(report.job, report.node) /\ Cause(report.job, report.status)
  PROVE  AgentInv' /\ StatusCaused'
<1>1. \A a \in Agents :
        agent'[a].fetched # NoJob =>
          agent'[a].node_id # NoNode /\ Placed(agent'[a].fetched, agent'[a].node_id)
  BY DEF ClusterInv, AgentInv, Up
<1>2. deaths' \in 0..MaxDeaths
  BY DEF ClusterInv, AgentInv
<1> QED
  BY <1>1, <1>2, AgentsKeep

LEMMA AgentsIdle ==
  ASSUME ClusterInv, JobsMove, UNCHANGED executorVars, UNCHANGED agentVars, SchedulerInv'
  PROVE  ClusterInv'
<1>1. RunsKept /\ ExecutorInv' /\ DOMAIN runs' = DOMAIN runs
  BY ExecutorNextKeepsInv DEF executorVars, RunsKept, Started, Ended, NotLaunched, ClusterInv
<1>2. AgentInv' /\ StatusCaused'
  BY <1>1, AgentsStay DEF agentVars, ClusterInv, AgentInv
<1> QED
  BY <1>1, <1>2 DEF ClusterInv

(* A report that a thread has under way.                                   *)
LEMMA ReportFacts ==
  ASSUME ClusterInv, NEW r \in DOMAIN runs, NEW status,
         \/ runs[r].thread = "registered" /\ status = "RUNNING"
         \/ runs[r].thread = "erased" /\ status = "COMPLETED"
         \/ runs[r].thread = "failed" /\ status = "FAILED"
  PROVE  LET report == ReportOf(r, status)
         IN  /\ report \in Report
             /\ Placed(report.job, report.node) /\ Cause(report.job, report.status)
<1>1. /\ runs[r].job \in JobIds /\ runs[r].agent \in Agents
      /\ runs[r].thread # "gone"
  BY DEF ClusterInv, ExecutorInv, ExecutorTypeOK, Run
<1>2. /\ agent[runs[r].agent].node_id \in NodeIds
      /\ Placed(runs[r].job, agent[runs[r].agent].node_id)
  BY <1>1 DEF ClusterInv, AgentInv, AgentState, Up
<1>3. Cause(runs[r].job, status)
  BY <1>1 DEF ClusterInv, ExecutorInv, ProcessFits, Cause, Started, Ended, NotLaunched
<1> QED
  BY <1>1, <1>2, <1>3 DEF ReportOf, Report

-----------------------------------------------------------------------------
(* The actions.                                                            *)

(* A step of the executors during which agents and master stand still.     *)
LEMMA RunStepKeeps ==
  ASSUME ClusterInv, RunsKept, ExecutorInv', DOMAIN runs' = DOMAIN runs,
         UNCHANGED masterVars, UNCHANGED schedVars, UNCHANGED agentVars
  PROVE  ClusterInv'
<1>1. JobsMove /\ SchedulerInv'
  BY MasterKeeps DEF JobsMove, NoJobMoves, masterVars, ClusterInv
<1>2. AgentInv' /\ StatusCaused'
  BY <1>1, AgentsStay DEF agentVars, ClusterInv, AgentInv
<1> QED
  BY <1>1, <1>2 DEF ClusterInv

LEMMA ThreadKeeps ==
  ASSUME ClusterInv, NEW r \in Runs, RunThread(r)
  PROVE  ClusterInv'
<1>1. ThreadStep(r)
  BY DEF RunThread, LocalStep, ReportJobStarted, ReportJobCompleted, ReportJobFailed, ThreadStep
<1>2. RunsKept /\ ThreadMoves(r) /\ DOMAIN runs' = DOMAIN runs
  BY <1>1, ThreadKeepsRuns DEF ClusterInv, ThreadMoves, Moved
<1>3. ExecutorInv'
  BY <1>1, ExecutorNextKeepsInv DEF ExecutorNext, ClusterInv
<1>4. CASE LocalStep(r)
  BY <1>2, <1>3, <1>4, RunStepKeeps DEF LocalStep
<1>5. ASSUME NEW status, Call(r, status),
             \/ runs[r].thread = "registered" /\ status = "RUNNING"
             \/ runs[r].thread = "erased" /\ status = "COMPLETED"
             \/ runs[r].thread = "failed" /\ status = "FAILED"
      PROVE  ClusterInv'
  <2>1. r \in DOMAIN runs
    BY <1>2 DEF ThreadMoves
  <2>2. PICK report : report = ReportOf(r, status)
    OBVIOUS
  <2>3. /\ report \in Report
        /\ Placed(report.job, report.node) /\ Cause(report.job, report.status)
    BY <1>5, <2>1, <2>2, ReportFacts
  <2>4. JobsMove /\ SchedulerInv'
    <3>1. CASE Deliver(report)
      BY <1>5, <2>3, <3>1, DeliverMoves DEF Call, ClusterInv
    <3>2. CASE UNCHANGED masterVars
      BY <1>5, <3>2, MasterKeeps DEF Call, JobsMove, NoJobMoves, masterVars, ClusterInv
    <3> QED
      BY <1>5, <2>2, <3>1, <3>2 DEF Call
  <2>5. UNCHANGED <<agent, deaths>> /\ late' \subseteq late \cup {report}
    BY <1>5, <2>2 DEF Call
  <2>6. AgentInv' /\ StatusCaused'
    BY <1>2, <1>3, <2>3, <2>4, <2>5, AgentsStay DEF ClusterInv, AgentInv
  <2> QED
    BY <1>3, <2>4, <2>6 DEF ClusterInv
<1>6. CASE ReportJobStarted(r)
  BY <1>5, <1>6 DEF ReportJobStarted, OnStarted, Advance, ThreadAt
<1>7. CASE ReportJobCompleted(r)
  BY <1>5, <1>7 DEF ReportJobCompleted, OnCompleted, Advance, ThreadAt
<1>8. CASE ReportJobFailed(r)
  BY <1>5, <1>8 DEF ReportJobFailed, OnFailed, Advance, ThreadAt
<1> QED
  BY <1>4, <1>6, <1>7, <1>8 DEF RunThread

LEMMA ExitKeeps ==
  ASSUME ClusterInv, NEW r \in Runs, ProcessExits(r)
  PROVE  ClusterInv'
<1>1. RunsKept /\ ProcessMoves
  BY ProcessKeepsRuns DEF ProcessExits, Exit, Alive, ClusterInv
<1>2. ExecutorInv'
  BY ExecutorNextKeepsInv DEF ProcessExits, ExecutorNext, ClusterInv
<1> QED
  BY <1>1, <1>2, RunStepKeeps DEF ProcessExits, ProcessMoves

(* FetchJob and the two halves of a heartbeat.                             *)
LEMMA LoopKeeps ==
  ASSUME ClusterInv, NEW a \in Agents, FetchJob(a) \/ SendHeartbeat(a) \/ AnswerHeartbeat(a)
  PROVE  ClusterInv'
<1>1. UNCHANGED executorVars /\ UNCHANGED schedVars /\ UNCHANGED <<late, deaths>>
  BY DEF FetchJob, SendHeartbeat, AnswerHeartbeat
<1>2. RunsKept /\ ExecutorInv' /\ DOMAIN runs' = DOMAIN runs
  BY <1>1, ExecutorNextKeepsInv
     DEF executorVars, RunsKept, Started, Ended, NotLaunched, ClusterInv
<1>3. /\ agent \in [Agents -> AgentState] /\ agent[a].node_id \in NodeIds \cup {NoNode}
      /\ late \subseteq Report
  BY DEF ClusterInv, AgentInv, AgentState
<1>4. CASE FetchJob(a)
  <2>1. PICK j \in Offered(a) : agent' = [agent EXCEPT ![a].fetched = j]
    BY <1>4 DEF FetchJob
  <2>2. /\ j \in JobIds /\ Placed(j, agent[a].node_id) /\ agent[a].node_id # NoNode
    BY <1>4, <2>1 DEF Offered, list_jobs, Placed, FetchJob, Up, ClusterInv, SchedulerInv, JobsInv
  <2>3. /\ agent' \in [Agents -> AgentState]
        /\ agent'[a].fetched = j /\ agent'[a].node_id = agent[a].node_id
        /\ \A b \in Agents : b # a => agent'[b] = agent[b]
    BY <1>3, <2>1, <2>2 DEF AgentState
  <2>4. JobsMove /\ SchedulerInv'
    BY <1>1, <1>4, MasterKeeps DEF FetchJob, JobsMove, NoJobMoves, masterVars, ClusterInv
  <2>5. AgentInv' /\ StatusCaused'
    BY <1>1, <1>2, <1>3, <2>2, <2>3, <2>4, AgentsStay
  <2> QED
    BY <1>2, <2>4, <2>5 DEF ClusterInv
<1>5. CASE SendHeartbeat(a)
  <2>1. UNCHANGED <<jobs, issued, now>> /\ agent[a].node_id \in NodeIds
    BY <1>3, <1>5 DEF SendHeartbeat, Up
  <2>2. Handlers
    BY <1>5, <2>1, ClusterAssumption DEF SendHeartbeat, Handlers, NodeTableCall
  <2>3. JobsMove /\ SchedulerInv'
    BY <1>1, <2>1, <2>2, MasterKeeps DEF JobsMove, NoJobMoves, ClusterInv
  <2>4. /\ agent' \in [Agents -> AgentState]
        /\ \A b \in Agents :
             agent'[b].fetched = agent[b].fetched /\ agent'[b].node_id = agent[b].node_id
    <3>1. Acknowledged(agent[a].node_id) \in BOOLEAN
      BY DEF Acknowledged
    <3>2. PICK known \in BOOLEAN : agent' = [agent EXCEPT ![a].acknowledged = known]
      BY <1>5, <3>1, Zenon DEF SendHeartbeat
    <3> QED
      BY <1>3, <3>2 DEF AgentState
  <2>5. AgentInv' /\ StatusCaused'
    BY <1>1, <1>2, <1>3, <2>3, <2>4, AgentsStay
  <2> QED
    BY <1>2, <2>3, <2>5 DEF ClusterInv
<1>6. CASE AnswerHeartbeat(a)
  <2>1. PICK answer \in HeartbeatResults(a) :
          agent' = [agent EXCEPT ![a].acknowledged = FALSE, ![a].to_cancel = answer]
    BY <1>6 DEF AnswerHeartbeat
  <2>2. answer \subseteq JobIds
    BY DEF HeartbeatResults, get_jobs_to_cancel_for_node, list_jobs, ClusterInv, SchedulerInv,
       JobsInv
  <2>3. /\ agent' \in [Agents -> AgentState]
        /\ \A b \in Agents :
             agent'[b].fetched = agent[b].fetched /\ agent'[b].node_id = agent[b].node_id
    BY <1>3, <2>1, <2>2 DEF AgentState
  <2>4. JobsMove /\ SchedulerInv'
    BY <1>1, <1>6, MasterKeeps DEF AnswerHeartbeat, JobsMove, NoJobMoves, masterVars, ClusterInv
  <2>5. AgentInv' /\ StatusCaused'
    BY <1>1, <1>2, <1>3, <2>3, <2>4, AgentsStay
  <2> QED
    BY <1>2, <2>4, <2>5 DEF ClusterInv
<1> QED
  BY <1>4, <1>5, <1>6

(* The steps of an agent that move runs or change its node id.             *)
LEMMA ExecuteKeeps ==
  ASSUME ClusterInv, NEW a \in Agents, ExecuteFetched(a)
  PROVE  ClusterInv'
<1>1. PICK j \in JobIds : j = agent[a].fetched /\ execute_async(a, j)
  BY DEF ExecuteFetched, ClusterInv, AgentInv, AgentState
<1>2. RunsKept /\ (UNCHANGED runs \/ RunStarts(a, j)) /\ ExecutorInv'
  BY <1>1, ExecuteKeepsRuns, ExecutorNextKeepsInv DEF ExecutorNext, ClusterInv
<1>3. JobsMove /\ SchedulerInv'
  BY MasterKeeps DEF ExecuteFetched, JobsMove, NoJobMoves, masterVars, ClusterInv
<1>4. /\ agent \in [Agents -> AgentState]
      /\ agent[a].node_id # NoNode /\ Placed(j, agent[a].node_id)
  BY <1>1 DEF ExecuteFetched, ClusterInv, AgentInv, Up
<1>5. /\ agent' \in [Agents -> AgentState]
      /\ \A b \in Agents :
           /\ agent'[b].node_id = agent[b].node_id
           /\ agent'[b].fetched \in {NoJob, agent[b].fetched}
  BY <1>4 DEF ExecuteFetched, AgentState
<1>6. \A r \in DOMAIN runs' \ DOMAIN runs :
        /\ agent'[runs'[r].agent].node_id # NoNode
        /\ Placed(runs'[r].job, agent'[runs'[r].agent].node_id)
  <2>1. CASE UNCHANGED runs
    BY <2>1
  <2>2. CASE RunStarts(a, j)
    <3>1. \A r \in DOMAIN runs' \ DOMAIN runs : runs'[r].agent = a /\ runs'[r].job = j
      BY <2>2 DEF RunStarts
    <3>2. agent'[a].node_id = agent[a].node_id
      BY <1>5
    <3> QED
      BY <1>4, <3>1, <3>2
  <2> QED
    BY <1>2, <2>1, <2>2
<1>7. \A b \in Agents :
        agent'[b].fetched # NoJob =>
          agent'[b].node_id # NoNode /\ Placed(agent'[b].fetched, agent'[b].node_id)
  BY <1>5 DEF ClusterInv, AgentInv, Up
<1>8. UNCHANGED <<late, deaths>> /\ late' \subseteq Report /\ deaths' \in 0..MaxDeaths
  BY DEF ExecuteFetched, ClusterInv, AgentInv
<1>9. AgentInv' /\ StatusCaused'
  BY <1>2, <1>3, <1>5, <1>6, <1>7, <1>8, AgentsKeep
<1> QED
  BY <1>2, <1>3, <1>9 DEF ClusterInv

LEMMA KillCancelledKeeps ==
  ASSUME ClusterInv, NEW a \in Agents, NEW j \in JobIds, KillCancelled(a, j)
  PROVE  ClusterInv'
<1>1. RunsKept /\ DOMAIN runs' = DOMAIN runs /\ ExecutorInv'
  BY CancelKeepsRuns, ExecutorNextKeepsInv
     DEF KillCancelled, ExecutorNext, ProcessMoves, ClusterInv
<1>2. JobsMove /\ SchedulerInv'
  BY MasterKeeps DEF KillCancelled, JobsMove, NoJobMoves, masterVars, ClusterInv
<1>3. agent \in [Agents -> AgentState] /\ late \subseteq Report /\ UNCHANGED <<late, deaths>>
  BY DEF KillCancelled, ClusterInv, AgentInv
<1>4. /\ agent' \in [Agents -> AgentState]
      /\ \A b \in Agents :
           agent'[b].fetched = agent[b].fetched /\ agent'[b].node_id = agent[b].node_id
  BY <1>3 DEF KillCancelled, AgentState
<1>5. AgentInv' /\ StatusCaused'
  BY <1>1, <1>2, <1>3, <1>4, AgentsStay
<1> QED
  BY <1>1, <1>2, <1>5 DEF ClusterInv

(* An agent that starts has no runs and no answer.                         *)
LEMMA StartKeeps ==
  ASSUME ClusterInv, NEW a \in Agents, StartAgent(a)
  PROVE  ClusterInv'
<1>1. PICK n \in NodeIds : RegisterNode(a, n) /\ Registered(a, n)
  BY DEF StartAgent
<1>2. UNCHANGED <<jobs, now, late, deaths>> /\ UNCHANGED schedVars /\ UNCHANGED executorVars
  BY DEF StartAgent
<1>3. JobsMove /\ SchedulerInv'
  <2>1. HostOf[a] \in Hosts /\ Announced[a] \in Resources
    BY ClusterAssumption
  <2>2. Handlers
    BY <1>1, <1>2, <2>1 DEF RegisterNode, Handlers, NodeTableCall
  <2>3. issued \subseteq issued' /\ issued' \subseteq issued \cup NodeIds
    BY <1>1 DEF RegisterNode, register_node, Fresh
  <2> QED
    BY <1>2, <2>2, <2>3, MasterKeeps DEF JobsMove, NoJobMoves, ClusterInv
<1>4. RunsKept /\ ExecutorInv' /\ DOMAIN runs' = DOMAIN runs
  BY <1>2, ExecutorNextKeepsInv
     DEF executorVars, RunsKept, Started, Ended, NotLaunched, ClusterInv
<1>5. /\ agent \in [Agents -> AgentState] /\ agent[a].node_id = NoNode
      /\ agent[a].fetched = NoJob
      /\ late' \subseteq Report /\ deaths' \in 0..MaxDeaths
  BY <1>2 DEF StartAgent, Up, ClusterInv, AgentInv
<1>6. /\ agent' \in [Agents -> AgentState]
      /\ agent'[a].fetched = NoJob
      /\ \A b \in Agents : b # a => agent'[b] = agent[b]
  BY <1>1, <1>5 DEF Registered, AgentState
<1>7. \A r \in DOMAIN runs : runs[r].agent = a => runs'[r].thread = "gone"
  BY <1>4, <1>5 DEF RunsKept, ClusterInv, AgentInv, Up
<1>8. \A b \in Agents :
        agent'[b].fetched # NoJob =>
          agent'[b].node_id # NoNode /\ Placed(agent'[b].fetched, agent'[b].node_id)
  BY <1>6 DEF ClusterInv, AgentInv, Up
<1>9. AgentInv' /\ StatusCaused'
  BY <1>2, <1>3, <1>4, <1>5, <1>6, <1>7, <1>8, AgentsKeep
<1> QED
  BY <1>3, <1>4, <1>9 DEF ClusterInv

(* Of an agent that dies only reports on their way are left.               *)
LEMMA KillKeeps ==
  ASSUME ClusterInv, NEW a \in Agents, KillAgent(a)
  PROVE  ClusterInv'
<1>1. /\ RunsKept /\ DOMAIN runs' = DOMAIN runs /\ ExecutorInv'
      /\ \A r \in DOMAIN runs : runs[r].agent = a => runs'[r].thread = "gone"
  BY DeathKeepsRuns, ExecutorNextKeepsInv DEF KillAgent, ExecutorNext, ClusterInv
<1>2. JobsMove /\ SchedulerInv'
  BY MasterKeeps DEF KillAgent, JobsMove, NoJobMoves, masterVars, ClusterInv
<1>3. /\ Down \in AgentState /\ Down.fetched = NoJob
      /\ agent \in [Agents -> AgentState] /\ late \subseteq Report
  BY DEF Down, AgentState, ClusterInv, AgentInv
<1>4. /\ agent' \in [Agents -> AgentState] /\ agent'[a].fetched = NoJob
      /\ \A b \in Agents : b # a => agent'[b] = agent[b]
  BY <1>3 DEF KillAgent
<1>5. \A report \in Calls(a) :
        report \in Report /\ Placed(report.job, report.node) /\ Cause(report.job, report.status)
  BY ReportFacts DEF Calls
<1>6. late' \subseteq Report /\ \A report \in late' : report \in late \/ report \in Calls(a)
  BY <1>3, <1>5 DEF KillAgent
<1>7. deaths' \in 0..MaxDeaths
  BY ClusterAssumption DEF KillAgent, ClusterInv, AgentInv
<1>8. \A b \in Agents :
        agent'[b].fetched # NoJob =>
          agent'[b].node_id # NoNode /\ Placed(agent'[b].fetched, agent'[b].node_id)
  BY <1>4 DEF ClusterInv, AgentInv, Up
<1>9. AgentInv' /\ StatusCaused'
  BY <1>1, <1>2, <1>4, <1>5, <1>6, <1>7, <1>8, AgentsKeep
<1> QED
  BY <1>1, <1>2, <1>9 DEF ClusterInv

LEMMA LateKeeps ==
  ASSUME ClusterInv, NEW report \in late, LateReport(report)
  PROVE  ClusterInv'
<1>1. /\ report \in Report /\ Deliver(report) /\ UNCHANGED schedVars
      /\ UNCHANGED executorVars /\ UNCHANGED <<agent, deaths>> /\ late' \subseteq late
      /\ Placed(report.job, report.node) /\ Cause(report.job, report.status)
  BY DEF LateReport, ClusterInv, AgentInv
<1>2. JobsMove /\ SchedulerInv'
  BY <1>1, DeliverMoves DEF ClusterInv
<1>3. RunsKept /\ ExecutorInv' /\ DOMAIN runs' = DOMAIN runs
  BY <1>1, ExecutorNextKeepsInv
     DEF executorVars, RunsKept, Started, Ended, NotLaunched, ClusterInv
<1>4. AgentInv' /\ StatusCaused'
  BY <1>1, <1>2, <1>3, AgentsStay DEF ClusterInv, AgentInv
<1> QED
  BY <1>2, <1>3, <1>4 DEF ClusterInv

LEMMA RestartKeeps ==
  ASSUME ClusterInv, RestartMaster
  PROVE  ClusterInv'
<1>1. SchedulerInv' /\ JobsMove
  BY RestartKeepsMaster DEF ClusterInv
<1>2. UNCHANGED executorVars /\ UNCHANGED late /\ deaths' \in 0..MaxDeaths
  BY ClusterAssumption DEF RestartMaster, ClusterInv, AgentInv
<1>3. RunsKept /\ ExecutorInv' /\ DOMAIN runs' = DOMAIN runs
  BY <1>2, ExecutorNextKeepsInv
     DEF executorVars, RunsKept, Started, Ended, NotLaunched, ClusterInv
<1>4. agent \in [Agents -> AgentState] /\ late' \subseteq Report
  BY <1>2 DEF ClusterInv, AgentInv
<1>5. /\ agent' \in [Agents -> AgentState]
      /\ \A b \in Agents :
           agent'[b].fetched = agent[b].fetched /\ agent'[b].node_id = agent[b].node_id
  BY <1>4 DEF RestartMaster, AgentState
<1>6. \A b \in Agents :
        agent'[b].fetched # NoJob =>
          agent'[b].node_id # NoNode /\ Placed(agent'[b].fetched, agent'[b].node_id)
  BY <1>5 DEF ClusterInv, AgentInv, Up
<1>7. AgentInv' /\ StatusCaused'
  BY <1>1, <1>2, <1>3, <1>4, <1>5, <1>6, AgentsKeep
<1> QED
  BY <1>1, <1>3, <1>7 DEF ClusterInv

(* Users, the scheduler and the clock.                                     *)
LEMMA MasterStepKeeps ==
  ASSUME ClusterInv, UNCHANGED executorVars, UNCHANGED agentVars,
         \/ \E j \in JobIds : CancelJob(j) \/ \E spec \in Specs : SubmitJob(j, spec)
         \/ SchedulerStep
         \/ Tick /\ UNCHANGED <<jobs, nodes, issued>> /\ UNCHANGED schedVars
         \/ UNCHANGED masterVars /\ UNCHANGED schedVars
  PROVE  ClusterInv' /\ JobsMove
<1>1. CASE \E j \in JobIds : CancelJob(j)
  <2>1. Handlers /\ UNCHANGED schedVars
    BY <1>1 DEF CancelJob, Handlers, JobTableCall
  <2> QED
    BY <1>1, <2>1, MasterKeeps, CancelMoves, AgentsIdle DEF CancelJob, ClusterInv
<1>2. CASE \E j \in JobIds, spec \in Specs : SubmitJob(j, spec)
  <2>1. Handlers /\ UNCHANGED schedVars
    BY <1>2 DEF SubmitJob, Handlers, JobTableCall
  <2> QED
    BY <1>2, <2>1, MasterKeeps, SubmitMoves, AgentsIdle DEF SubmitJob, ClusterInv
<1>3. CASE SchedulerStep
  BY <1>3, MasterKeeps, StepMoves, AgentsIdle DEF ClusterInv
<1>4. CASE \/ Tick /\ UNCHANGED <<jobs, nodes, issued>> /\ UNCHANGED schedVars
           \/ UNCHANGED masterVars /\ UNCHANGED schedVars
  <2>1. SchedulerInv'
    BY <1>4, MasterKeeps DEF Handlers, ClusterInv
  <2>2. JobsMove
    BY <1>4 DEF JobsMove, NoJobMoves, masterVars
  <2> QED
    BY <2>1, <2>2, AgentsIdle
<1> QED
  BY <1>1, <1>2, <1>3, <1>4

LEMMA ClusterInitInv == ClusterInit => ClusterInv
<1> SUFFICES ASSUME ClusterInit PROVE ClusterInv
  OBVIOUS
<1>1. SchedulerInv /\ ExecutorInv
  BY InitSchedulerInv, InitInv DEF ClusterInit
<1>2. DOMAIN jobs = {} /\ DOMAIN runs = {}
  BY DEF ClusterInit, SchedulerInitAll, JobManagerInit, ExecutorInit, EmptyTable
<1>3. Down \in AgentState /\ Down.fetched = NoJob
  BY DEF Down, AgentState
<1>4. AgentInv
  BY <1>2, <1>3, ClusterAssumption DEF ClusterInit, AgentInv
<1> QED
  BY <1>1, <1>2, <1>4 DEF ClusterInv, StatusCaused

LEMMA ClusterNextKeepsInv ==
  ASSUME ClusterInv, [ClusterNext]_clusterVars
  PROVE  ClusterInv'
<1>1. CASE UNCHANGED clusterVars
  BY <1>1, MasterStepKeeps DEF clusterVars
<1>2. CASE \E j \in JobIds : CancelJob(j) \/ \E spec \in Specs : SubmitJob(j, spec)
  BY <1>2, MasterStepKeeps DEF CancelJob, SubmitJob
<1>3. CASE \/ SchedulerStep /\ UNCHANGED <<executorVars, agentVars>>
           \/ Tick /\ UNCHANGED <<jobs, nodes, issued, schedVars, executorVars, agentVars>>
  BY <1>3, MasterStepKeeps
<1>4. CASE \E a \in Agents : AgentStep(a) \/ KillAgent(a)
  BY <1>4, StartKeeps, LoopKeeps, ExecuteKeeps, KillCancelledKeeps, KillKeeps DEF AgentStep
<1>5. CASE \E r \in Runs : RunThread(r) \/ ProcessExits(r)
  BY <1>5, ThreadKeeps, ExitKeeps
<1>6. CASE (\E report \in late : LateReport(report)) \/ RestartMaster
  BY <1>6, LateKeeps, RestartKeeps
<1> QED
  BY <1>1, <1>2, <1>3, <1>4, <1>5, <1>6 DEF ClusterNext

(* ClusterInv is an invariant of the cluster.                              *)
THEOREM ClusterInvariant == ClusterSpec => []ClusterInv
BY ClusterInitInv, ClusterNextKeepsInv, PTL DEF ClusterSpec

(* Master, agents and executors keep their types together, through every   *)
(* loss and death.                                                         *)
THEOREM ClusterTyped == ClusterSpec => []ClusterTypeOK
<1>1. SchedulerInv => SchedulerTypeOK
  BY DEF SchedulerInv, ClockInv, JobsInv, NodesInv, PassInv, PassTyped, Copied, SchedulerTypeOK
<1>2. ClusterInv => ClusterTypeOK
  BY <1>1 DEF ClusterInv, ExecutorInv, AgentInv, ClusterTypeOK
<1> QED
  BY <1>2, ClusterInvariant, PTL

(* agent_daemon.cpp executes what FetchJob offered it, and that was given  *)
(* to the node it is.                                                      *)
THEOREM JobsRunWhereAssigned == ClusterSpec => []RunsWhereAssigned
<1>1. ClusterInv => RunsWhereAssigned
  BY DEF ClusterInv, AgentInv, RunsWhereAssigned, Placed, ThreadAt
<1> QED
  BY <1>1, ClusterInvariant, PTL

(* No status of the job table is made up.                                  *)
THEOREM StatusesHaveCauses == ClusterSpec => []StatusHasCause
<1>1. ASSUME ClusterInv, NEW j \in DOMAIN jobs, jobs[j].status \in Reports
      PROVE  Cause(j, jobs[j].status)
  BY <1>1 DEF ClusterInv, StatusCaused
<1>2. ClusterInv => StatusHasCause
  BY <1>1 DEF StatusHasCause, Reports, Cause, Started, Ended, NotLaunched
<1> QED
  BY <1>2, ClusterInvariant, PTL

-----------------------------------------------------------------------------
(* What a step does to the jobs, seen by a user.                           *)
LEMMA ClusterStepMoves ==
  ASSUME ClusterInv, [ClusterNext]_clusterVars
  PROVE  JobsMove
<1>1. CASE UNCHANGED <<jobs, issued>>
  BY <1>1 DEF JobsMove, NoJobMoves
<1>2. CASE \/ \E j \in JobIds : CancelJob(j) \/ \E spec \in Specs : SubmitJob(j, spec)
           \/ SchedulerStep /\ UNCHANGED <<executorVars, agentVars>>
  BY <1>2, MasterStepKeeps DEF CancelJob, SubmitJob
<1>3. CASE \E a \in Agents : StartAgent(a)
  BY <1>3 DEF StartAgent, RegisterNode, register_node, Fresh, JobsMove, NoJobMoves
<1>4. ASSUME NEW r \in Runs, RunThread(r) PROVE JobsMove
  <2>1. r \in DOMAIN runs
    BY <1>4, ThreadKeepsRuns DEF RunThread, LocalStep, ReportJobStarted, ReportJobCompleted,
       ReportJobFailed, ThreadStep, ThreadMoves, ClusterInv
  <2>2. ASSUME NEW status, Call(r, status),
               \/ runs[r].thread = "registered" /\ status = "RUNNING"
               \/ runs[r].thread = "erased" /\ status = "COMPLETED"
               \/ runs[r].thread = "failed" /\ status = "FAILED"
        PROVE  JobsMove
    <3>1. PICK report : report = ReportOf(r, status)
      OBVIOUS
    <3>2. /\ report \in Report
          /\ Placed(report.job, report.node) /\ Cause(report.job, report.status)
      BY <2>1, <2>2, <3>1, ReportFacts
    <3>3. CASE Deliver(report)
      BY <2>2, <3>2, <3>3, DeliverMoves DEF Call, ClusterInv
    <3> QED
      BY <1>1, <2>2, <3>1, <3>3 DEF Call, masterVars
  <2> QED
    BY <1>1, <1>4, <2>2 DEF RunThread, LocalStep, ReportJobStarted, ReportJobCompleted,
       ReportJobFailed, OnStarted, OnCompleted, OnFailed, Advance, ThreadAt, masterVars
<1>5. ASSUME NEW report \in late, LateReport(report) PROVE JobsMove
  BY <1>5, DeliverMoves DEF LateReport, ClusterInv, AgentInv
<1>6. CASE RestartMaster
  BY <1>6, RestartKeepsMaster DEF ClusterInv
<1> QED
  BY <1>1, <1>2, <1>3, <1>4, <1>5, <1>6
     DEF ClusterNext, clusterVars, masterVars, AgentStep, FetchJob, ExecuteFetched,
         SendHeartbeat, AnswerHeartbeat, KillCancelled, KillAgent, ProcessExits

status == [j \in JobIds |-> StatusSeen(j)]

node == [j \in JobIds |-> NodeSeen(j)]

(* Only j is seen to move.                                                 *)
OnlyJobSeen(j, to, n) ==
  /\ status' = [status EXCEPT ![j] = to]
  /\ node' = [node EXCEPT ![j] = n]

LEMMA SeenBecomes ==
  ASSUME SchedulerInv, NEW j \in JobIds, NEW to, NEW n, Becomes(j, to, n)
  PROVE  /\ OnlyJobSeen(j, to, n)
         /\ status[j] = jobs[j].status /\ node[j] = jobs[j].node
BY DEF OnlyJobSeen, Becomes, OthersStay, status, node, StatusSeen, NodeSeen

LEMMA MovesFollowLifecycle ==
  ASSUME SchedulerInv, JobsMove
  PROVE  [Lifecycle!Next]_(Lifecycle!lifecycleVars)
<1> USE DEF Lifecycle!Next, Lifecycle!lifecycleVars
<1>1. /\ jobs \in [DOMAIN jobs -> JobInfo] /\ DOMAIN jobs \subseteq issued
      /\ DOMAIN jobs \subseteq JobIds
      /\ \A j \in DOMAIN jobs :
           /\ jobs[j].node = NoNode => jobs[j].status \in {"QUEUED", "CANCELLED"}
           /\ jobs[j].status = "QUEUED" => jobs[j].node = NoNode
  BY DEF SchedulerInv, JobsInv, StampsAgree
<1>2. CASE NoJobMoves
  <2>1. \A j \in JobIds : j \in issued' <=> j \in issued
    BY <1>2, IdentifierAssumption DEF NoJobMoves
  <2>2. status' = status /\ node' = node
    BY <1>2, <2>1 DEF NoJobMoves, status, node, StatusSeen, NodeSeen
  <2> QED
    BY <2>2 DEF status, node
<1>3. CASE AllLost
  <2>1. \A j \in JobIds : StatusSeen(j)' = IF StatusSeen(j) = "NONE" THEN "NONE" ELSE "GONE"
    BY <1>1, <1>3 DEF AllLost, StatusSeen, JobInfo, JobStatus, Terminal
  <2>2. \A j \in JobIds : NodeSeen(j)' = NoNode
    BY <1>3 DEF AllLost, NodeSeen
  <2>3. Lifecycle!LoseAll
    BY <2>1, <2>2 DEF Lifecycle!LoseAll
  <2> QED
    BY <2>3
<1>4. ASSUME NEW j \in JobIds, IsSubmitted(j) PROVE Lifecycle!Next
  <2>1. /\ status[j] = "NONE" /\ status' = [status EXCEPT ![j] = "QUEUED"]
        /\ node' = node
    BY <1>1, <1>4 DEF IsSubmitted, OthersStay, status, node, StatusSeen, NodeSeen
  <2>2. Lifecycle!Submit(j)
    BY <2>1 DEF Lifecycle!Submit, Lifecycle!Move, status, node
  <2> QED
    BY <2>2
<1>5. ASSUME NEW j \in JobIds, IsCancelled(j) PROVE Lifecycle!Next
  <2>1. /\ OnlyJobSeen(j, "CANCELLED", jobs[j].node)
        /\ status[j] = jobs[j].status /\ node[j] = jobs[j].node
    BY <1>5, SeenBecomes DEF IsCancelled
  <2>2. jobs[j].status \in {"QUEUED", "ASSIGNED", "RUNNING"}
    BY <1>1, <1>5 DEF IsCancelled, Becomes, JobInfo, JobStatus
  <2>3. node' = node
    BY <2>1 DEF OnlyJobSeen, node
  <2>4. Lifecycle!Cancel(j)
    BY <2>1, <2>2, <2>3 DEF OnlyJobSeen, Lifecycle!Cancel, Lifecycle!Move, status, node
  <2> QED
    BY <2>4
<1>6. ASSUME NEW j \in JobIds, IsAssigned(j) PROVE Lifecycle!Next
  <2>1. PICK n \in NodeIds : Becomes(j, "ASSIGNED", n)
    BY <1>6 DEF IsAssigned
  <2>2. /\ OnlyJobSeen(j, "ASSIGNED", n)
        /\ status[j] = jobs[j].status /\ node[j] = NoNode
    BY <1>6, <2>1, SeenBecomes DEF IsAssigned
  <2>3. jobs[j].status \in {"QUEUED", "CANCELLED"}
    BY <1>1, <1>6, <2>1 DEF IsAssigned, Becomes
  <2>4. Lifecycle!Assign(j)
    BY <2>2, <2>3 DEF OnlyJobSeen, Lifecycle!Assign, Lifecycle!Move, status, node
  <2> QED
    BY <2>4
<1>7. ASSUME NEW j \in JobIds, NEW to \in Reports, IsReported(j, to) PROVE Lifecycle!Next
  <2>1. /\ OnlyJobSeen(j, to, jobs[j].node)
        /\ status[j] = jobs[j].status /\ node[j] = jobs[j].node
    BY <1>7, SeenBecomes DEF IsReported
  <2>2. /\ jobs[j].status \in {"ASSIGNED", "RUNNING", "COMPLETED", "FAILED", "CANCELLED"}
        /\ node[j] # NoNode
    BY <1>1, <1>7, <2>1 DEF IsReported, Becomes, JobInfo, JobStatus, Terminal
  <2>3. node' = node
    BY <2>1 DEF OnlyJobSeen, node
  <2>4. Lifecycle!NodeReports(j)
    BY <2>1, <2>2, <2>3
       DEF OnlyJobSeen, Lifecycle!NodeReports, Lifecycle!Move, Reports, status, node
  <2> QED
    BY <2>4
<1> QED
  BY <1>2, <1>3, <1>4, <1>5, <1>6, <1>7 DEF JobsMove

(* What GetJobStatus and the list of jobs show follows JobLifecycle.       *)
THEOREM UsersSeeTheLifecycle == ClusterSpec => FollowsLifecycle
<1>1. ClusterInit => Lifecycle!Init
  <2> SUFFICES ASSUME ClusterInit PROVE Lifecycle!Init
    OBVIOUS
  <2>1. DOMAIN jobs = {} /\ issued = {}
    BY DEF ClusterInit, SchedulerInitAll, CommonInit, JobManagerInit, EmptyTable
  <2> QED
    BY <2>1 DEF Lifecycle!Init, StatusSeen, NodeSeen
<1>2. ASSUME ClusterInv, [ClusterNext]_clusterVars
      PROVE  [Lifecycle!Next]_(Lifecycle!lifecycleVars)
  BY <1>2, ClusterStepMoves, MovesFollowLifecycle DEF ClusterInv
<1> QED
  BY <1>1, <1>2, ClusterInvariant, PTL DEF ClusterSpec, FollowsLifecycle, Lifecycle!Spec

-----------------------------------------------------------------------------
(* The components keep inside the cluster what they promise on their own.  *)
(* A report is a call the scheduler's specification has: its job, if it is *)
(* known, has the node it names.                                           *)
LEMMA DeliverIsHandled ==
  ASSUME NEW report \in Report, Deliver(report), UNCHANGED schedVars,
         Placed(report.job, report.node)
  PROVE  [SchedulerNext]_allVars
<1>1. /\ report.job \in JobIds /\ report.status \in Reports /\ report.node \in NodeIds
      /\ UNCHANGED <<nodes, issued, now>>
  BY DEF Report, Reports, Deliver
<1>2. CASE report.job \notin DOMAIN jobs
  BY <1>1, <1>2 DEF Deliver, update_job_status, masterVars, allVars
<1>3. CASE report.job \in DOMAIN jobs
  <2>1. jobs[report.job].node = report.node /\ report.node # NoNode
    BY <1>1, <1>3, IdentifierAssumption DEF Placed
  <2>2. Handlers
    BY <1>1, <1>3, <2>1 DEF Handlers, JobTableCall, Deliver, Reports
  <2> QED
    BY <2>2 DEF SchedulerNext
<1> QED
  BY <1>2, <1>3

LEMMA RunIsHandled ==
  ASSUME ClusterInv, NEW r \in Runs, RunThread(r)
  PROVE  [SchedulerNext]_allVars
<1>1. ThreadStep(r)
  BY DEF RunThread, LocalStep, ReportJobStarted, ReportJobCompleted, ReportJobFailed, ThreadStep
<1>2. r \in DOMAIN runs
  BY <1>1, ThreadKeepsRuns DEF ClusterInv, ThreadMoves
<1>3. ASSUME NEW told, Call(r, told),
             \/ runs[r].thread = "registered" /\ told = "RUNNING"
             \/ runs[r].thread = "erased" /\ told = "COMPLETED"
             \/ runs[r].thread = "failed" /\ told = "FAILED"
      PROVE  [SchedulerNext]_allVars
  <2>1. PICK report : report = ReportOf(r, told)
    OBVIOUS
  <2>2. report \in Report /\ Placed(report.job, report.node)
    BY <1>2, <1>3, <2>1, ReportFacts
  <2>3. CASE Deliver(report)
    BY <1>3, <2>2, <2>3, DeliverIsHandled DEF Call
  <2> QED
    BY <1>3, <2>1, <2>3 DEF Call, allVars
<1>4. CASE LocalStep(r)
  BY <1>4 DEF LocalStep, allVars
<1>5. CASE ReportJobStarted(r) \/ ReportJobCompleted(r) \/ ReportJobFailed(r)
  BY <1>3, <1>5 DEF ReportJobStarted, ReportJobCompleted, ReportJobFailed, OnStarted,
     OnCompleted, OnFailed, Advance, ThreadAt
<1> QED
  BY <1>4, <1>5 DEF RunThread

LEMMA StepIsScheduled ==
  ASSUME ClusterInv, [ClusterNext]_clusterVars
  PROVE  [SchedulerNext]_allVars \/ RestartMaster
<1>1. CASE UNCHANGED <<masterVars, schedVars>>
  BY <1>1 DEF allVars
<1>2. CASE \/ \E j \in JobIds : CancelJob(j) \/ \E spec \in Specs : SubmitJob(j, spec)
           \/ Tick /\ UNCHANGED <<jobs, nodes, issued, schedVars, executorVars, agentVars>>
  BY <1>2 DEF CancelJob, SubmitJob, SchedulerNext, Handlers, JobTableCall
<1>3. CASE SchedulerStep
  BY <1>3 DEF SchedulerNext
<1>4. ASSUME NEW a \in Agents, StartAgent(a) PROVE [SchedulerNext]_allVars
  <2>1. HostOf[a] \in Hosts /\ Announced[a] \in Resources
    BY ClusterAssumption
  <2> QED
    BY <1>4, <2>1 DEF StartAgent, RegisterNode, SchedulerNext, Handlers, NodeTableCall
<1>5. ASSUME NEW a \in Agents, SendHeartbeat(a) PROVE [SchedulerNext]_allVars
  <2>1. agent[a].node_id \in NodeIds /\ Reported \in Resources
    BY <1>5, ClusterAssumption DEF SendHeartbeat, Up, ClusterInv, AgentInv, AgentState
  <2> QED
    BY <1>5, <2>1 DEF SendHeartbeat, SchedulerNext, Handlers, NodeTableCall
<1>6. ASSUME NEW r \in Runs, RunThread(r) PROVE [SchedulerNext]_allVars
  BY <1>6, RunIsHandled
<1>7. ASSUME NEW report \in late, LateReport(report) PROVE [SchedulerNext]_allVars
  BY <1>7, DeliverIsHandled DEF LateReport, ClusterInv, AgentInv
<1> QED
  BY <1>1, <1>2, <1>3, <1>4, <1>5, <1>6, <1>7
     DEF ClusterNext, clusterVars, AgentStep, FetchJob, ExecuteFetched, AnswerHeartbeat,
         KillCancelled, KillAgent, ProcessExits

LEMMA StepIsExecuted ==
  ASSUME ClusterInv, [ClusterNext]_clusterVars
  PROVE  [ExecutorNext]_executorVars
<1>1. CASE UNCHANGED executorVars
  BY <1>1
<1>2. ASSUME NEW a \in Agents, ExecuteFetched(a) PROVE [ExecutorNext]_executorVars
  <2>1. agent[a].fetched \in JobIds
    BY <1>2 DEF ExecuteFetched, ClusterInv, AgentInv, AgentState
  <2> QED
    BY <1>2, <2>1 DEF ExecuteFetched, ExecutorNext
<1>3. ASSUME NEW a \in Agents, NEW j \in JobIds, KillCancelled(a, j) PROVE [ExecutorNext]_executorVars
  BY <1>3 DEF KillCancelled, ExecutorNext
<1>4. ASSUME NEW a \in Agents, KillAgent(a) PROVE [ExecutorNext]_executorVars
  BY <1>4 DEF KillAgent, ExecutorNext
<1>5. ASSUME NEW r \in Runs, RunThread(r) PROVE [ExecutorNext]_executorVars
  <2>1. ThreadStep(r)
    BY <1>5 DEF RunThread, LocalStep, ReportJobStarted, ReportJobCompleted, ReportJobFailed,
       ThreadStep
  <2> QED
    BY <2>1 DEF ExecutorNext
<1>6. ASSUME NEW r \in Runs, ProcessExits(r) PROVE [ExecutorNext]_executorVars
  BY <1>6 DEF ProcessExits, ExecutorNext
<1> QED
  BY <1>1, <1>2, <1>3, <1>4, <1>5, <1>6
     DEF ClusterNext, clusterVars, AgentStep, StartAgent, FetchJob, SendHeartbeat,
         AnswerHeartbeat, CancelJob, SubmitJob, LateReport, RestartMaster

(* The agents of a cluster behave as the executor's specification says,    *)
(* so they implement its abstraction as well, whatever the network loses   *)
(* and whoever dies: fetched jobs and orders to kill are calls it allows.  *)
THEOREM ClusterIsExclusive == ClusterSpec => RunsAreExclusive
<1>1. ClusterInit => ExecutorInit
  BY DEF ClusterInit
<1>2. ClusterInv /\ [ClusterNext]_clusterVars => [ExecutorNext]_executorVars
  BY StepIsExecuted
<1>3. ClusterSpec => ExecutorSpec
  BY <1>1, <1>2, ClusterInvariant, PTL DEF ClusterSpec, ExecutorSpec
<1> QED
  BY <1>3, ExecutorIsExclusive

(* One run of a job per agent, and cancel finds it, also in a cluster.     *)
THEOREM ClusterRunsOnce == ClusterSpec => [](OneRunPerJob /\ CancelReaches)
<1>1. ClusterInv => OneRunPerJob /\ CancelReaches
  BY InvImpliesSafety DEF ClusterInv
<1> QED
  BY <1>1, ClusterInvariant, PTL

(* A pass gives no node of the cluster away twice, although reports, late  *)
(* ones included, heartbeats and restarts of the master meet it anywhere.  *)
THEOREM ClusterPassBalances == ClusterSpec => []PassLedger
<1>1. ClusterInit => LedgerInv
  BY InitLedger DEF ClusterInit
<1>2. ASSUME ClusterInv, LedgerInv, [ClusterNext]_clusterVars PROVE LedgerInv'
  <2>1. CASE [SchedulerNext]_allVars
    BY <1>2, <2>1, NextKeepsLedger DEF ClusterInv
  <2>2. CASE RestartMaster
    <3>1. EndPass /\ DOMAIN jobs' = {}
      BY <2>2 DEF RestartMaster, EmptyTable
    <3> QED
      BY <3>1, EndLedger, FS_EmptySet DEF LedgerInv
  <2> QED
    BY <1>2, <2>1, <2>2, StepIsScheduled
<1>3. LedgerInv => PassLedger
  BY DEF LedgerInv
<1> QED
  BY <1>1, <1>2, <1>3, ClusterInvariant, PTL DEF ClusterSpec

(* No pass overtakes a job it could have placed, also in a cluster.        *)
THEOREM ClusterKeepsPriority == ClusterSpec => NoPriorityInversion
<1>1. ASSUME ClusterInv, [ClusterNext]_clusterVars PROVE [NotOvertaken]_allVars
  <2>1. CASE [SchedulerNext]_allVars
    BY <1>1, <2>1, StepOvertakesNone DEF ClusterInv
  <2>2. CASE RestartMaster
    BY <2>2 DEF RestartMaster, EndPass, NotOvertaken
  <2> QED
    BY <1>1, <2>1, <2>2, StepIsScheduled
<1> QED
  BY <1>1, ClusterInvariant, PTL DEF ClusterSpec, NoPriorityInversion, NotOvertaken, allVars

(* What the tables promise holds in the cluster: times fit statuses, one   *)
(* machine has one id, OFFLINE means silent.                               *)
THEOREM ClusterTablesAgree ==
  ClusterSpec => [](StampsAgree /\ OneIdPerMachine /\ OfflineMeansSilent)
<1>1. ClusterInv => StampsAgree /\ OneIdPerMachine /\ OfflineMeansSilent
  BY DEF ClusterInv, SchedulerInv, JobsInv, NodesInv
<1> QED
  BY <1>1, ClusterInvariant, PTL

(* A restart of the master passes no node id on, and no order to kill is   *)
(* sent for longer than its window.                                        *)
THEOREM ClusterIdsStay == ClusterSpec => IdsAreNotReused /\ CancelWindowIsNotReopened
<1> DEFINE Stay == \A n \in issued \cap DOMAIN nodes' :
                     n \in DOMAIN nodes /\ nodes'[n].host = nodes[n].host
           Closed == \A j \in list_jobs("CANCELLED") :
                       HasStatus(j, {"CANCELLED"})' =>
                         jobs'[j].completed_at = jobs[j].completed_at
<1>1. ASSUME ClusterInv, [ClusterNext]_clusterVars PROVE [Stay]_<<nodes, issued>> /\ [Closed]_jobs
  <2>1. CASE [SchedulerNext]_allVars
    BY <1>1, <2>1, SchedulerNextKeepsInv DEF ClusterInv, HostsKept, JobsKept, list_jobs, HasStatus
  <2>2. CASE RestartMaster
    <3>1. DOMAIN jobs' = {} /\ DOMAIN nodes' = {}
      BY <2>2 DEF RestartMaster, EmptyTable
    <3> QED
      BY <3>1 DEF HasStatus
  <2> QED
    BY <1>1, <2>1, <2>2, StepIsScheduled
<1> QED
  BY <1>1, ClusterInvariant, PTL
     DEF ClusterSpec, IdsAreNotReused, CancelWindowIsNotReopened
=============================================================================
