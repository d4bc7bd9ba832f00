---------------------------- MODULE JobExecutor ----------------------------
(***************************************************************************)
(* The executor of each agent process (agent/src/job_executor.cpp): the    *)
(* map running_jobs_, the execution threads and the job processes they     *)
(* fork.  A run is one execution thread together with the process it       *)
(* forks, and stands for the pid of that process.                          *)
(*                                                                         *)
(* Steps are cut where the thread takes or releases the mutex, forks,      *)
(* waits or calls back.  Abstracted: the archive and its directory, the    *)
(* command line, the output, and the exit code, since the agent reports    *)
(* every process it collected in the same way.  A process that handles     *)
(* SIGTERM behaves like one that cancel did not reach.                     *)
(***************************************************************************)
EXTENDS Tables

CONSTANTS
  Agents,                       \* agent processes
  Runs,                         \* executions and their pids; bounds the model
  NoEntry,                      \* the job has no entry in running_jobs_
  NoPid                         \* it has one whose pid is still 0

ASSUME ExecutorAssumption ==
  NoEntry \notin Runs /\ NoPid \notin Runs /\ NoEntry # NoPid

VARIABLES
  running_jobs,                 \* per agent and job: a pid, NoPid or NoEntry
  runs                          \* the runs started so far

executorVars == <<running_jobs, runs>>

(* Where an execution thread stands; the thread of a "gone" run has        *)
(* returned, or died with its agent.                                       *)
ThreadStates == {"new", "forked", "registered", "reading", "reaped", "erased",
                 "failed", "gone"}

(* A process that has ended is a zombie until waitpid collects it.         *)
ProcessStates == {"none", "alive", "zombie", "reaped"}

Run == [agent: Agents, job: JobIds, thread: ThreadStates, proc: ProcessStates]

ExecutorInit ==
  /\ running_jobs = [a \in Agents |-> [j \in JobIds |-> NoEntry]]
  /\ runs = EmptyTable

Of(r, a, j) == runs[r].agent = a /\ runs[r].job = j

ThreadAt(r, state) == r \in DOMAIN runs /\ runs[r].thread = state

Alive(r) == r \in DOMAIN runs /\ runs[r].proc = "alive"

Advance(r, from, to) ==
  ThreadAt(r, from) /\ runs' = [runs EXCEPT ![r].thread = to]

Entry(r) == running_jobs[runs[r].agent][runs[r].job]

SetEntry(a, j, entry) == running_jobs' = [running_jobs EXCEPT ![a][j] = entry]

-----------------------------------------------------------------------------
(* The calls of the daemon's two loops.                                    *)

(* Faulty: a job that has an entry is started again.                       *)
execute_async_Unchecked(a, j) ==
  /\ SetEntry(a, j, NoPid)
  /\ \E r \in Runs \ DOMAIN runs :
       runs' = Put(runs, r, [agent |-> a, job |-> j, thread |-> "new", proc |-> "none"])

(* Returns false, changing nothing, when the job has an entry.             *)
execute_async(a, j) ==
  \/ /\ running_jobs[a][j] # NoEntry
     /\ UNCHANGED executorVars
  \/ /\ running_jobs[a][j] = NoEntry
     /\ SetEntry(a, j, NoPid)
     /\ \E r \in Runs \ DOMAIN runs :
          runs' = Put(runs, r, [agent |-> a, job |-> j,
                                thread |-> "new", proc |-> "none"])

(* SIGTERM ends a living process and leaves a zombie as it is.  Once the   *)
(* pid is collected the signal is lost, or meets a stranger.               *)
Signal(pid) ==
  runs' = IF runs[pid].proc = "alive"
          THEN [runs EXCEPT ![pid].proc = "zombie"]
          ELSE runs

cancel(a, j) ==
  /\ IF running_jobs[a][j] \in Runs
     THEN Signal(running_jobs[a][j])
     ELSE UNCHANGED runs
  /\ UNCHANGED running_jobs

-----------------------------------------------------------------------------
(* execution_thread                                                        *)

(* pipe or fork fails: the failure will be reported, the entry stays.      *)
LaunchFails(r) == Advance(r, "new", "failed") /\ UNCHANGED running_jobs

Fork(r) ==
  /\ ThreadAt(r, "new")
  /\ runs' = [runs EXCEPT ![r].thread = "forked", ![r].proc = "alive"]
  /\ UNCHANGED running_jobs

(* Faulty: the pid is stored in every entry that has none.                 *)
RegisterPid_AnyJob(r) ==
  /\ Advance(r, "forked", "registered")
  /\ running_jobs' = [running_jobs EXCEPT ![runs[r].agent] =
                         [j \in JobIds |-> IF @[j] = NoPid THEN r ELSE @[j]]]

(* Faulty: the pid is not stored.                                          *)
RegisterPid_NotStored(r) ==
  Advance(r, "forked", "registered") /\ UNCHANGED running_jobs

RegisterPid(r) ==
  /\ Advance(r, "forked", "registered")
  /\ IF Entry(r) # NoEntry
     THEN SetEntry(runs[r].agent, runs[r].job, r)
     ELSE UNCHANGED running_jobs

OnStarted(r) == Advance(r, "registered", "reading") /\ UNCHANGED running_jobs

(* Faulty: the parent keeps its end of the pipe open and reads forever.    *)
Wait_PipeHeldOpen(r) == FALSE /\ ThreadAt(r, "reading") /\ UNCHANGED executorVars

(* The pipe is at its end, and waitpid returns.                            *)
Wait(r) ==
  /\ ThreadAt(r, "reading")
  /\ runs[r].proc = "zombie"
  /\ runs' = [runs EXCEPT ![r].thread = "reaped", ![r].proc = "reaped"]
  /\ UNCHANGED running_jobs

(* Faulty: the entry is erased before waitpid.                             *)
Erase_BeforeWait(r) ==
  /\ Advance(r, "reading", "erased")
  /\ SetEntry(runs[r].agent, runs[r].job, NoEntry)

Erase(r) ==
  /\ Advance(r, "reaped", "erased")
  /\ SetEntry(runs[r].agent, runs[r].job, NoEntry)

OnCompleted(r) == Advance(r, "erased", "gone") /\ UNCHANGED running_jobs

OnFailed(r) == Advance(r, "failed", "gone") /\ UNCHANGED running_jobs

-----------------------------------------------------------------------------
(* The job process ends by itself.                                         *)
Exit(r) ==
  /\ Alive(r)
  /\ runs' = [runs EXCEPT ![r].proc = "zombie"]
  /\ UNCHANGED running_jobs

(* The agent process dies: its threads and its map are gone, the processes *)
(* it forked live on.                                                      *)
AgentDies(a) ==
  /\ running_jobs' = [running_jobs EXCEPT ![a] = [j \in JobIds |-> NoEntry]]
  /\ runs' = [r \in DOMAIN runs |-> IF runs[r].agent = a
                                    THEN [runs[r] EXCEPT !.thread = "gone"]
                                    ELSE runs[r]]

ThreadStep(r) ==
  \/ LaunchFails(r) \/ Fork(r) \/ RegisterPid(r) \/ OnStarted(r)
  \/ Wait(r) \/ Erase(r) \/ OnCompleted(r) \/ OnFailed(r)

ExecutorNext ==
  \/ \E a \in Agents, j \in JobIds : execute_async(a, j) \/ cancel(a, j)
  \/ \E r \in Runs : ThreadStep(r) \/ Exit(r)
  \/ \E a \in Agents : AgentDies(a)

ExecutorSpec == ExecutorInit /\ [][ExecutorNext]_executorVars

(* Threads are scheduled fairly and every job process ends some day.       *)
FairExecutorSpec ==
  /\ ExecutorSpec
  /\ \A r \in Runs : WF_executorVars(ThreadStep(r)) /\ WF_executorVars(Exit(r))

-----------------------------------------------------------------------------
(* The map and the runs keep their types, and a pid in the map belongs to  *)
(* a run of that very agent and job, so cancel never signals another job.  *)
ExecutorTypeOK ==
  /\ running_jobs \in [Agents -> [JobIds -> Runs \cup {NoEntry, NoPid}]]
  /\ runs \in [DOMAIN runs -> Run] /\ DOMAIN runs \subseteq Runs
  /\ \A a \in Agents, j \in JobIds :
       running_jobs[a][j] \in Runs =>
         running_jobs[a][j] \in DOMAIN runs /\ Of(running_jobs[a][j], a, j)

(* From the start of its thread until the entry is erased, and as long as  *)
(* a process of it has to be waited for.                                   *)
Holding(r) ==
  /\ r \in DOMAIN runs /\ runs[r].thread # "gone"
  /\ runs[r].thread = "erased" => runs[r].proc \in {"alive", "zombie"}

(* Whatever jobs the polling thread hands over twice, one agent process    *)
(* never runs two processes, nor two threads that may fork, for one job.   *)
OneRunPerJob ==
  \A r, s \in DOMAIN runs :
    Holding(r) /\ Holding(s) /\ Of(s, runs[r].agent, runs[r].job) => r = s

(* A process whose start has been registered stays within reach of cancel: *)
(* until its entry is erased, the entry of its job names it and no other.  *)
CancelReaches ==
  \A r \in DOMAIN runs :
    runs[r].thread \in {"registered", "reading", "reaped"} => Entry(r) = r

(* Every thread gets as far as its final report, or dies with its agent.   *)
EveryRunEnds == \A r \in Runs : r \in DOMAIN runs ~> ThreadAt(r, "gone")

(* The executor implements ExclusiveExecution: the slot of a job is the    *)
(* run that has not erased its entry yet.                                  *)
SlotOf(a, j) ==
  IF running_jobs[a][j] = NoEntry THEN NoEntry
  ELSE IF \E r \in DOMAIN runs : Of(r, a, j) /\ Holding(r)
       THEN CHOOSE r \in DOMAIN runs : Of(r, a, j) /\ Holding(r)
       ELSE NoPid

Abstract ==
  INSTANCE ExclusiveExecution
    WITH Free <- NoEntry, Leaked <- NoPid, begun <- DOMAIN runs,
         slot <- [a \in Agents |-> [j \in JobIds |-> SlotOf(a, j)]]

RunsAreExclusive == Abstract!Spec
=============================================================================
