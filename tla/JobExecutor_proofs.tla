------------------------- MODULE JobExecutor_proofs -------------------------
(***************************************************************************)
(* For any number of agents, jobs and executions: the executor keeps its   *)
(* types, an agent never executes a job twice at the same time, and        *)
(* cancel reaches every execution whose start has been registered.         *)
(*                                                                         *)
(* None of the three is inductive.  Erasing an entry would break           *)
(* CancelReaches for another execution of the same job, so the argument    *)
(* needs OneRunPerJob; starting a job keeps OneRunPerJob only because a    *)
(* thread that has not erased its entry still has one; and an erased entry *)
(* may be taken again only because the process was collected before.       *)
(* ExecutorInv says these things together.                                 *)
(***************************************************************************)
EXTENDS JobExecutor, TLAPS

(* A thread that has not erased its entry yet.                             *)
Working(r) == runs[r].thread \in ThreadStates \ {"erased", "gone"}

(* A thread has a process exactly between fork and waitpid.                *)
ProcessFits(r) ==
  /\ runs[r].thread \in {"new", "failed"} => runs[r].proc = "none"
  /\ runs[r].thread \in {"forked", "registered", "reading"} =>
       runs[r].proc \in {"alive", "zombie"}
  /\ runs[r].thread \in {"reaped", "erased"} => runs[r].proc = "reaped"

(* The entry of a working thread holds its pid once that is registered,    *)
(* and is kept free for it before.                                         *)
EntryFits(r) ==
  /\ runs[r].thread \in {"new", "forked", "failed"} => Entry(r) = NoPid
  /\ runs[r].thread \in {"registered", "reading", "reaped"} => Entry(r) = r

SameJob(r, s) == Of(s, runs[r].agent, runs[r].job)

ExecutorInv ==
  /\ ExecutorTypeOK
  /\ \A r \in DOMAIN runs : ProcessFits(r) /\ EntryFits(r)
  /\ \A r, s \in DOMAIN runs : Working(r) /\ Working(s) /\ SameJob(r, s) => r = s

-----------------------------------------------------------------------------
(* Storing an entry touches one job of one agent.                          *)
LEMMA SetEntryFacts ==
  ASSUME running_jobs \in [Agents -> [JobIds -> Runs \cup {NoEntry, NoPid}]],
         NEW a \in Agents, NEW j \in JobIds,
         NEW entry \in Runs \cup {NoEntry, NoPid}, SetEntry(a, j, entry)
  PROVE  /\ running_jobs' \in [Agents -> [JobIds -> Runs \cup {NoEntry, NoPid}]]
         /\ running_jobs'[a][j] = entry
         /\ \A b \in Agents, k \in JobIds :
              b # a \/ k # j => running_jobs'[b][k] = running_jobs[b][k]
BY DEF SetEntry

(* The invariant gives the two safety properties.                          *)
LEMMA InvImpliesSafety == ExecutorInv => OneRunPerJob /\ CancelReaches
<1> SUFFICES ASSUME ExecutorInv PROVE OneRunPerJob /\ CancelReaches
  OBVIOUS
<1>1. \A r \in DOMAIN runs : runs[r] \in Run
  BY DEF ExecutorInv, ExecutorTypeOK
<1>2. \A r \in DOMAIN runs : Holding(r) => Working(r)
  BY <1>1 DEF ExecutorInv, ProcessFits, Holding, Working, Run
<1>3. OneRunPerJob
  BY <1>2 DEF OneRunPerJob, ExecutorInv, SameJob
<1>4. CancelReaches
  BY DEF CancelReaches, ExecutorInv, EntryFits
<1> QED
  BY <1>3, <1>4

(* No thread runs at first, and no job has an entry.                       *)
LEMMA InitInv == ExecutorInit => ExecutorInv
<1> SUFFICES ASSUME ExecutorInit PROVE ExecutorInv
  OBVIOUS
<1>1. DOMAIN runs = {} /\ runs = [r \in {} |-> 0]
  BY DEF ExecutorInit, EmptyTable
<1>2. runs \in [DOMAIN runs -> Run]
  BY <1>1
<1>3. running_jobs \in [Agents -> [JobIds -> Runs \cup {NoEntry, NoPid}]]
  BY DEF ExecutorInit
<1>4. \A a \in Agents, j \in JobIds : running_jobs[a][j] \notin Runs
  BY ExecutorAssumption DEF ExecutorInit
<1> QED
  BY <1>1, <1>2, <1>3, <1>4 DEF ExecutorInv, ExecutorTypeOK

-----------------------------------------------------------------------------
(* What a step of a thread or of a process does to runs: one record gets   *)
(* another thread state or process state, and keeps its agent and its job. *)
Moved(r, thread, proc) ==
  /\ DOMAIN runs' = DOMAIN runs /\ runs' \in [DOMAIN runs -> Run]
  /\ runs'[r].thread = thread /\ runs'[r].proc = proc
  /\ \A s \in DOMAIN runs : s # r => runs'[s] = runs[s]
  /\ \A s \in DOMAIN runs : runs'[s].agent = runs[s].agent /\ runs'[s].job = runs[s].job

(* The three ways the actions write such a step.                           *)
LEMMA MoveThread ==
  ASSUME ExecutorTypeOK, NEW r \in DOMAIN runs, NEW thread \in ThreadStates,
         runs' = [runs EXCEPT ![r].thread = thread]
  PROVE  Moved(r, thread, runs[r].proc)
BY DEF ExecutorTypeOK, Run, Moved

LEMMA MoveProcess ==
  ASSUME ExecutorTypeOK, NEW r \in DOMAIN runs, NEW proc \in ProcessStates,
         runs' = [runs EXCEPT ![r].proc = proc]
  PROVE  Moved(r, runs[r].thread, proc)
BY DEF ExecutorTypeOK, Run, Moved

LEMMA MoveBoth ==
  ASSUME ExecutorTypeOK, NEW r \in DOMAIN runs,
         NEW thread \in ThreadStates, NEW proc \in ProcessStates,
         runs' = [runs EXCEPT ![r].thread = thread, ![r].proc = proc]
  PROVE  Moved(r, thread, proc)
BY DEF ExecutorTypeOK, Run, Moved

(* A step that moves one run and leaves the map alone keeps the invariant  *)
(* when the new states of the run fit together and fit its entry.          *)
LEMMA MoveKeepsInv ==
  ASSUME ExecutorInv, NEW r \in DOMAIN runs,
         NEW thread \in ThreadStates, NEW proc \in ProcessStates,
         Moved(r, thread, proc), UNCHANGED running_jobs,
         Working(r) \/ thread \in {"erased", "gone"},
         ProcessFits(r)', EntryFits(r)'
  PROVE  ExecutorInv'
<1>1. ExecutorTypeOK'
  BY DEF ExecutorInv, ExecutorTypeOK, Of, Moved
<1>2. \A s \in DOMAIN runs' : ProcessFits(s)' /\ EntryFits(s)'
  <2> SUFFICES ASSUME NEW s \in DOMAIN runs, s # r PROVE ProcessFits(s)' /\ EntryFits(s)'
    BY DEF Moved
  <2>1. runs'[s] = runs[s] /\ ProcessFits(s) /\ EntryFits(s)
    BY DEF ExecutorInv, Moved
  <2> QED
    BY <2>1 DEF ProcessFits, EntryFits, Entry
<1>3. \A s, t \in DOMAIN runs' : Working(s)' /\ Working(t)' /\ SameJob(s, t)' => s = t
  <2>1. \A s \in DOMAIN runs : Working(s)' => Working(s)
    BY DEF Working, Moved
  <2>2. \A s, t \in DOMAIN runs : SameJob(s, t)' => SameJob(s, t)
    BY DEF SameJob, Of, Moved
  <2> QED
    BY <2>1, <2>2 DEF ExecutorInv, Moved
<1> QED
  BY <1>1, <1>2, <1>3 DEF ExecutorInv

-----------------------------------------------------------------------------
(* The actions, one by one.                                                *)

LEMMA LaunchFailsKeepsInv ==
  ASSUME ExecutorInv, NEW r \in Runs, LaunchFails(r) PROVE ExecutorInv'
<1>1. /\ ExecutorTypeOK /\ r \in DOMAIN runs /\ runs[r].proc = "none" /\ Working(r)
      /\ runs[r] \in Run /\ "none" \in ProcessStates /\ Entry(r) = NoPid
  BY DEF ExecutorInv, ExecutorTypeOK, LaunchFails, Advance, ThreadAt, Working,
         ProcessFits, EntryFits, ThreadStates, ProcessStates
<1>2. Moved(r, "failed", "none")
  BY <1>1, MoveThread DEF LaunchFails, Advance, ThreadStates
<1>3. ProcessFits(r)' /\ EntryFits(r)'
  BY <1>1, <1>2 DEF Moved, ProcessFits, EntryFits, Entry, LaunchFails
<1> QED
  BY <1>1, <1>2, <1>3, MoveKeepsInv DEF LaunchFails, ThreadStates

LEMMA ForkKeepsInv ==
  ASSUME ExecutorInv, NEW r \in Runs, Fork(r) PROVE ExecutorInv'
<1>1. /\ ExecutorTypeOK /\ r \in DOMAIN runs /\ Working(r)
      /\ runs[r] \in Run /\ "alive" \in ProcessStates /\ Entry(r) = NoPid
  BY DEF ExecutorInv, ExecutorTypeOK, Fork, ThreadAt, Working,
         EntryFits, ThreadStates, ProcessStates
<1>2. Moved(r, "forked", "alive")
  BY <1>1, MoveBoth DEF Fork, ThreadStates
<1>3. ProcessFits(r)' /\ EntryFits(r)'
  BY <1>1, <1>2 DEF Moved, ProcessFits, EntryFits, Entry, Fork
<1> QED
  BY <1>1, <1>2, <1>3, MoveKeepsInv DEF Fork, ThreadStates

LEMMA OnStartedKeepsInv ==
  ASSUME ExecutorInv, NEW r \in Runs, OnStarted(r) PROVE ExecutorInv'
<1>1. /\ ExecutorTypeOK /\ r \in DOMAIN runs /\ Working(r) /\ runs[r] \in Run
      /\ runs[r].proc \in {"alive", "zombie"} /\ Entry(r) = r
  BY DEF ExecutorInv, ExecutorTypeOK, OnStarted, Advance, ThreadAt, Working,
         ProcessFits, EntryFits, ThreadStates
<1>2. runs[r].proc \in ProcessStates
  BY <1>1 DEF ProcessStates
<1>3. Moved(r, "reading", runs[r].proc)
  BY <1>1, MoveThread DEF OnStarted, Advance, ThreadStates
<1>4. ProcessFits(r)' /\ EntryFits(r)'
  BY <1>1, <1>3 DEF Moved, ProcessFits, EntryFits, Entry, OnStarted
<1> QED
  BY <1>1, <1>2, <1>3, <1>4, MoveKeepsInv DEF OnStarted, ThreadStates

LEMMA WaitKeepsInv ==
  ASSUME ExecutorInv, NEW r \in Runs, Wait(r) PROVE ExecutorInv'
<1>1. /\ ExecutorTypeOK /\ r \in DOMAIN runs /\ Working(r)
      /\ "reaped" \in ProcessStates /\ Entry(r) = r
  BY DEF ExecutorInv, Wait, ThreadAt, Working, EntryFits, ThreadStates, ProcessStates
<1>2. Moved(r, "reaped", "reaped")
  BY <1>1, MoveBoth DEF Wait, ThreadStates
<1>3. ProcessFits(r)' /\ EntryFits(r)'
  BY <1>1, <1>2 DEF Moved, ProcessFits, EntryFits, Entry, Wait
<1> QED
  BY <1>1, <1>2, <1>3, MoveKeepsInv DEF Wait, ThreadStates

(* Both ends of a thread: the final report of a completion or a failure.   *)
LEMMA FinalReportKeepsInv ==
  ASSUME ExecutorInv, NEW r \in Runs, OnCompleted(r) \/ OnFailed(r)
  PROVE  ExecutorInv'
<1>1. /\ ExecutorTypeOK /\ r \in DOMAIN runs /\ runs[r] \in Run
      /\ UNCHANGED running_jobs /\ runs' = [runs EXCEPT ![r].thread = "gone"]
  BY DEF ExecutorInv, ExecutorTypeOK, OnCompleted, OnFailed, Advance, ThreadAt
<1>2. runs[r].proc \in ProcessStates
  BY <1>1 DEF Run
<1>3. Moved(r, "gone", runs[r].proc)
  BY <1>1, MoveThread DEF ThreadStates
<1>4. ProcessFits(r)' /\ EntryFits(r)'
  BY <1>3 DEF Moved, ProcessFits, EntryFits
<1> QED
  BY <1>1, <1>2, <1>3, <1>4, MoveKeepsInv DEF ThreadStates

(* A process ends, by itself or by a signal.                               *)
LEMMA EndOfProcessKeepsInv ==
  ASSUME ExecutorInv, NEW r \in DOMAIN runs, runs[r].proc = "alive",
         runs' = [runs EXCEPT ![r].proc = "zombie"], UNCHANGED running_jobs
  PROVE  ExecutorInv'
<1>1. /\ ExecutorTypeOK /\ runs[r] \in Run /\ ProcessFits(r) /\ EntryFits(r)
      /\ "zombie" \in ProcessStates
  BY DEF ExecutorInv, ExecutorTypeOK, ProcessStates
<1>2. runs[r].thread \in {"forked", "registered", "reading", "gone"}
  BY <1>1 DEF Run, ThreadStates, ProcessFits
<1>3. Moved(r, runs[r].thread, "zombie")
  BY <1>1, MoveProcess
<1>4. ProcessFits(r)' /\ EntryFits(r)'
  BY <1>1, <1>2, <1>3 DEF Moved, ProcessFits, EntryFits, Entry
<1>5. Working(r) \/ runs[r].thread \in {"erased", "gone"}
  BY <1>2 DEF Working, ThreadStates
<1> QED
  BY <1>1, <1>2, <1>3, <1>4, <1>5, MoveKeepsInv DEF ThreadStates

LEMMA ExitKeepsInv ==
  ASSUME ExecutorInv, NEW r \in Runs, Exit(r) PROVE ExecutorInv'
BY EndOfProcessKeepsInv DEF Exit, Alive

LEMMA CancelKeepsInv ==
  ASSUME ExecutorInv, NEW a \in Agents, NEW j \in JobIds, cancel(a, j)
  PROVE  ExecutorInv'
<1> DEFINE pid == running_jobs[a][j]
<1>1. CASE UNCHANGED executorVars
  BY <1>1 DEF executorVars, ExecutorInv, ExecutorTypeOK, ProcessFits, EntryFits,
              Entry, Working, SameJob, Of
<1>2. CASE pid \in Runs /\ runs[pid].proc = "alive"
  <2>1. pid \in DOMAIN runs
    BY <1>2 DEF ExecutorInv, ExecutorTypeOK
  <2> QED
    BY <1>2, <2>1, EndOfProcessKeepsInv DEF cancel, Signal
<1> QED
  BY <1>1, <1>2 DEF cancel, Signal, executorVars

(* Storing the pid, or erasing the entry, also changes the entry of the    *)
(* job; by the third part of the invariant it is no other thread's.        *)
LEMMA MoveAndStoreKeepsInv ==
  ASSUME ExecutorInv, NEW r \in DOMAIN runs, Working(r),
         NEW thread \in ThreadStates, NEW entry \in {NoEntry, r},
         Moved(r, thread, runs[r].proc),
         SetEntry(runs[r].agent, runs[r].job, entry),
         ProcessFits(r)', EntryFits(r)'
  PROVE  ExecutorInv'
<1> DEFINE a == runs[r].agent  j == runs[r].job
<1>1. /\ running_jobs \in [Agents -> [JobIds -> Runs \cup {NoEntry, NoPid}]]
      /\ DOMAIN runs \subseteq Runs /\ a \in Agents /\ j \in JobIds
      /\ \A s \in DOMAIN runs : runs[s].agent \in Agents /\ runs[s].job \in JobIds
  BY DEF ExecutorInv, ExecutorTypeOK, Run
<1>2. entry \in Runs \cup {NoEntry, NoPid}
  BY <1>1
<1>3. /\ running_jobs' \in [Agents -> [JobIds -> Runs \cup {NoEntry, NoPid}]]
      /\ running_jobs'[a][j] = entry
      /\ \A b \in Agents, k \in JobIds :
           b # a \/ k # j => running_jobs'[b][k] = running_jobs[b][k]
  BY <1>1, <1>2, SetEntryFacts
<1>4. ExecutorTypeOK'
  <2>1. ASSUME NEW b \in Agents, NEW k \in JobIds, running_jobs'[b][k] \in Runs
        PROVE  /\ running_jobs'[b][k] \in DOMAIN runs'
               /\ runs'[running_jobs'[b][k]].agent = b
               /\ runs'[running_jobs'[b][k]].job = k
    <3>1. CASE b = a /\ k = j
      BY <2>1, <3>1, <1>3, ExecutorAssumption DEF Moved
    <3>2. CASE b # a \/ k # j
      BY <2>1, <3>2, <1>3 DEF ExecutorInv, ExecutorTypeOK, Moved, Of
    <3> QED
      BY <3>1, <3>2
  <2> QED
    BY <1>1, <1>3, <2>1 DEF ExecutorTypeOK, Moved, Of
<1>5. \A s \in DOMAIN runs : Working(s)' => s = r \/ Working(s)
  BY DEF Working, Moved
<1>6. \A s, t \in DOMAIN runs : SameJob(s, t)' => SameJob(s, t)
  BY DEF SameJob, Of, Moved
<1>7. \A s, t \in DOMAIN runs' : Working(s)' /\ Working(t)' /\ SameJob(s, t)' => s = t
  BY <1>5, <1>6 DEF ExecutorInv, Moved
<1>8. \A s \in DOMAIN runs' : ProcessFits(s)' /\ EntryFits(s)'
  <2> SUFFICES ASSUME NEW s \in DOMAIN runs, s # r PROVE ProcessFits(s)' /\ EntryFits(s)'
    BY DEF Moved
  <2>1. runs'[s] = runs[s] /\ ProcessFits(s) /\ EntryFits(s)
    BY DEF ExecutorInv, Moved
  <2>2. CASE Working(s)
    <3>1. runs[s].agent # a \/ runs[s].job # j
      BY <2>2 DEF ExecutorInv, SameJob, Of
    <3>2. Entry(s)' = Entry(s)
      BY <1>1, <1>3, <2>1, <3>1 DEF Entry
    <3> QED
      BY <2>1, <3>2 DEF ProcessFits, EntryFits
  <2>3. CASE ~Working(s)
    BY <2>1, <2>3 DEF ProcessFits, EntryFits, Working, ThreadStates
  <2> QED
    BY <2>2, <2>3
<1> QED
  BY <1>4, <1>7, <1>8 DEF ExecutorInv

LEMMA RegisterPidKeepsInv ==
  ASSUME ExecutorInv, NEW r \in Runs, RegisterPid(r) PROVE ExecutorInv'
<1>1. /\ ExecutorTypeOK /\ r \in DOMAIN runs /\ Working(r) /\ runs[r] \in Run
      /\ runs[r].proc \in {"alive", "zombie"} /\ Entry(r) # NoEntry
  BY ExecutorAssumption
     DEF ExecutorInv, ExecutorTypeOK, RegisterPid, Advance, ThreadAt, Working,
         ProcessFits, EntryFits, ThreadStates
<1>2. Moved(r, "registered", runs[r].proc)
  BY <1>1, MoveThread DEF RegisterPid, Advance, ThreadStates
<1>3. SetEntry(runs[r].agent, runs[r].job, r)
  BY <1>1 DEF RegisterPid
<1>4. running_jobs'[runs[r].agent][runs[r].job] = r
  BY <1>1, <1>3, SetEntryFacts DEF ExecutorTypeOK, Run
<1>5. ProcessFits(r)' /\ EntryFits(r)'
  BY <1>1, <1>2, <1>4 DEF Moved, ProcessFits, EntryFits, Entry
<1> QED
  BY <1>1, <1>2, <1>3, <1>5, MoveAndStoreKeepsInv DEF ThreadStates

LEMMA EraseKeepsInv ==
  ASSUME ExecutorInv, NEW r \in Runs, Erase(r) PROVE ExecutorInv'
<1>1. /\ ExecutorTypeOK /\ r \in DOMAIN runs /\ Working(r)
      /\ runs[r].proc = "reaped"
  BY DEF ExecutorInv, Erase, Advance, ThreadAt, Working, ProcessFits, ThreadStates
<1>2. Moved(r, "erased", runs[r].proc)
  BY <1>1, MoveThread DEF Erase, Advance, ThreadStates
<1>3. ProcessFits(r)' /\ EntryFits(r)'
  BY <1>1, <1>2 DEF Moved, ProcessFits, EntryFits
<1> QED
  BY <1>1, <1>2, <1>3, MoveAndStoreKeepsInv DEF Erase, ThreadStates

(* A job without an entry has no working thread, so a new one is alone.    *)
LEMMA ExecuteKeepsInv ==
  ASSUME ExecutorInv, NEW a \in Agents, NEW j \in JobIds, execute_async(a, j)
  PROVE  ExecutorInv'
<1>1. CASE UNCHANGED executorVars
  BY <1>1 DEF executorVars, ExecutorInv, ExecutorTypeOK, ProcessFits, EntryFits,
              Entry, Working, SameJob, Of
<1>2. ASSUME running_jobs[a][j] = NoEntry, SetEntry(a, j, NoPid),
             NEW r \in Runs \ DOMAIN runs,
             runs' = Put(runs, r, [agent |-> a, job |-> j,
                                   thread |-> "new", proc |-> "none"])
      PROVE  ExecutorInv'
  <2>1. /\ running_jobs' \in [Agents -> [JobIds -> Runs \cup {NoEntry, NoPid}]]
        /\ running_jobs'[a][j] = NoPid
        /\ \A b \in Agents, k \in JobIds :
             b # a \/ k # j => running_jobs'[b][k] = running_jobs[b][k]
    BY <1>2, SetEntryFacts DEF ExecutorInv, ExecutorTypeOK
  <2>2. /\ DOMAIN runs' = DOMAIN runs \cup {r}
        /\ runs'[r] = [agent |-> a, job |-> j, thread |-> "new", proc |-> "none"]
        /\ \A s \in DOMAIN runs : s # r /\ runs'[s] = runs[s]
    BY <1>2 DEF Put
  <2>3. runs'[r] \in Run
    BY <2>2 DEF Run, ThreadStates, ProcessStates
  <2>4. runs' \in [DOMAIN runs' -> Run]
    <3>1. runs' = [k \in DOMAIN runs' |-> runs'[k]]
      BY <1>2 DEF Put
    <3>2. \A k \in DOMAIN runs' : runs'[k] \in Run
      BY <2>2, <2>3 DEF ExecutorInv, ExecutorTypeOK
    <3> QED
      BY <3>1, <3>2
  <2>5. ASSUME NEW b \in Agents, NEW k \in JobIds, running_jobs'[b][k] \in Runs
        PROVE  /\ running_jobs'[b][k] \in DOMAIN runs'
               /\ runs'[running_jobs'[b][k]].agent = b
               /\ runs'[running_jobs'[b][k]].job = k
    <3>1. b # a \/ k # j
      BY <2>1, <2>5, ExecutorAssumption
    <3> QED
      BY <2>1, <2>2, <2>5, <3>1 DEF ExecutorInv, ExecutorTypeOK, Of
  <2>6. ExecutorTypeOK'
    BY <2>1, <2>2, <2>4, <2>5 DEF ExecutorInv, ExecutorTypeOK, Of
  <2>7. \A s \in DOMAIN runs : Working(s) => ~Of(s, a, j)
    BY <1>2, ExecutorAssumption
       DEF ExecutorInv, ExecutorTypeOK, Working, EntryFits, Entry, Of, ThreadStates
  <2>8. \A s \in DOMAIN runs' : ProcessFits(s)' /\ EntryFits(s)'
    <3>1. ProcessFits(r)' /\ EntryFits(r)'
      BY <2>1, <2>2 DEF ProcessFits, EntryFits, Entry
    <3>2. ASSUME NEW s \in DOMAIN runs PROVE ProcessFits(s)' /\ EntryFits(s)'
      <4>1. runs'[s] = runs[s] /\ ProcessFits(s) /\ EntryFits(s) /\ runs[s] \in Run
        BY <2>2 DEF ExecutorInv, ExecutorTypeOK
      <4>2. CASE Working(s)
        <5>1. Entry(s)' = Entry(s)
          BY <2>1, <2>7, <4>1, <4>2 DEF Entry, Of, Run
        <5> QED
          BY <4>1, <5>1 DEF ProcessFits, EntryFits
      <4>3. CASE ~Working(s)
        BY <4>1, <4>3 DEF ProcessFits, EntryFits, Working, ThreadStates
      <4> QED
        BY <4>2, <4>3
    <3> QED
      BY <2>2, <3>1, <3>2
  <2>9. \A s, t \in DOMAIN runs' : Working(s)' /\ Working(t)' /\ SameJob(s, t)' => s = t
    <3>1. \A s \in DOMAIN runs : /\ Working(s)' => Working(s)
                                 /\ Of(s, a, j)' => Of(s, a, j)
      BY <2>2 DEF Working, Of
    <3>2. \A s, t \in DOMAIN runs : SameJob(s, t)' => SameJob(s, t)
      BY <2>2 DEF SameJob, Of
    <3>3. \A s \in DOMAIN runs : Working(s)' => ~SameJob(r, s)' /\ ~SameJob(s, r)'
      BY <2>2, <2>7, <3>1 DEF SameJob, Of
    <3> QED
      BY <2>2, <3>1, <3>2, <3>3 DEF ExecutorInv
  <2> QED
    BY <2>6, <2>8, <2>9 DEF ExecutorInv
<1> QED
  BY <1>1, <1>2 DEF execute_async

(* A dead agent has no working thread and an empty map.                    *)
LEMMA AgentDiesKeepsInv ==
  ASSUME ExecutorInv, NEW a \in Agents, AgentDies(a) PROVE ExecutorInv'
<1>1. /\ running_jobs' \in [Agents -> [JobIds -> Runs \cup {NoEntry, NoPid}]]
      /\ \A j \in JobIds : running_jobs'[a][j] = NoEntry
      /\ \A b \in Agents : b # a => running_jobs'[b] = running_jobs[b]
  BY DEF ExecutorInv, ExecutorTypeOK, AgentDies
<1>2. /\ DOMAIN runs' = DOMAIN runs /\ runs' \in [DOMAIN runs -> Run]
      /\ \A s \in DOMAIN runs : runs'[s].agent = runs[s].agent /\ runs'[s].job = runs[s].job
      /\ \A s \in DOMAIN runs : runs[s].agent = a => runs'[s].thread = "gone"
      /\ \A s \in DOMAIN runs : runs[s].agent # a => runs'[s] = runs[s]
  BY DEF ExecutorInv, ExecutorTypeOK, AgentDies, Run, ThreadStates
<1>3. ExecutorTypeOK'
  <2>1. ASSUME NEW b \in Agents, NEW k \in JobIds, running_jobs'[b][k] \in Runs
        PROVE  /\ running_jobs'[b][k] \in DOMAIN runs'
               /\ runs'[running_jobs'[b][k]].agent = b
               /\ runs'[running_jobs'[b][k]].job = k
    BY <1>1, <1>2, <2>1, ExecutorAssumption DEF ExecutorInv, ExecutorTypeOK, Of
  <2> QED
    BY <1>1, <1>2, <2>1 DEF ExecutorInv, ExecutorTypeOK, Of
<1>4. \A s \in DOMAIN runs' : ProcessFits(s)' /\ EntryFits(s)'
  <2> SUFFICES ASSUME NEW s \in DOMAIN runs PROVE ProcessFits(s)' /\ EntryFits(s)'
    BY <1>2
  <2>1. CASE runs[s].agent = a
    BY <1>2, <2>1 DEF ProcessFits, EntryFits
  <2>2. CASE runs[s].agent # a
    BY <1>1, <1>2, <2>2 DEF ExecutorInv, ExecutorTypeOK, ProcessFits, EntryFits, Entry, Run
  <2> QED
    BY <2>1, <2>2
<1>5. \A s, t \in DOMAIN runs' : Working(s)' /\ Working(t)' /\ SameJob(s, t)' => s = t
  <2>1. \A s \in DOMAIN runs : Working(s)' => Working(s)
    BY <1>2 DEF Working
  <2>2. \A s, t \in DOMAIN runs : SameJob(s, t)' => SameJob(s, t)
    BY <1>2 DEF SameJob, Of
  <2> QED
    BY <1>2, <2>1, <2>2 DEF ExecutorInv
<1> QED
  BY <1>3, <1>4, <1>5 DEF ExecutorInv

-----------------------------------------------------------------------------
LEMMA ExecutorNextKeepsInv ==
  ASSUME ExecutorInv, [ExecutorNext]_executorVars
  PROVE  ExecutorInv'
<1>1. CASE UNCHANGED executorVars
  BY <1>1 DEF executorVars, ExecutorInv, ExecutorTypeOK, ProcessFits, EntryFits,
     Entry, Working, SameJob, Of
<1>2. ASSUME NEW a \in Agents, NEW j \in JobIds, execute_async(a, j)
      PROVE  ExecutorInv'
  BY <1>2, ExecuteKeepsInv
<1>3. ASSUME NEW a \in Agents, NEW j \in JobIds, cancel(a, j) PROVE ExecutorInv'
  BY <1>3, CancelKeepsInv
<1>4. ASSUME NEW r \in Runs, ThreadStep(r) PROVE ExecutorInv'
  BY <1>4, LaunchFailsKeepsInv, ForkKeepsInv, RegisterPidKeepsInv,
     OnStartedKeepsInv, WaitKeepsInv, EraseKeepsInv, FinalReportKeepsInv
     DEF ThreadStep
<1>5. ASSUME NEW r \in Runs, Exit(r) PROVE ExecutorInv'
  BY <1>5, ExitKeepsInv
<1>6. ASSUME NEW a \in Agents, AgentDies(a) PROVE ExecutorInv'
  BY <1>6, AgentDiesKeepsInv
<1> QED
  BY <1>1, <1>2, <1>3, <1>4, <1>5, <1>6 DEF ExecutorNext

(* The invariant holds in every state the executor reaches.                *)
THEOREM ExecutorInvariant == ExecutorSpec => []ExecutorInv
BY InitInv, ExecutorNextKeepsInv, PTL DEF ExecutorSpec

(* The map and the runs keep their types, and an entry always names a run  *)
(* of its own agent and job.                                               *)
THEOREM ExecutorTyped == ExecutorSpec => []ExecutorTypeOK
<1>1. ExecutorInv => ExecutorTypeOK
  BY DEF ExecutorInv
<1> QED
  BY <1>1, ExecutorInvariant, PTL

(* execute_async: one agent process never runs a job twice at a time.      *)
THEOREM JobsRunOnce == ExecutorSpec => []OneRunPerJob
<1>1. ExecutorInv => OneRunPerJob
  BY InvImpliesSafety
<1> QED
  BY <1>1, ExecutorInvariant, PTL

(* cancel: the entry of a job names the run it has to reach.               *)
THEOREM CancelFindsTheRun == ExecutorSpec => []CancelReaches
<1>1. ExecutorInv => CancelReaches
  BY InvImpliesSafety
<1> QED
  BY <1>1, ExecutorInvariant, PTL

-----------------------------------------------------------------------------
(***************************************************************************)
(* The executor of job_executor.cpp implements ExclusiveExecution: under   *)
(* ExecutorInv the slot of a job is free exactly when it has no entry, is  *)
(* the one working run of the job while there is one, and is leaked        *)
(* otherwise.  So starting a job begins a run, erasing the entry ends it,  *)
(* reporting a failed launch leaks the slot, the death of an agent frees   *)
(* its slots, and every other step changes no slot.                        *)
(***************************************************************************)

slots == [a \in Agents |-> [j \in JobIds |-> SlotOf(a, j)]]

WorksOn(r, a, j) == r \in DOMAIN runs /\ Working(r) /\ Of(r, a, j)

SlotClaim ==
  \A a \in Agents, j \in JobIds :
    /\ running_jobs[a][j] = NoEntry => SlotOf(a, j) = NoEntry
    /\ \A r \in DOMAIN runs : WorksOn(r, a, j) =>
         running_jobs[a][j] # NoEntry /\ SlotOf(a, j) = r
    /\ running_jobs[a][j] # NoEntry /\ (\A r \in DOMAIN runs : ~WorksOn(r, a, j))
         => SlotOf(a, j) = NoPid

(* What the slot of a job is, without the CHOOSE.                          *)
LEMMA SlotFacts == ExecutorInv => SlotClaim
<1> SUFFICES ASSUME ExecutorInv, NEW a \in Agents, NEW j \in JobIds
             PROVE  /\ running_jobs[a][j] = NoEntry => SlotOf(a, j) = NoEntry
                    /\ \A r \in DOMAIN runs : WorksOn(r, a, j) =>
                         running_jobs[a][j] # NoEntry /\ SlotOf(a, j) = r
                    /\ running_jobs[a][j] # NoEntry
                         /\ (\A r \in DOMAIN runs : ~WorksOn(r, a, j))
                         => SlotOf(a, j) = NoPid
  BY DEF SlotClaim
<1>1. \A r \in DOMAIN runs : runs[r] \in Run
  BY DEF ExecutorInv, ExecutorTypeOK
<1>2. \A r \in DOMAIN runs : Holding(r) <=> Working(r)
  BY <1>1 DEF ExecutorInv, ProcessFits, Holding, Working, Run, ThreadStates
<1>3. ASSUME NEW r \in DOMAIN runs, WorksOn(r, a, j)
      PROVE  running_jobs[a][j] # NoEntry /\ SlotOf(a, j) = r
  <2>1. running_jobs[a][j] # NoEntry
    BY <1>3, ExecutorAssumption
       DEF WorksOn, ExecutorInv, ExecutorTypeOK, EntryFits, Entry, Working, Of, ThreadStates
  <2>2. \A s \in DOMAIN runs : Of(s, a, j) /\ Holding(s) => s = r
    BY <1>2, <1>3 DEF ExecutorInv, WorksOn, SameJob, Of
  <2>3. Of(r, a, j) /\ Holding(r)
    BY <1>2, <1>3 DEF WorksOn
  <2>4. (CHOOSE s \in DOMAIN runs : Of(s, a, j) /\ Holding(s)) = r
    BY <2>2, <2>3
  <2> QED
    BY <2>1, <2>3, <2>4 DEF SlotOf
<1>4. running_jobs[a][j] = NoEntry => SlotOf(a, j) = NoEntry
  BY DEF SlotOf
<1>5. ASSUME running_jobs[a][j] # NoEntry, \A r \in DOMAIN runs : ~WorksOn(r, a, j)
      PROVE  SlotOf(a, j) = NoPid
  BY <1>2, <1>5 DEF SlotOf, WorksOn
<1> QED
  BY <1>3, <1>4, <1>5

(* A slot changes only with the entry being taken or erased, or with the   *)
(* run that works on the job.                                              *)
KeepsSlot(a, j) ==
  /\ running_jobs'[a][j] = NoEntry <=> running_jobs[a][j] = NoEntry
  /\ \A r : WorksOn(r, a, j)' <=> WorksOn(r, a, j)

LEMMA KeptSlots ==
  ASSUME ExecutorInv, ExecutorInv', NEW a \in Agents, NEW j \in JobIds, KeepsSlot(a, j)
  PROVE  SlotOf(a, j)' = SlotOf(a, j)
<1>1. SlotClaim
  BY SlotFacts
<1>2. SlotClaim'
  BY SlotFacts, PTL
<1>3. CASE running_jobs[a][j] = NoEntry
  BY <1>1, <1>2, <1>3 DEF KeepsSlot, SlotClaim
<1>4. ASSUME NEW r, WorksOn(r, a, j) PROVE SlotOf(a, j)' = SlotOf(a, j)
  BY <1>1, <1>2, <1>4 DEF KeepsSlot, SlotClaim, WorksOn
<1>5. CASE running_jobs[a][j] # NoEntry /\ \A r : ~WorksOn(r, a, j)
  BY <1>1, <1>2, <1>5 DEF KeepsSlot, SlotClaim
<1> QED
  BY <1>3, <1>4, <1>5

(* The slots after a step that touches at most one of them.                *)
LEMMA OneSlotChanges ==
  ASSUME NEW a \in Agents, NEW j \in JobIds,
         \A b \in Agents, k \in JobIds :
           b # a \/ k # j => SlotOf(b, k)' = SlotOf(b, k)
  PROVE  slots' = [slots EXCEPT ![a][j] = SlotOf(a, j)']
BY DEF slots

LEMMA NoSlotChanges ==
  ASSUME \A b \in Agents, k \in JobIds : SlotOf(b, k)' = SlotOf(b, k)
  PROVE  slots' = slots
BY DEF slots

-----------------------------------------------------------------------------
(* Steps that leave every slot alone: a thread moves on without erasing    *)
(* its entry or dying, or a process ends.                                  *)
LEMMA QuietStep ==
  ASSUME ExecutorInv, ExecutorInv', NEW r \in DOMAIN runs,
         NEW thread \in ThreadStates, NEW proc \in ProcessStates,
         Moved(r, thread, proc),
         Working(r) <=> thread \notin {"erased", "gone"},
         \A a \in Agents, j \in JobIds :
           running_jobs'[a][j] = NoEntry <=> running_jobs[a][j] = NoEntry
  PROVE  slots' = slots /\ DOMAIN runs' = DOMAIN runs
<1>1. \A s \in DOMAIN runs : Working(s)' <=> Working(s)
  BY DEF Moved, Working
<1>2. ASSUME NEW a \in Agents, NEW j \in JobIds PROVE KeepsSlot(a, j)
  BY <1>1 DEF KeepsSlot, WorksOn, Moved, Of
<1>3. \A a \in Agents, j \in JobIds : SlotOf(a, j)' = SlotOf(a, j)
  BY <1>2, KeptSlots
<1> QED
  BY <1>3, NoSlotChanges DEF Moved

(* Steps that end a run: the slot of its job becomes free or leaked, and   *)
(* every other slot stays as it is.                                        *)
LEMMA EndingStep ==
  ASSUME ExecutorInv, ExecutorInv', NEW r \in DOMAIN runs, Working(r),
         NEW a \in Agents, NEW j \in JobIds, Of(r, a, j),
         NEW thread \in {"erased", "gone"}, NEW proc \in ProcessStates,
         Moved(r, thread, proc),
         \A b \in Agents, k \in JobIds :
           b # a \/ k # j => running_jobs'[b][k] = running_jobs[b][k]
  PROVE  /\ slots[a][j] = r
         /\ slots' = [slots EXCEPT ![a][j] =
                        IF running_jobs'[a][j] = NoEntry THEN NoEntry ELSE NoPid]
         /\ DOMAIN runs' = DOMAIN runs
<1>2. \A s \in DOMAIN runs : s # r => (Working(s)' <=> Working(s))
  BY DEF Moved, Working
<1>3. ~Working(r)'
  BY DEF Moved, Working
<1>4. ASSUME NEW b \in Agents, NEW k \in JobIds, b # a \/ k # j PROVE KeepsSlot(b, k)
  <2>1. ~Of(r, b, k)
    BY <1>4 DEF Of
  <2> QED
    BY <1>2, <1>4, <2>1 DEF KeepsSlot, WorksOn, Moved, Of
<1>5. \A b \in Agents, k \in JobIds : b # a \/ k # j => SlotOf(b, k)' = SlotOf(b, k)
  BY <1>4, KeptSlots
<1>6. SlotClaim /\ SlotClaim'
  BY SlotFacts, PTL
<1>7. SlotOf(a, j) = r
  BY <1>6 DEF SlotClaim, WorksOn
<1>8. \A s \in DOMAIN runs' : ~WorksOn(s, a, j)'
  BY <1>2, <1>3 DEF ExecutorInv, WorksOn, SameJob, Of, Moved
<1>9. SlotOf(a, j)' = IF running_jobs'[a][j] = NoEntry THEN NoEntry ELSE NoPid
  BY <1>6, <1>8 DEF SlotClaim
<1>10. slots' = [slots EXCEPT ![a][j] = SlotOf(a, j)']
  BY <1>5, OneSlotChanges
<1>11. slots[a][j] = r
  BY <1>7 DEF slots
<1> QED
  BY <1>9, <1>10, <1>11 DEF Moved

-----------------------------------------------------------------------------
(* A step of ExclusiveExecution, or none, in terms of the executor.        *)
Quiet == slots' = slots /\ DOMAIN runs' = DOMAIN runs

SlotStep == Quiet \/ Abstract!Next

(* execute_async begins a run, or refuses the job.                         *)
LEMMA ExecuteSimulates ==
  ASSUME ExecutorInv, ExecutorInv', NEW a \in Agents, NEW j \in JobIds, execute_async(a, j)
  PROVE  SlotStep
<1>1. CASE UNCHANGED executorVars
  BY <1>1 DEF executorVars, slots, SlotOf, Holding, Of, SlotStep, Quiet
<1>2. ASSUME running_jobs[a][j] = NoEntry, SetEntry(a, j, NoPid),
             NEW r \in Runs \ DOMAIN runs,
             runs' = Put(runs, r, [agent |-> a, job |-> j,
                                   thread |-> "new", proc |-> "none"])
      PROVE  SlotStep
  <2>1. /\ running_jobs'[a][j] = NoPid
        /\ \A b \in Agents, k \in JobIds :
             b # a \/ k # j => running_jobs'[b][k] = running_jobs[b][k]
    BY <1>2, SetEntryFacts DEF ExecutorInv, ExecutorTypeOK
  <2>2. /\ DOMAIN runs' = DOMAIN runs \cup {r}
        /\ runs'[r] = [agent |-> a, job |-> j, thread |-> "new", proc |-> "none"]
        /\ \A s \in DOMAIN runs : s # r /\ runs'[s] = runs[s]
    BY <1>2 DEF Put
  <2>3. WorksOn(r, a, j)'
    BY <2>2 DEF WorksOn, Working, Of, ThreadStates
  <2>4. ASSUME NEW b \in Agents, NEW k \in JobIds, b # a \/ k # j PROVE KeepsSlot(b, k)
    BY <2>1, <2>2, <2>4 DEF KeepsSlot, WorksOn, Working, Of
  <2>5. SlotClaim /\ SlotClaim'
    BY SlotFacts, PTL
  <2>6. SlotOf(a, j) = NoEntry /\ SlotOf(a, j)' = r
    BY <1>2, <2>2, <2>3, <2>5 DEF SlotClaim
  <2>7. slots' = [slots EXCEPT ![a][j] = r]
    BY <2>4, <2>6, KeptSlots, OneSlotChanges
  <2>8. slots[a][j] = NoEntry
    BY <2>6 DEF slots
  <2>9. Abstract!Begin(a, j)
    BY <2>2, <2>7, <2>8 DEF Abstract!Begin, Abstract!SetSlot, slots
  <2> QED
    BY <2>9 DEF SlotStep, Abstract!Next
<1> QED
  BY <1>1, <1>2 DEF execute_async

(* Erase ends the run of a job; the report of a failed launch leaks the    *)
(* slot, because the entry stays behind.                                   *)
LEMMA EraseSimulates ==
  ASSUME ExecutorInv, ExecutorInv', NEW r \in Runs, Erase(r) PROVE SlotStep
<1>1. /\ ExecutorTypeOK /\ r \in DOMAIN runs /\ Working(r) /\ runs[r] \in Run
  BY DEF ExecutorInv, ExecutorTypeOK, Erase, Advance, ThreadAt, Working, ThreadStates
<1>2. Moved(r, "erased", runs[r].proc)
  BY <1>1, MoveThread DEF Erase, Advance, ThreadStates
<1>3. PICK a \in Agents, j \in JobIds : Of(r, a, j)
  BY <1>1 DEF Run, Of
<1>4. /\ running_jobs'[a][j] = NoEntry
      /\ \A b \in Agents, k \in JobIds :
           b # a \/ k # j => running_jobs'[b][k] = running_jobs[b][k]
  BY <1>1, <1>3, SetEntryFacts DEF ExecutorTypeOK, Erase, Of
<1>5. runs[r].proc \in ProcessStates
  BY <1>1 DEF Run
<1>6. slots[a][j] = r /\ slots' = [slots EXCEPT ![a][j] = NoEntry] /\ DOMAIN runs' = DOMAIN runs
  BY <1>1, <1>2, <1>3, <1>4, <1>5, EndingStep
<1>7. Abstract!End(a, j)
  BY <1>6 DEF Abstract!End, Abstract!SetSlot, slots
<1> QED
  BY <1>7 DEF SlotStep, Abstract!Next

LEMMA OnFailedSimulates ==
  ASSUME ExecutorInv, ExecutorInv', NEW r \in Runs, OnFailed(r) PROVE SlotStep
<1>1. /\ ExecutorTypeOK /\ r \in DOMAIN runs /\ Working(r) /\ runs[r] \in Run
      /\ Entry(r) = NoPid /\ UNCHANGED running_jobs
  BY DEF ExecutorInv, ExecutorTypeOK, EntryFits, OnFailed, Advance, ThreadAt,
         Working, ThreadStates
<1>2. Moved(r, "gone", runs[r].proc)
  BY <1>1, MoveThread DEF OnFailed, Advance, ThreadStates
<1>3. PICK a \in Agents, j \in JobIds : Of(r, a, j)
  BY <1>1 DEF Run, Of
<1>4. running_jobs'[a][j] # NoEntry
  BY <1>1, <1>3, ExecutorAssumption DEF Entry, Of
<1>5. runs[r].proc \in ProcessStates
  BY <1>1 DEF Run
<1>6. slots[a][j] = r /\ slots' = [slots EXCEPT ![a][j] = NoPid] /\ DOMAIN runs' = DOMAIN runs
  BY <1>1, <1>2, <1>3, <1>4, <1>5, EndingStep
<1>7. Abstract!Leak(a, j)
  BY <1>6 DEF Abstract!Leak, Abstract!SetSlot, slots
<1> QED
  BY <1>7 DEF SlotStep, Abstract!Next

-----------------------------------------------------------------------------
(* The steps of a thread that keep its entry, or no longer own one.        *)
LEMMA ThreadIsQuiet ==
  ASSUME ExecutorInv, ExecutorInv', NEW r \in Runs,
         LaunchFails(r) \/ Fork(r) \/ OnStarted(r) \/ Wait(r) \/ OnCompleted(r)
  PROVE  SlotStep
<1>1. ExecutorTypeOK /\ r \in DOMAIN runs /\ runs[r] \in Run /\ UNCHANGED running_jobs
  BY DEF ExecutorInv, ExecutorTypeOK, LaunchFails, Fork, OnStarted, Wait, OnCompleted,
         Advance, ThreadAt
<1>2. runs[r].proc \in ProcessStates /\ "alive" \in ProcessStates /\ "reaped" \in ProcessStates
  BY <1>1 DEF Run, ProcessStates
<1>3. CASE LaunchFails(r)
  <2>1. Moved(r, "failed", runs[r].proc) /\ Working(r)
    BY <1>1, <1>3, MoveThread DEF LaunchFails, Advance, ThreadAt, ThreadStates, Working
  <2> QED
    BY <1>1, <1>2, <2>1, QuietStep DEF ThreadStates, SlotStep, Quiet
<1>4. CASE Fork(r)
  <2>1. Moved(r, "forked", "alive") /\ Working(r)
    BY <1>1, <1>2, <1>4, MoveBoth DEF Fork, ThreadAt, ThreadStates, Working
  <2> QED
    BY <1>1, <1>2, <2>1, QuietStep DEF ThreadStates, SlotStep, Quiet
<1>5. CASE OnStarted(r)
  <2>1. Moved(r, "reading", runs[r].proc) /\ Working(r)
    BY <1>1, <1>5, MoveThread DEF OnStarted, Advance, ThreadAt, ThreadStates, Working
  <2> QED
    BY <1>1, <1>2, <2>1, QuietStep DEF ThreadStates, SlotStep, Quiet
<1>6. CASE Wait(r)
  <2>1. Moved(r, "reaped", "reaped") /\ Working(r)
    BY <1>1, <1>2, <1>6, MoveBoth DEF Wait, ThreadAt, ThreadStates, Working
  <2> QED
    BY <1>1, <1>2, <2>1, QuietStep DEF ThreadStates, SlotStep, Quiet
<1>7. CASE OnCompleted(r)
  <2>1. Moved(r, "gone", runs[r].proc) /\ ~Working(r)
    BY <1>1, <1>7, MoveThread DEF OnCompleted, Advance, ThreadAt, ThreadStates, Working
  <2> QED
    BY <1>1, <1>2, <2>1, QuietStep DEF ThreadStates, SlotStep, Quiet
<1> QED
  BY <1>3, <1>4, <1>5, <1>6, <1>7

(* Storing the pid keeps the slot: the entry was taken before.             *)
LEMMA RegisterPidIsQuiet ==
  ASSUME ExecutorInv, ExecutorInv', NEW r \in Runs, RegisterPid(r) PROVE SlotStep
<1>1. /\ ExecutorTypeOK /\ r \in DOMAIN runs /\ Working(r) /\ runs[r] \in Run
      /\ Entry(r) # NoEntry
  BY ExecutorAssumption
     DEF ExecutorInv, ExecutorTypeOK, EntryFits, RegisterPid, Advance, ThreadAt,
         Working, ThreadStates
<1>2. Moved(r, "registered", runs[r].proc)
  BY <1>1, MoveThread DEF RegisterPid, Advance, ThreadStates
<1>3. SetEntry(runs[r].agent, runs[r].job, r)
  BY <1>1 DEF RegisterPid
<1>4. PICK a \in Agents, j \in JobIds : Of(r, a, j)
  BY <1>1 DEF Run, Of
<1>5. /\ running_jobs'[a][j] = r
      /\ \A b \in Agents, k \in JobIds :
           b # a \/ k # j => running_jobs'[b][k] = running_jobs[b][k]
  BY <1>1, <1>3, <1>4, SetEntryFacts DEF ExecutorTypeOK, Of
<1>6. \A b \in Agents, k \in JobIds :
        running_jobs'[b][k] = NoEntry <=> running_jobs[b][k] = NoEntry
  BY <1>1, <1>4, <1>5, ExecutorAssumption DEF Entry, Of
<1>7. runs[r].proc \in ProcessStates
  BY <1>1 DEF Run
<1> QED
  BY <1>1, <1>2, <1>6, <1>7, QuietStep DEF ThreadStates, SlotStep, Quiet

(* The end of a process, by itself or by SIGTERM, is no end of a run.      *)
LEMMA EndOfProcessIsQuiet ==
  ASSUME ExecutorInv, ExecutorInv', NEW r \in DOMAIN runs,
         runs' = [runs EXCEPT ![r].proc = "zombie"], UNCHANGED running_jobs
  PROVE  SlotStep
<1>1. ExecutorTypeOK /\ runs[r] \in Run /\ "zombie" \in ProcessStates
  BY DEF ExecutorInv, ExecutorTypeOK, ProcessStates
<1>2. Moved(r, runs[r].thread, "zombie")
  BY <1>1, MoveProcess
<1>3. runs[r].thread \in ThreadStates
  BY <1>1 DEF Run
<1>4. Working(r) <=> runs[r].thread \notin {"erased", "gone"}
  BY <1>3 DEF Working
<1> QED
  BY <1>1, <1>2, <1>3, <1>4, QuietStep DEF SlotStep, Quiet

LEMMA StutterIsQuiet == UNCHANGED executorVars => SlotStep
BY DEF executorVars, slots, SlotOf, Holding, Of, SlotStep, Quiet

LEMMA CancelIsQuiet ==
  ASSUME ExecutorInv, ExecutorInv', NEW a \in Agents, NEW j \in JobIds, cancel(a, j)
  PROVE  SlotStep
<1>1. PICK pid : pid = running_jobs[a][j]
  OBVIOUS
<1>2. CASE pid \in Runs /\ runs[pid].proc = "alive"
  <2>1. pid \in DOMAIN runs
    BY <1>1, <1>2 DEF ExecutorInv, ExecutorTypeOK
  <2>2. runs' = [runs EXCEPT ![pid].proc = "zombie"] /\ UNCHANGED running_jobs
    BY <1>1, <1>2 DEF cancel, Signal
  <2> QED
    BY <2>1, <2>2, EndOfProcessIsQuiet
<1>3. CASE ~(pid \in Runs /\ runs[pid].proc = "alive")
  <2>1. UNCHANGED executorVars
    BY <1>1, <1>3 DEF cancel, Signal, executorVars
  <2> QED
    BY <2>1, StutterIsQuiet
<1> QED
  BY <1>2, <1>3

(* The death of an agent frees its slots.                                  *)
LEMMA AgentDiesSimulates ==
  ASSUME ExecutorInv, ExecutorInv', NEW a \in Agents, AgentDies(a) PROVE SlotStep
<1>1. /\ \A k \in JobIds : running_jobs'[a][k] = NoEntry
      /\ \A b \in Agents : b # a => running_jobs'[b] = running_jobs[b]
  BY DEF ExecutorInv, ExecutorTypeOK, AgentDies
<1>2. /\ DOMAIN runs' = DOMAIN runs
      /\ \A s \in DOMAIN runs : runs[s].agent # a => runs'[s] = runs[s]
      /\ \A s \in DOMAIN runs : runs'[s].agent = runs[s].agent
  BY DEF ExecutorInv, ExecutorTypeOK, AgentDies, Run
<1>3. ASSUME NEW b \in Agents, NEW k \in JobIds, b # a
      PROVE  SlotOf(b, k)' = SlotOf(b, k)
  <2>1. KeepsSlot(b, k)
    BY <1>1, <1>2, <1>3 DEF KeepsSlot, WorksOn, Working, Of
  <2> QED
    BY <2>1, KeptSlots
<1>4. \A k \in JobIds : SlotOf(a, k)' = NoEntry
  BY <1>1 DEF SlotOf
<1>5. slots' = [slots EXCEPT ![a] = [k \in JobIds |-> NoEntry]]
  BY <1>3, <1>4 DEF slots
<1>6. Abstract!Restart(a)
  BY <1>2, <1>5 DEF Abstract!Restart, slots
<1> QED
  BY <1>6 DEF SlotStep, Abstract!Next

-----------------------------------------------------------------------------
(* The agents start with every slot free, and every step of the executor   *)
(* is one of ExclusiveExecution, or none.                                  *)
LEMMA InitSimulates == ExecutorInit => Abstract!Init
<1> SUFFICES ASSUME ExecutorInit PROVE Abstract!Init
  OBVIOUS
<1>1. \A a \in Agents, j \in JobIds : SlotOf(a, j) = NoEntry
  BY DEF ExecutorInit, SlotOf
<1>2. DOMAIN runs = {}
  BY DEF ExecutorInit, EmptyTable
<1> QED
  BY <1>1, <1>2 DEF Abstract!Init

LEMMA NextSimulates ==
  ASSUME ExecutorInv, ExecutorInv', [ExecutorNext]_executorVars
  PROVE  [Abstract!Next]_(Abstract!abstractVars)
<1>1. ASSUME NEW a \in Agents, NEW j \in JobIds, execute_async(a, j) \/ cancel(a, j)
      PROVE  SlotStep
  BY <1>1, ExecuteSimulates, CancelIsQuiet
<1>2. ASSUME NEW r \in Runs, ThreadStep(r) PROVE SlotStep
  BY <1>2, ThreadIsQuiet, RegisterPidIsQuiet, EraseSimulates, OnFailedSimulates
     DEF ThreadStep
<1>3. ASSUME NEW r \in Runs, Exit(r) PROVE SlotStep
  BY <1>3, EndOfProcessIsQuiet DEF Exit, Alive
<1>4. ASSUME NEW a \in Agents, AgentDies(a) PROVE SlotStep
  BY <1>4, AgentDiesSimulates
<1>5. SlotStep
  BY <1>1, <1>2, <1>3, <1>4, StutterIsQuiet DEF ExecutorNext
<1> QED
  BY <1>5 DEF SlotStep, Quiet, Abstract!abstractVars, slots

(* The executor implements ExclusiveExecution: whatever is asked of it and *)
(* however its threads interleave, a job has one slot per agent, which a   *)
(* single run takes, and keeps until it has ended or its launch failed.    *)
THEOREM ExecutorIsExclusive == ExecutorSpec => RunsAreExclusive
<1>1. ExecutorInv /\ ExecutorInv' /\ [ExecutorNext]_executorVars
        => [Abstract!Next]_(Abstract!abstractVars)
  BY NextSimulates
<1> QED
  BY <1>1, InitSimulates, ExecutorInvariant, PTL
     DEF ExecutorSpec, RunsAreExclusive, Abstract!Spec
=============================================================================
