# CertOS in TLA+

CertOS is a small job cluster. A *master* process keeps a table of jobs and a
table of nodes, and a scheduler thread that assigns queued jobs to nodes. An
*agent* process on every node polls the master for assigned jobs, forks them,
waits for them and reports back. A *gateway* process serves a web front end and
turns REST requests into RPCs to the master. Besides jobs the master keeps user
accounts and *public requests*: anyone may ask for a job to be run, upload an
archive for it, and an administrator reviews the request.

This directory models the control of that program, checks the models with TLC
on small instances, and proves every safety property the passing runs check,
for instances of every size, with TLAPS. `PROJECT.json` maps each definition to the lines it stands
for. Paths below are relative to `src/`.

## Inventory

| Component | State it keeps | Operations | Modelled by |
|---|---|---|---|
| Job manager (`master/src/job_manager.cpp`) | `jobs_`, under one mutex | submit, update_status, cancel, fail_jobs_on_node, list | `JobManager` |
| Node registry (`master/src/node_registry.cpp`) | `nodes_`, under one mutex | register, unregister, heartbeat, check_timeouts | `NodeRegistry` |
| Scheduler engine (`master/src/scheduler/scheduler_engine.cpp`) | locals of one thread, `running_` | `schedule_pass`; start, loop, stop | `SchedulerEngine`; `MasterProcess` |
| Job executor (`agent/src/job_executor.cpp`) | `running_jobs_`, one thread and one process per job | execute_async, cancel, execution_thread | `JobExecutor`, `ExclusiveExecution` |
| Agent daemon, RPC client (`agent/src/agent_daemon.cpp`, `agent_grpc_client.cpp`) | node id, locals of two loops, `running_` | start, heartbeat loop, polling loop, reports, stop | `Cluster`; start and stop in `Processes` |
| Agent service and the job half of the master service (`master/src/grpc_service.cpp`) | none of its own | one handler per RPC | `Cluster`, `JobLifecycle` |
| Request half of the master service | locals of handlers; table `job_requests` | submit, update, review | `JobRequests` |
| Account half of the master service | locals of handlers; key-value table | CreateUser, Login, AdminListUsers | `Accounts` |
| State store (`master/src/state_store.cpp`) | SQLite file, a lock per statement | one statement per method | `JobRequests`, `Accounts` |
| Master server and process (`master/src/master_server.cpp`, `main.cpp`) | owns the above | construct, start, wait, signal, stop, destroy | `MasterProcess`; death and restart in `Cluster`, `AdminService` |
| Agent process (`agent/src/main.cpp`) | the daemon | start, signal, stop | `Processes` |
| Resource manager (`master/src/resource_manager.cpp`) | `capacities_`, under one mutex | set_node_capacity, get_available, allocate, deallocate | `ResourceManager`, `Accounting` |
| Fair share (`master/src/scheduler/fair_share.cpp`) | `user_usage_`, `last_decay_time_`, under one mutex | add_usage, apply_decay, get_priority_factor | `FairShare`, `Accounting` |
| HTTP server of the gateway (`gateway/src/http_server.cpp`) | acceptor, sessions, one io thread | accept, read, handle, write, stop | `Gateway` |
| REST routes, gRPC bridge (`gateway/src/`) | none | route, call, answer | `Gateway` (jobs), `JobRequests` (names in paths) |
| Dashboard, request form (`web/js/user.js`, `request.js`) | rows and buttons on the page | poll, cancel; submit, upload | `Gateway`; `JobRequests` |
| Authentication, metrics, configuration, other pages, scripts | – | – | not modelled, see the end |

How they interact:

- Users reach the master through the gateway: `SubmitJob`, `CancelJob`,
  `GetJobStatus`, the requests and the accounts.
- The scheduler thread reads the queued jobs, then the online nodes, then
  writes one assignment after the other. It holds no lock in between, so every
  RPC handler may run between two of its steps.
- Agents call the master: `RegisterNode` once, `SendHeartbeat` and `FetchJob`
  from two loops, and the three reports from the execution threads. Nothing is
  ever pushed to an agent; a cancellation travels in the answer to a heartbeat.
- Inside an agent the two loops and the execution threads share
  `running_jobs_`.
- All calls are unary and synchronous, without deadline and without retry.
- The gateway runs every handler on one io thread, which is blocked while a
  handler waits for the master.
- Master and agent are stopped from a signal handler that runs on top of the
  main thread and joins the other threads there.
- The two ledgers, of resources and of usage, are constructed by the master and
  asked by nobody but the comparator of the scheduler and the tests.

What is hard, and what makes each component correct:

- *Job table.* No setter of a status looks at the one it replaces, except
  `cancel_job` and `fail_jobs_on_node`. Late reports, cancellations and the
  scheduler write in any order. A job must get one node and keep it, its times
  must fit its status, and a cancellation must be sent for a bounded time.
- *Node table.* Machines register again, come back, are removed. One machine
  must have one id, and an id must never pass to another machine.
- *Scheduler.* It works on outdated copies. A pass must not hand out more of a
  node than it read, must not overtake a job it could have placed, and must not
  assign a job twice.
- *Executor.* Thread, process and map entry are changed at different moments.
  There must be one execution of a job at a time, within reach of `cancel`, and
  every thread must end.
- *Cluster.* Calls get lost or arrive late, agents and the master die and come
  back. A job must run only where it was assigned, no status may be reported
  without its cause, and jobs and cancellations must get somewhere.
- *Requests and accounts.* A handler consists of several statements, each under
  the store's lock, and another handler or the death of the master may come in
  between.
- *Start and stop.* A signal comes at any moment, also before there is anything
  to stop. Whoever stops waits for threads that wait for calls without deadline,
  to a process that may itself be stopping. It must end, and leave nothing
  running that uses what is destroyed.
- *Gateway.* A client may stall, reset its connection or send garbage on the
  thread that serves all others, and the page polls without waiting for its
  earlier answers. The page must be answered, and come to show what is true.
- *Ledgers.* Machines announce capacities again while jobs hold some of them,
  the differences are unsigned, and the clock may be set back.

The list of hazards, each at its line and with the properties that watch it, is
in `PROJECT.json`.

## Modules

```
Tables ── Common ─┬─ JobManager ──┬─ SchedulerEngine ──┐
                  └─ NodeRegistry ┘                    ├─ Cluster ── (implements) JobLifecycle
Tables ── JobExecutor ─────────────────────────────────┘                          │
              └─ (implements) ExclusiveExecution                                  │
JobManager ── JobRequests ─┐                                           Gateway ───┘
Tables ────── Accounts ────┴─ AdminService
Tables ────── ResourceManager ─┐
              FairShare ───────┴─ Accounting
Signals ── MasterProcess ── Processes

MCSchedulerEngine, MCCluster, MCAdminService, MCAccounting, MCProcesses:
    instances for TLC
Arithmetic_proofs ─┬─ SchedulerEngine_proofs ─┐
                   │     JobExecutor_proofs ──┴─ Cluster_proofs
                   └─ Accounting_proofs
AdminService_proofs, Processes_proofs, Gateway_proofs:
    theorems; each extends the module it is named after
```

**Tables, Common.** A map with insertion (`Put`), the clock `now`, and the
identifiers drawn so far. `generate_uuid` draws an id never drawn before;
repetition of the 8 hex digits is outside the models (one mutation of
`submit_job` shows which property would notice).

**JobManager, NodeRegistry.** Every method holds the table's mutex for its whole
body, so every method is one action, with the name it has in the code. A job is
`[status, node, spec, submitted_at, completed_at]`, a node
`[host, status, available, last_heartbeat]`: the fields some branch reads.
A *host* is the pair of hostname and address by which a machine is recognised.
The job rows written to `certosc_jobs.db` are left out; nothing reads them.

**SchedulerEngine.** The pass is cut where the thread enters one of the tables:
`ReadPendingJobs`, `ReadNodes`, one `PlaceJob` per iteration, `FinishPass`.
Equal jobs are sorted in either order and nodes come in any order, as
`std::sort` and `std::unordered_map` allow. `SchedulerNext` puts the thread among
all other users of the two tables, including the three methods that nothing in
the program calls today (`fail_jobs_on_node`, `unregister_node`,
`check_timeouts`): this is the contract of the tables, not of one deployment.

**JobExecutor.** A *run* is an execution thread with the process it forks, and
doubles as the pid. Thread states follow `execution_thread`: new, forked,
registered (pid stored), reading (start reported, reading the pipe), reaped,
erased, gone; or new, failed, gone. A process is alive, then a zombie, then
reaped; SIGTERM to a collected pid is lost. When the agent dies its threads and
its map are gone and its processes live on.

**ExclusiveExecution.** What the executor promises: one slot per agent and job;
a run takes a free slot and gives it back, or leaves it unusable (a failed
launch does). `JobExecutor` implements it; the refinement mapping is `SlotOf`.

**Cluster.** Master, agents and network. A handler is one step, two where it
takes two locks (`SendHeartbeat`, `AnswerHeartbeat`). Where the caller uses the
answer, receiving it is a step of its own; the answers to the three reports are
ignored, so handler and caller advance together, and a call that fails for the
agent is lost or sits in `late` and is handled at any later time. `KillAgent`
may leave the reports of its threads in `late`. `RestartMaster` empties both
tables and keeps the agents, which never register again. Agents register under
`HostOf`, which every run sets to one host for all, because
`agent_daemon.cpp:42` passes the constants `"agent-host"` and `"127.0.0.1"`.

**JobLifecycle.** What somebody sees who follows a job through `GetJobStatus`
and the list of jobs: queued once, one node at most and for good, moved by
reports of that node only, all jobs lost together when the master restarts.
Terminal statuses are *not* final in it, because they are not in the program.

**JobRequests, Accounts, AdminService.** The two halves over one database
file, statement by statement: an update or a review of a request reads the row
and writes the whole row back steps later; an approval submits the job in
between; `CreateUser` is a check, three writes and a read. A request id is a
sequence of symbols, because the routes of the gateway cut the name out of a
path by constant offsets, and `NameIn` does what they do. A restart empties the
job table, keeps the file, and writes the built-in accounts and the user list
over what the file holds.

Two conversions of the account half are modelled by what they do, because whom
`AdminListUsers` names depends on them. Key and value become part of the text of
a statement, so a name or a password with an apostrophe makes it fail, which
nobody notices: `Quoted` are the names with one, `SetPassword` may fail for any
name, and the history `unsaved` keeps whose password was not stored. The list
of users is one text: names are appended behind commas, searched for as a part
of it (`Occurs`, an input of the model), and cut out at every comma (`Pieces`).
A name is therefore the sequence of its pieces, nearly always of one.

**ResourceManager, FairShare, Accounting.** The two ledgers of the master,
method by method. Nothing in the program calls them but the tests and, for the
factor, the scheduler; `ResourceManager` therefore comes with the callers its
methods are written for, who give back once what they were granted, while
machines announce larger and smaller capacities. Fields of a `ResourceSpec` are
unsigned, so `Available` is a difference modulo `Modulus`; the variable `lowered`
remembers the nodes that were ever set below what was taken from them, where the
difference wraps. In `FairShare` the clock counts half lives and usage counts
units that can be halved as often as the clock allows, so the arithmetic is
exact; factors are a table `Penalty`, in hundredths. `charged` remembers what was
charged and when.

**Signals, MasterProcess, Processes.** `Signals` has what `signal` and the log
give both programs. A handler runs on top of a thread, which stands still. Its
own number is masked in that thread only: the other number may interrupt the
handler, and the same number goes to another thread, that is the scheduler, a
loop, or a thread of the rpc library (`pool`). The mutex of the log is not
recursive; a handler that interrupts a line of the log may leave it held for
good (`log_held`). Two histories remember what the exceptions of the properties
need: `early`, a signal came while the process started, and `overlapped`, one
came while another handler ran.

`MasterProcess` is the master as a process: `pc["master"]` follows `main` through
construction, start, wait, stop and destruction, and handlers call the same
`stop`, so two of them and main may share its work. A thread runs before the
member that holds it can be joined (`SpawnScheduler`, `AssignScheduler`; `Spawn`
and `Assign` in the agent). A thread that joins itself, two that join the same
one, and a use of destroyed members end the process (`aborted`). `Processes` adds
agents with a main thread, handlers and two loops, and makes their calls the
calls the master handles, so that stopping one side can wait for the other.

**Gateway.** The io thread takes completed operations from a queue and runs
their handlers, one at a time; a handler that calls the master ends with the
master's answer. A request for a file of the pages is answered, or the lookup throws,
which ends the process because that branch is outside the `try`
(`LookupThrows`), or the file is never read to its end (`Blocked`). The kernel,
the page and other clients are the environment. What
becomes of jobs meanwhile is `JobLifecycle`, which `Cluster` is proved to
implement: `submit_job` and `cancel_job` are its steps `Submit` and `Cancel`, and
its other steps happen beside. `Row` is what `user.js` shows for a status.

Operators marked *Faulty* in a module are not part of the model. Each is a
plausible mistake in the definition that follows it, and replaces that
definition to show that a property would notice (`mutants` in `PROJECT.json`).

## Runs

| Run | Question | Distinct states |
|---|---|---|
| `master` | Do the tables and the scheduler keep their promises under every order of calls? | 828 432 |
| `executor` | Are executions exclusive, within reach of cancel, and do they end? | 161 173 |
| `cluster_deaths` | Do they keep to assignments and to the life cycle under loss, delay and death? | 579 415 |
| `cluster_progress` | Do jobs finish and are cancellations decided? | 8 114 |
| `admin` | Do requests, approvals and accounts stay consistent between statements, failing ones included, and over restarts? | 1 226 018 |
| `accounting` | Do the ledgers balance whatever is announced, returned, charged, and whatever the clock does? | 138 897 |
| `processes` | Does stopping end, and leave nothing behind that is still in use, wherever signals meet? | 212 382 |
| `gateway` | Is the page answered, does it come to show the truth, can the gateway be stopped? | 319 227 |
| `refute_*` (four) | Statements of comments and scripts that the program does not keep | – |

What the passing runs show:

- `master`: `PassLedger` (what a pass has left of a node plus what the table
  says it placed there is what it read, whatever users and agents do to those
  jobs meanwhile), `NoPriorityInversion`, `AssignedOnce`, `StampsAgree`,
  `CancelWindowIsNotReopened`, `OneIdPerMachine`, `IdsAreNotReused`,
  `OfflineMeansSilent`, and in the type invariant that the unsigned subtraction
  of the pass does not wrap. Two jobs, an urgent large one and a small one,
  and two machines that hold the small one or both, so that jobs queue, are
  skipped, are placed together and are re-read by a second pass. Two points in
  time are enough for a job to be older than another, for a node to be silent
  too long (with a timeout of zero) and for the window of a cancellation to
  close.
- `executor`: two agents, two jobs, three runs. Two runs of one job are the
  collision; the third lets another job or the other agent take part.
  `RunsAreExclusive` is the refinement of `ExclusiveExecution`.
- `cluster_deaths`: one job, two agents, three node ids, two runs, lost and late
  calls, two deaths. Two deaths cover an agent dying twice, both agents dying,
  the master dying twice, and one of each in either order; with a restarted
  master an agent that kept its old id meets one with a new id. Time stands
  still here, so every cancellation is still being sent; closing the window only
  takes orders away, and the run `master` covers it. `RunsWhereAssigned`
  and `StatusHasCause` (a job is FAILED only after the thread of a run that never
  had a process came to its end) are stated for the cluster, and
  `FollowsLifecycle`, the refinement of `JobLifecycle`, includes that a job gets
  one node at most.
- `cluster_progress`: one agent, no losses, two runs, so a job can be handed
  over, ended, and handed over once more. `JobsFinish` says that a submitted job
  reaches a terminal status and stays there, if its processes end;
  `CancelIsDecided` that, inside the window, a living process of a cancelled
  job is killed unless a late report overwrites the status first. The bound on
  time leaves the window open.
- `admin`: one request, two callers that update or review it, or two that create
  accounts, two handlers under way at a time, two restarts. Two handlers are
  what a lost update takes. `ApprovedMeansSubmitted`: an approval is stored only
  while its job is in the table, also when the writer is an update that read
  somebody else's approval. The names include one that is part of another, one
  with a comma and one with an apostrophe. `ListedUsersExist`: whoever is listed
  has a role, and a password unless the statement that was to store it failed;
  only a name cut out of a listed one at a comma may have neither.
- `accounting`: three jobs on two machines with two kinds of resource, and two
  users who are charged one or two years. `LedgerBalances`: what a node shows as
  allocated is the sum of the grants that are out, through new announcements.
  `NoOvercommit`: no dimension is overdrawn. Both are about nodes never lowered
  below what was taken; about the others they are false. `UsageIsAgedOnce` compares the
  account with a reference definition, each charge halved once per half life
  since it was entered; `GrowsByCharges` covers a clock that is set back.
  `OrderIsWeak`: `std::sort` may be given the comparator while nobody has usage.
- `processes`: one master, one agent, and two signals, both to the master, both to
  the agent, or one to each. `ServingMasterEnds` and `AgentStopReturns`: stopping
  comes to an end in either order, with calls under way, unless two handlers ran
  at a time in the process or a line of the log was interrupted there (for the
  agent also: unless the master cannot answer for these reasons).
  `DestroysNothingInUse`: no call and no server is left when the master destroys
  its parts, whatever signals came, and the scheduler thread is joined unless a
  signal came while the master started or while a handler ran.
  `StoppedAgentIsQuiet`: once its handlers have returned no loop of a stopped
  agent is in a call, with the same two exceptions; for the agent, starting
  means the moment between the start of a thread and the assignment that makes
  it joinable. The program needs each of the exceptions: without it TLC finds a
  counterexample (see "Observed while reading").
- `gateway`: two polls that overlap, one other client that stalls, resets,
  sends garbage, submits and cancels, one failed call, and a job that may be
  queued, cancelled, or lost with the master. A request of the other client may be
  one for a file that is found, makes the lookup throw, or is never read to its
  end. `EveryPollIsAnswered`,
  `ViewConverges` (every row comes to show a status that lasts) and
  `StopReturns` hold unless the process ended by an exception or its only thread
  is held by such a file.

What the refuted statements show. Each run finds the shortest behaviour:

| Run | Statement | What the program does |
|---|---|---|
| `refute_cancelled_killed` | `job_manager.cpp:116` "the node heartbeat will see it and kill it" | the report of the start, arriving after the cancellation, sets RUNNING again |
| `refute_one_agent` | `run_cluster.sh:39` "Starting certosc-agent (Node 2)" | both agents register as the same machine, share a node id and both run its jobs |
| `refute_review_kept` | `grpc_service.cpp:210` "Update fields that are set" | an update writes back the status it read before a review |
| `refute_routes` | `rest_routes.cpp:118` "length of ..." | the offsets cut the wrong name, so uploads and reviews made through the gateway find nothing |

### Bounds

`MaxNow` caps the clock, `MaxDeaths`/`MaxRestarts` the deaths of processes,
`MaxCalls` the handlers of the administration half under way, `Mixed` whether
one behaviour changes both of its halves, and the sets
`JobIds`, `NodeIds`, `Runs` the identifiers that can be drawn. A job handed over
when all runs are used is not executed; the mutations of the executor and
the refutations above all need two runs. Symmetry is declared for
identifiers, agents (all registered alike), machines and callers, and only
in runs without liveness.

In `accounting`, fields have two bits (`Modulus` 4): the largest total is 3, and
a lowered capacity wraps. `MaxCharges` bounds the sum of all charges to three
years, and `MaxNow` is two half lives, so an amount is aged twice at different
times, and charges of different age meet in one account. In `processes`,
`Signalled` are the sets of handler calls that may have come, two at most, and
`NumbersOf` lets the first one be for SIGINT, since one handler serves both
numbers: one signal to stop, and one on top of whatever the first has left,
beside it, or to the other process.One
agent has three threads that may be in a call, which is what draining waits
for; the proofs cover any number of agents. In `gateway`, `Visited` leaves out the
statuses between queued and cancelled, which only agents bring about: for the
page they are further values of the same kind, and the job keeps one that
appears, one that ends, and one that disappears. `MaxFailures` bounds failed
calls to one, which is one lost answer among two polls.

In `admin` a behaviour changes the requests or the accounts (`Mixed` is FALSE):
the halves share no table and no handler, only the restart, which may come at
any moment of either. The six names are two built-in ones, one that is part of
one of these, and the three kinds of names a client may choose.

### Fairness

`FairExecutorSpec`: execution threads are scheduled, and every job process ends
some day. The first is what the operating system gives a thread, the second is
an assumption about jobs, without which `waitpid` may wait for ever.

`ProgressSpec` assumes, by weak fairness, that the clock goes on, that the
scheduler thread runs, and that the two loops and the execution threads of a
running agent run: all of them are plain loops with a sleep, and no lock is held
across a call or a wait. `FairSpec` adds that somebody starts an agent that is
not running, as the script does. It does *not* assume that processes end:
`JobsFinish` has that as its hypothesis, and `CancelIsDecided` must get by
without. No fairness is assumed of users, of deaths, or of the network beyond
that a run without losses has none.

`ProcessSpec`: main threads and handlers are scheduled; the scheduler thread and
the loops, which write to the log, only while the log of their process can be
had; the threads that handle calls only while the master is `Responsive`, its log
free and none of these threads interrupted by a handler. A call to a master that
does not listen, or is gone, fails. Nobody has to send a signal.
`GatewaySpec`: the kernel hands over connections, the io thread runs,
the master answers or the call fails, and the page sends, receives and polls.
Other clients owe nothing, not even the rest of a request.

Deadlock is checked everywhere except in `processes` and `gateway`, whose
programs end for good after a stop.

## Proofs

Eight modules are checked by tlapm to the last leaf. They hold for any sets of
jobs, nodes, agents, runs, callers, users, requests and connections, any amounts
and any bounds, under the named assumptions of the modules only. The assumptions
say that the markers (`NoEntry`, `NoPid`, `NoJob`, `NoArchive`) are no ids, that
bounds are numbers, that amounts are in the range of their fields, and of
`FairShare` that charges are whole multiples of what can be halved `MaxNow` times.

Few of the properties are inductive as they stand; each module states the
invariant that is, and proves it action by action.

**Arithmetic_proofs.** What the balances need of `SumFunctionOnSet` and of
powers of two. The sum is a recursive function on the subsets of a set, which
takes out one `CHOOSE`n element after the other. Its equation, its type and its
independence of the order are proved by the smallest exception: the subsets of a
finite set are well-founded under inclusion (`FS_StrictSubsetOrderingWellFounded`,
`WFMin`), so a set of subsets where the claim fails has a minimal member, from
which one element is taken. This is induction without a predicate as a
parameter, which the provers could not instantiate. That `2^(n+1)` is twice
`2^n` follows from counting subsets (`FS_SUBSET`).

**JobExecutor_proofs** (`ExecutorTyped`, `JobsRunOnce`, `CancelFindsTheRun`,
`ExecutorIsExclusive`). Erasing an entry would break `CancelReaches` for another
run of the same job, so that needs `OneRunPerJob`; starting a job keeps
`OneRunPerJob` only because a thread that has not erased its entry still *has*
one, which holds its pid or waits for it (`EntryFits`); and the entry may be
taken again after the erasure only because the process was collected before
(`ProcessFits`). `ExecutorInv` is the conjunction of these. Steps that move one
run and leave the map alone share the lemma `MoveKeepsInv`. For the refinement,
a slot is exactly the working run of the job, `NoEntry`, or the leak after a
failed launch (`CHOOSE` in `SlotOf` is resolved by the uniqueness of that run);
each action is then `Begin`, `End`, `Leak`, `Restart` or a stutter.

**SchedulerEngine_proofs** (types, `StampsAgree`, `OneIdPerMachine`,
`OfflineMeansSilent`, `IdsAreNotReused`, `AssignedOnce`,
`CancelWindowIsNotReopened`, `NoPriorityInversion`, `PassLedger`). The tables are
invariants of their own methods (`JobsInv`, `NodesInv`). The scheduler works on
old copies, so the rest is `PassInv`: a job the thread has still to place never
had a node, because a node is only ever given by the thread itself and a job
without one is queued or cancelled; and a job it has passed over while it had no
node fits on no node of the pass any more, because what is left of a node only
shrinks. What the calls of users and agents may do in between is summed up once,
in `JobsKept` and `NodesKept`. `PassLedger` needs of the calls that a job keeps
its node and its demand, and of the thread that its copies are of different
nodes (`DistinctCopies`): otherwise one placed job would be added to two sums
and deducted once. With finitely many jobs (`LedgerInv`) a placement moves one
summand.

**Cluster_proofs** (types, `RunsWhereAssigned`, `StatusHasCause`,
and `FollowsLifecycle`, the refinement of `JobLifecycle`). Every
step of the cluster but the restart of the master is a step of the scheduler's
specification and one of the executor's, so both invariants carry over. What is
new is `AgentInv`: whatever an agent holds for a job, an answer, a run or a report
under way, it got under the node id it has, and the job has that node or is
unknown to a restarted master; and a report under way has its cause, which
later steps do not undo. For the refinement, `JobsMove` lists all a step may do
to the job table, and each case is an action of `JobLifecycle` or a stutter.
The last section composes: `StepIsExecuted` and `StepIsScheduled` map each step
of the cluster to one of a component, using `AgentInv` to see that a report is
a call the scheduler's specification has. So what the components promise alone
holds inside the cluster, where no run checks it: `RunsAreExclusive`,
`OneRunPerJob`, `CancelReaches`, `PassLedger`, `NoPriorityInversion` and the
promises of the tables, through lost and late reports, deaths of agents, and a
master that dies in the middle of a pass.

**AdminService_proofs** (types, `ListedUsersExist`, `StatusStoredTwice`,
`ApprovedMeansSubmitted`). `CreationsInv` says what each statement of `CreateUser`
may rely on from the statements before it, any of which may have failed: who is
about to be listed has a role, because a name whose statements fail does not get
into the list either (`Backed`), and a password or an entry in `unsaved`. Nothing is
assumed of `Occurs`. For approvals the danger is an
update that writes back an approval it read, after the job was lost in a
restart. `NoLateApproval` excludes it: while the job table holds no job of a
request, its row and the copies under way are never pending in one place and
approved in another, so a late write repeats an approval or finds the job.

**Processes_proofs** (types, `DestroysNothingInUse`, `StoppedAgentIsQuiet`).
`SignalInv` says that a process in which no signal met a handler has one handler at
a time, on top of its main thread. For such a process, if the signal did not
come while it started either, `ThreadInv` says where the scheduler thread is for
every place main and the handler can be at, and `AgentInv` which loops the handler
of an agent has still to wait for, and that the others have ended. `ServerInv`,
that whoever leaves the server behind has drained it, needs no such condition:
signals may meet in any way. All of it holds for any number of agents and
handlers, and whatever the bounds `Signalled` and `NumbersOf` are.

**Accounting_proofs** (types, `NoOvercommit`, `LedgerBalances`,
`UsageIsAgedOnce`, `GrowsByCharges`, `OrderIsWeak`). A grant does not wrap
because a total is one that was announced and so less than `Modulus`
(`LedgerInv`). The balance needs that, and that finitely many grants are out
(`BalanceInv`): a grant or a return is one summand of the sum over the holders
of that node, and no other sum changes. For usage, amounts are whole multiples
of a power of two, so that halving is exact and distributes over the sum
(`FairInv`); an account is then changed summand by summand by a decay, and its
sum grows by what is added. `OrderIsWeak` is proved from the factor of a user
without usage, for any priorities.

**Gateway_proofs** (`GatewayInvariant`, `GatewayTyped`). The io queue and the
backlog are sequences without repetition; what matters of them is which
operations of a connection they hold, `Ops(c)`. `PlaceOK` says what that may be
for each place of the connection: one in the backlog has no operation, one with
an accept, a read or a write has no other and no handler, and one that has sent
its request is in the queue or in the call. `OneAccept` says that `do_accept` is
under way, queued or being handled, exactly once, and `OneCall` that one handler is in
a call. An action moves one connection and leaves the places of the others
(`OthersStay`, `Moves`), so each is proved for the one it moves. The module also
proves that what reaches the master through the gateway is a step of
`JobLifecycle` (`GatewayFollowsLifecycle`).

Only model-checked: all liveness (`EveryRunEnds`, `JobsFinish`,
`CancelIsDecided`, `ServingMasterEnds`, `AgentStopReturns`,
`EveryPollIsAnswered`, `ViewConverges`, `StopReturns`), which needs fairness and
ENABLED, and the refuted statements, which are false.

## Not modelled, and why

- *Authentication.* The interceptor lets every call proceed, `Login` hands out a
  text that is not a token of `JwtManager`, and nothing asks the role manager:
  none of it influences a state.
- *Metrics, configuration, logging, the contents of static files, the
  administration and login pages, installer and scripts.* Stateless input and output, or display. The
  parameters a configuration would set are constants of the models. Of the log
  only its mutex is modelled, where a handler meets it; other functions a handler
  may not interrupt, those that allocate memory first, are left out.
- *Websocket.* The handler is a stub nobody constructs; an upgrade request is
  dropped, which `Gateway` has.
- *Failing disks.* A statement that fails because of its text is modelled for the
  accounts, where nobody notices; one that fails because the disk is full or the
  file locked is left out.
- *More than one signal to the gateway.* Two handlers at a time would meet there as
  they do in the master.
- *Reuse of pids*: a signal to a collected pid is lost in the model; between
  `waitpid` and the erasure it could meet a stranger.
- *Pipes in foreign hands.* The pipe of a job is opened without close-on-exec
  (`job_executor.cpp:70`), so a process forked for another job in between keeps a
  write end open, and the thread of the first reads on until that process ends too.
  In the models a pipe ends with its process.
- *A clock that is set back* is in the model of the usage only; for the times of jobs
  and nodes `now_unix` is taken as monotone.
- *Limits of the operating system*: descriptors, threads and memory that run
  out, other than a failing `pipe` or `fork`.
- *Callers of the two ledgers.* The program has none, so nothing connects them
  with jobs; `Accounting` has the callers the methods are written for.

Observed while reading, and not the subject of a run:

- When `pipe` or `fork` fails, the entry of the job stays: the agent answers
  "Already running" (`job_executor.cpp:45`) for it for good.
- A poll before the report of the start executes the job a second time after the
  first has ended, although `grpc_service.cpp:338` says it is not dispatched again.
- Nothing calls `check_timeouts`, which `node_registry.h:23` says is called
  periodically: a dead node stays ONLINE and goes on being given jobs.
- Agent and gateway survive SIGTERM: their handler stops the threads, and `main`
  sleeps on in an endless loop. An agent in that state neither polls nor ends; a
  gateway keeps its port.
- A signal while the master starts is lost, or stops a scheduler that has just
  started and leaves the server running without it.
- `signal` masks a number only in the thread that handles it, so two signals can be
  handled at a time. The second handler in `stop` finds `running_` false and skips
  the join (`scheduler_engine.cpp:24`); the master may then be destroyed while the
  first one still joins, and an agent's `stop` returns while a loop is in a call.
  Two handlers may join one thread, or a handler the thread it runs on, which ends
  the process. A handler that interrupts a line of the log waits for its own
  thread. These are the exceptions `overlapped` and `log_held` of the properties.
- The agent starts a thread before the member that holds it can be joined
  (`agent_daemon.cpp:51`); a handler in between finds nothing to join and returns.
  This is the exception `early`.
- Static files are served before the `try` of the routes (`rest_routes.cpp:24`): a
  lookup that throws ends the gateway, and a file that is never read to its end
  holds its only thread.
- `CreateUser` ignores whether its statements succeed (`grpc_service.cpp:39`): with a
  password that has an apostrophe, role and list are written and the password is
  not. A name with a comma is listed as several (`grpc_service.cpp:49`, `:68`), and
  a name that is part of a listed one is not listed at all.
- Two reviews may both find a request pending and both submit its job; an update
  that writes the old status back opens it for another approval.
- A cancellation between the reading of the queue and the assignment is overwritten
  (`scheduler_engine.cpp:91`).
- An answer to an unreadable request on a connection that was reset makes the
  throwing `shutdown` at `http_server.cpp:55` end the gateway.
- A capacity lowered below what is allocated makes the difference at
  `resource_manager.cpp:21` wrap, so every request fits.
- From about a year of usage the comparator of the scheduler is no strict weak
  order: two priorities that are nearly equal to a third differ from each other.
  Negative priorities invert the penalty, and jobs submitted through the web have
  priority 0, on which no factor has an effect.
- Usage is aged by the whole time since the last decay, so usage that is added
  after an idle time is aged for it too.
- The dashboards name status codes by an enumeration that is shifted against
  `common.proto` (`web/js/user.js:79`, `web/js/admin.js:148`): a queued job is
  shown as running, an assigned one as completed, and the button to cancel is
  offered for queued jobs only. `Row` in `Gateway` shows it so.
- `admin.html` has no element `requests-list`, so `web/js/admin.js:266` fails and
  the page lists no requests.
- `AdminDeleteUser` answers "User deleted" and deletes nothing.
- Two `CreateUser` calls for one new name may both succeed, with the password of
  one and the role of the other. The user list is written anew at every start of
  the master.
- A job that was killed or ended with an exit code is reported as completed.
- A lost report of the end leaves a job RUNNING for ever, and an agent that
  outlives the master keeps an id the new master does not know: it is refused,
  only logs it and never registers again.
- Nothing is deducted across passes, and heartbeats report 4 cores and 8192 MB
  whatever was announced.

## Plan

Done, in this order: job and node table with the scheduler; the executor and its
abstract specification; the cluster and the life cycle; requests and accounts;
the two ledgers; start and stop of master and agent; the gateway over the life
cycle; the proofs about the executor, the ledgers, the processes, the
administration, the scheduler and the cluster, with both refinements; the sums,
and with them the balances of a pass, of the resources and of the usage; the
places of connections in the gateway; the components inside the cluster.

What could be added:

1. Bounds that follow from the balances: how far a node can be over-committed
   over several passes, given what heartbeats report.
2. The administration page as a second view over `JobRequests`, once its list of
   requests is shown (`web/js/admin.js:266`).
3. The ledgers inside the scheduler, when the program calls them.
