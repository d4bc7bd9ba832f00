--------------------------- MODULE SchedulerEngine ---------------------------
(***************************************************************************)
(* The scheduler thread (master/src/scheduler/scheduler_engine.cpp).  One  *)
(* schedule_pass reads the queued jobs, then the nodes, then places the    *)
(* jobs one after the other; it holds no lock in between, so every RPC     *)
(* handler may run between two of its steps.                               *)
(*                                                                         *)
(* The fair-share factor is 1 for every user, because only tests call      *)
(* FairShareManager::add_usage; the sort key is the submitted priority.    *)
(***************************************************************************)
EXTENDS JobManager, NodeRegistry, SequencesExt

CONSTANT Dims                   \* the dimensions of a ResourceSpec

ASSUME SchedulerAssumption ==
  /\ Specs \subseteq [priority: Int, resources: [Dims -> Nat]]
  /\ Resources \subseteq [Dims -> Nat]

VARIABLES
  sched_pc,                     \* where the scheduler thread stands
  pending_jobs,                 \* the jobs read at the start of the pass
  todo,                         \* those the placing loop has not reached
  online_nodes                  \* local copies of the nodes, in table order

schedVars == <<sched_pc, pending_jobs, todo, online_nodes>>
masterVars == <<jobs, nodes, issued, now>>

SchedulerInit ==
  sched_pc = "idle" /\ pending_jobs = {} /\ todo = {} /\ online_nodes = <<>>

EndPass ==
  sched_pc' = "idle" /\ pending_jobs' = {} /\ todo' = {} /\ online_nodes' = <<>>

ReadPendingJobs ==
  /\ sched_pc = "idle"
  /\ get_pending_jobs # {}
  /\ sched_pc' = "nodes"
  /\ pending_jobs' = get_pending_jobs
  /\ todo' = get_pending_jobs
  /\ UNCHANGED online_nodes
  /\ UNCHANGED masterVars

(* One copy per online node: what the registry said and what the pass has  *)
(* left of it.  Their order is that of an unordered_map: any order.        *)
Copies(order) ==
  [i \in DOMAIN order |-> LET r == nodes[order[i]].available
                          IN  [id |-> order[i], read |-> r, free |-> r]]

ReadNodes ==
  /\ sched_pc = "nodes"
  /\ IF OnlineNodes = {}
     THEN EndPass
     ELSE /\ sched_pc' = "place"
          /\ \E order \in SetToSeqs(OnlineNodes) : online_nodes' = Copies(order)
          /\ UNCHANGED <<pending_jobs, todo>>
  /\ UNCHANGED masterVars

(* The comparator of std::sort: higher priority, then older submission.    *)
SortsBefore(a, b) ==
  \/ jobs[a].spec.priority > jobs[b].spec.priority
  \/ /\ jobs[a].spec.priority = jobs[b].spec.priority
     /\ jobs[a].submitted_at < jobs[b].submitted_at

(* Faulty: the vector is not sorted.                                       *)
IsNext_Unsorted(j) == j \in todo

(* Equal jobs come in either order, so the sorted vector is consumed by    *)
(* taking any job that no remaining job sorts before.                      *)
IsNext(j) == j \in todo /\ \A k \in todo : ~SortsBefore(k, j)

Demand(j) == jobs[j].spec.resources

HasRoom(j, i) == \A d \in Dims : Demand(j)[d] <= online_nodes[i].free[d]

(* Faulty: the first node is taken without a look at its room.             *)
FirstFit_Unchecked(j, i) == i = 1 /\ j \in todo

FirstFit(j, i) ==
  /\ i \in DOMAIN online_nodes
  /\ HasRoom(j, i)
  /\ \A k \in DOMAIN online_nodes : k < i => ~HasRoom(j, k)

(* Faulty: nothing is deducted.                                            *)
Deduct_Forgotten(j, i) == FirstFit(j, i) /\ UNCHANGED online_nodes

Deduct(j, i) ==
  online_nodes' = [online_nodes EXCEPT ![i].free =
                     [d \in Dims |-> @[d] - Demand(j)[d]]]

Assign(j, i) ==
  /\ FirstFit(j, i)
  /\ update_job_status(j, "ASSIGNED", online_nodes[i].id)
  /\ Deduct(j, i)

LeaveQueued(j) ==
  /\ \A i \in DOMAIN online_nodes : ~HasRoom(j, i)
  /\ UNCHANGED <<jobs, online_nodes>>

(* One iteration of the placing loop.  The status written is not compared  *)
(* with the one read at the start of the pass.                             *)
PlaceJob(j) ==
  /\ sched_pc = "place"
  /\ IsNext(j)
  /\ LeaveQueued(j) \/ \E i \in DOMAIN online_nodes : Assign(j, i)
  /\ todo' = todo \ {j}
  /\ UNCHANGED <<sched_pc, pending_jobs, nodes, issued, now>>

FinishPass == sched_pc = "place" /\ todo = {} /\ EndPass /\ UNCHANGED masterVars

SchedulerStep ==
  ReadPendingJobs \/ ReadNodes \/ FinishPass \/ \E j \in JobIds : PlaceJob(j)

-----------------------------------------------------------------------------
(* The thread among the other users of the two tables.  Every method of    *)
(* both is called, fail_jobs_on_node, unregister_node and check_timeouts   *)
(* included, which nothing calls today; only reports are tied to what the  *)
(* reporter was given.                                                     *)
JobTableCall ==
  /\ \/ \E j \in JobIds, spec \in Specs : submit_job(j, spec)
     \/ \E j \in JobIds : cancel_job(j) /\ UNCHANGED issued
     \/ \E n \in NodeIds : fail_jobs_on_node(n) /\ UNCHANGED issued
     \/ \E j \in DOMAIN jobs, s \in {"RUNNING", "COMPLETED", "FAILED"} :
          /\ jobs[j].node # NoNode
          /\ update_job_status(j, s, jobs[j].node)
          /\ UNCHANGED issued
  /\ UNCHANGED <<nodes, now>>

NodeTableCall ==
  /\ \/ \E h \in Hosts, total \in Resources, n \in NodeIds : register_node(h, total, n)
     \/ \E n \in NodeIds, r \in Resources : update_heartbeat(n, r) /\ UNCHANGED issued
     \/ \E n \in NodeIds : unregister_node(n) /\ UNCHANGED issued
     \/ check_timeouts /\ UNCHANGED issued
  /\ UNCHANGED <<jobs, now>>

Handlers ==
  JobTableCall \/ NodeTableCall \/ (Tick /\ UNCHANGED <<jobs, nodes, issued>>)

SchedulerInitAll == CommonInit /\ JobManagerInit /\ NodeRegistryInit /\ SchedulerInit

SchedulerNext == SchedulerStep \/ (Handlers /\ UNCHANGED schedVars)

SchedulerSpec == SchedulerInitAll /\ [][SchedulerNext]_<<masterVars, schedVars>>

-----------------------------------------------------------------------------
(* The tables and the locals of the thread keep their types; in particular *)
(* the unsigned subtraction in Deduct never wraps, although it is made on  *)
(* copies that other threads' heartbeats have outdated.                    *)
SchedulerTypeOK ==
  /\ now \in 1..MaxNow
  /\ issued \subseteq JobIds \cup NodeIds
  /\ jobs \in [DOMAIN jobs -> JobInfo] /\ DOMAIN jobs \subseteq JobIds \cap issued
  /\ nodes \in [DOMAIN nodes -> NodeInfo] /\ DOMAIN nodes \subseteq NodeIds \cap issued
  /\ sched_pc \in {"idle", "nodes", "place"}
  /\ todo \subseteq pending_jobs /\ pending_jobs \subseteq DOMAIN jobs
  /\ online_nodes \in Seq([id: NodeIds, read: [Dims -> Nat], free: [Dims -> Nat]])

PlacedOn(i) == {j \in pending_jobs \ todo : jobs[j].node = online_nodes[i].id}

GivenAway(i, d) ==
  SumFunctionOnSet([j \in pending_jobs |-> Demand(j)[d]], PlacedOn(i))

(* Within one pass a node is never given more than its availability as     *)
(* read: for every node and dimension, what is left plus the demands of    *)
(* the jobs of this pass that the job table places there is what was read, *)
(* whatever users and agents do to those jobs meanwhile.                   *)
PassLedger ==
  \A i \in DOMAIN online_nodes, d \in Dims :
    online_nodes[i].read[d] =
      online_nodes[i].free[d] + GivenAway(i, d)

(* A job is placed in a pass only when every job of that pass that sorts   *)
(* before it is placed too or no longer fits on any node: the loop may     *)
(* skip a large job, but never overtakes one it could have placed.         *)
NoPriorityInversion ==
  [][\A j \in todo, k \in pending_jobs :
       /\ j \notin todo' /\ online_nodes' # online_nodes /\ online_nodes' # <<>>
       /\ SortsBefore(k, j)
       /\ jobs[k].node = NoNode
       => \A i \in DOMAIN online_nodes : ~HasRoom(k, i)]_<<masterVars, schedVars>>

(* A job is assigned at most once: the node of a job never changes, and    *)
(* ASSIGNED is entered only by a job that never had a node.  It holds      *)
(* although update_job_status has no guard, because one thread assigns and *)
(* its snapshot holds only jobs that were QUEUED.                          *)
AssignedOnce ==
  [][\A j \in DOMAIN jobs \cap DOMAIN jobs' :
       jobs[j].node # NoNode =>
         /\ jobs'[j].node = jobs[j].node
         /\ jobs'[j].status = "ASSIGNED" => jobs[j].status = "ASSIGNED"]_jobs
=============================================================================
