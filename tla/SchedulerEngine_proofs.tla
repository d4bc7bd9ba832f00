----------------------- MODULE SchedulerEngine_proofs -----------------------
(***************************************************************************)
(* For any jobs, machines, amounts and timeouts: the tables keep their     *)
(* types and agree with the clock, a job is assigned once, and a pass that *)
(* runs between the calls of users and agents keeps the order it sorted.   *)
(*                                                                         *)
(* The tables are invariants of their own methods (JobsInv, NodesInv).     *)
(* What the thread holds across its steps is PassInv: a job it has still   *)
(* to place never had a node, and a job it has passed over fits on no node *)
(* of the pass any more.                                                   *)
(***************************************************************************)
EXTENDS SchedulerEngine, Arithmetic_proofs

ClockInv == now \in Nat \ {0} /\ now <= MaxNow

JobsInv ==
  /\ jobs \in [DOMAIN jobs -> JobInfo]
  /\ DOMAIN jobs \subseteq JobIds \cap issued
  /\ \A j \in DOMAIN jobs :
       /\ jobs[j].submitted_at <= now
       /\ jobs[j].node = NoNode => jobs[j].status \in {"QUEUED", "CANCELLED"}
  /\ StampsAgree

NodesInv ==
  /\ nodes \in [DOMAIN nodes -> NodeInfo]
  /\ DOMAIN nodes \subseteq NodeIds \cap issued /\ IsFiniteSet(DOMAIN nodes)
  /\ OneIdPerMachine /\ OfflineMeansSilent

Copied == [id: NodeIds, read: [Dims -> Nat], free: [Dims -> Nat]]

PassTyped ==
  /\ sched_pc \in {"idle", "nodes", "place"}
  /\ todo \subseteq pending_jobs /\ pending_jobs \subseteq DOMAIN jobs
  /\ online_nodes \in Seq(Copied)

PassInv ==
  /\ PassTyped
  /\ \A j \in todo : jobs[j].node = NoNode
  /\ sched_pc # "place" => todo = pending_jobs
  /\ \A k \in pending_jobs \ todo :
       jobs[k].node = NoNode => \A i \in DOMAIN online_nodes : ~HasRoom(k, i)

SchedulerInv ==
  ClockInv /\ issued \subseteq JobIds \cup NodeIds /\ JobsInv /\ NodesInv /\ PassInv

-----------------------------------------------------------------------------
(* What every method of the job table leaves: entries, their nodes once    *)
(* they have one, and their specifications.                                *)
JobsKept ==
  /\ DOMAIN jobs \subseteq DOMAIN jobs'
  /\ \A j \in DOMAIN jobs :
       /\ jobs'[j].spec = jobs[j].spec
       /\ jobs[j].node # NoNode => jobs'[j].node = jobs[j].node
       /\ jobs[j].node # NoNode /\ jobs'[j].status = "ASSIGNED" => jobs[j].status = "ASSIGNED"
       /\ jobs[j].status = "CANCELLED" /\ jobs'[j].status = "CANCELLED" =>
            jobs'[j].completed_at = jobs[j].completed_at

NodesKept ==
  \A j \in DOMAIN jobs : jobs[j].node = NoNode => jobs'[j].node = NoNode

LEMMA SubmitKeeps ==
  ASSUME ClockInv, JobsInv, UNCHANGED now, NEW j \in JobIds, NEW spec \in Specs,
         submit_job(j, spec)
  PROVE  JobsInv' /\ JobsKept /\ NodesKept /\ issued' = issued \cup {j}
<1> DEFINE info == [status |-> "QUEUED", node |-> NoNode, spec |-> spec,
                    submitted_at |-> now, completed_at |-> 0]
<1>1. info \in JobInfo
  BY DEF JobInfo, JobStatus, ClockInv
<1>2. /\ DOMAIN jobs' = DOMAIN jobs \cup {j} /\ issued' = issued \cup {j}
      /\ \A k \in DOMAIN jobs' : jobs'[k] = IF k = j THEN info ELSE jobs[k]
      /\ j \notin DOMAIN jobs
      /\ jobs' = [k \in DOMAIN jobs' |-> jobs'[k]]
  BY DEF submit_job, Fresh, Put, JobsInv
<1>3. /\ info.status = "QUEUED" /\ info.node = NoNode /\ info.submitted_at = now
      /\ info.completed_at = 0
  OBVIOUS
<1> HIDE DEF info
<1>4. jobs' \in [DOMAIN jobs' -> JobInfo]
  BY <1>1, <1>2 DEF JobsInv
<1>5. /\ StampsAgree'
      /\ \A k \in DOMAIN jobs' :
           /\ jobs'[k].submitted_at <= now
           /\ jobs'[k].node = NoNode => jobs'[k].status \in {"QUEUED", "CANCELLED"}
  BY <1>2, <1>3 DEF JobsInv, StampsAgree, ClockInv, Terminal
<1> QED
  BY <1>2, <1>4, <1>5 DEF JobsInv, JobsKept, NodesKept

(* The methods that change entries and add none.                           *)
LEMMA ChangeKeeps ==
  ASSUME ClockInv, JobsInv, UNCHANGED <<now, issued>>, DOMAIN jobs' = DOMAIN jobs,
         jobs' \in [DOMAIN jobs -> JobInfo],
         \A j \in DOMAIN jobs :
           \/ jobs'[j] = jobs[j]
           \/ /\ jobs'[j].status # "QUEUED"
              /\ jobs'[j].submitted_at = jobs[j].submitted_at
              /\ jobs'[j].status \in Terminal => jobs'[j].completed_at = now
              /\ jobs'[j].node = NoNode => jobs'[j].status = "CANCELLED"
  PROVE  JobsInv'
<1>1. \A j \in DOMAIN jobs : jobs[j].submitted_at \in Nat
  BY DEF JobsInv, JobInfo
<1>2. StampsAgree'
  BY <1>1 DEF JobsInv, StampsAgree, ClockInv
<1>3. \A j \in DOMAIN jobs' :
        /\ jobs'[j].submitted_at <= now'
        /\ jobs'[j].node = NoNode => jobs'[j].status \in {"QUEUED", "CANCELLED"}
  BY DEF JobsInv
<1> QED
  BY <1>2, <1>3 DEF JobsInv

LEMMA CancelKeeps ==
  ASSUME ClockInv, JobsInv, UNCHANGED <<now, issued>>, NEW j, cancel_job(j)
  PROVE  JobsInv' /\ JobsKept /\ NodesKept
<1>1. /\ j \in DOMAIN jobs /\ jobs[j] \in JobInfo /\ jobs[j].status \notin Terminal
      /\ jobs' = [jobs EXCEPT ![j] = [@ EXCEPT !.status = "CANCELLED", !.completed_at = now]]
  BY DEF cancel_job, HasStatus, JobsInv
<1>2. [jobs[j] EXCEPT !.status = "CANCELLED", !.completed_at = now] \in JobInfo
  BY <1>1 DEF JobInfo, JobStatus, Terminal, ClockInv
<1>3. /\ jobs' \in [DOMAIN jobs -> JobInfo] /\ DOMAIN jobs' = DOMAIN jobs
      /\ \A k \in DOMAIN jobs : k # j => jobs'[k] = jobs[k]
      /\ jobs'[j] = [jobs[j] EXCEPT !.status = "CANCELLED", !.completed_at = now]
  BY <1>1, <1>2 DEF JobsInv
<1>4. /\ jobs'[j].status = "CANCELLED" /\ jobs'[j].completed_at = now
      /\ jobs'[j].node = jobs[j].node /\ jobs'[j].spec = jobs[j].spec
      /\ jobs'[j].submitted_at = jobs[j].submitted_at
  BY <1>1, <1>3 DEF JobInfo
<1> QED
  BY <1>1, <1>3, <1>4, ChangeKeeps DEF JobsKept, NodesKept, Terminal

LEMMA FailKeeps ==
  ASSUME ClockInv, JobsInv, UNCHANGED <<now, issued>>, NEW n \in NodeIds, fail_jobs_on_node(n)
  PROVE  JobsInv' /\ JobsKept /\ NodesKept
<1>1. \A k \in DOMAIN jobs :
        /\ jobs[k] \in JobInfo
        /\ [jobs[k] EXCEPT !.status = "FAILED", !.completed_at = now] \in JobInfo
  BY DEF JobsInv, JobInfo, JobStatus, Terminal, ClockInv
<1>2. /\ jobs' \in [DOMAIN jobs -> JobInfo] /\ DOMAIN jobs' = DOMAIN jobs
      /\ \A k \in DOMAIN jobs :
           \/ jobs'[k] = jobs[k]
           \/ /\ jobs[k].node = n
              /\ jobs'[k] = [jobs[k] EXCEPT !.status = "FAILED", !.completed_at = now]
  BY <1>1 DEF fail_jobs_on_node
<1>3. \A k \in DOMAIN jobs :
        \/ jobs'[k] = jobs[k]
        \/ /\ jobs'[k].status = "FAILED" /\ jobs'[k].completed_at = now
           /\ jobs'[k].node = n /\ jobs[k].node = n /\ jobs'[k].spec = jobs[k].spec
           /\ jobs'[k].submitted_at = jobs[k].submitted_at
  BY <1>1, <1>2 DEF JobInfo
<1>4. JobsInv'
  BY <1>2, <1>3, ChangeKeeps, IdentifierAssumption
<1> QED
  BY <1>2, <1>3, <1>4, IdentifierAssumption DEF JobsKept, NodesKept

(* A report, or an assignment of a job without a node.                     *)
LEMMA UpdateKeeps ==
  ASSUME ClockInv, JobsInv, UNCHANGED <<now, issued>>, NEW j \in DOMAIN jobs,
         NEW s \in JobStatus \ {"QUEUED", "CANCELLED"}, NEW n \in NodeIds,
         update_job_status(j, s, n),
         jobs[j].node = n \/ (jobs[j].node = NoNode /\ s = "ASSIGNED"),
         s = "ASSIGNED" => jobs[j].node = NoNode
  PROVE  /\ JobsInv' /\ JobsKept
         /\ \A k \in DOMAIN jobs : k # j => jobs'[k] = jobs[k]
         /\ jobs'[j].node = n
<1> DEFINE info == Updated(jobs[j], s, n)
<1>1. jobs[j] \in JobInfo /\ jobs' = [jobs EXCEPT ![j] = info]
  BY DEF update_job_status, JobsInv
<1>2. /\ info \in JobInfo
      /\ info.status = s /\ info.spec = jobs[j].spec
      /\ info.submitted_at = jobs[j].submitted_at
      /\ info.node = n
      /\ s \in Terminal => info.completed_at = now
  BY <1>1, IdentifierAssumption DEF Updated, JobInfo, ClockInv
<1> HIDE DEF info
<1>3. /\ jobs' \in [DOMAIN jobs -> JobInfo] /\ DOMAIN jobs' = DOMAIN jobs
      /\ \A k \in DOMAIN jobs : k # j => jobs'[k] = jobs[k]
      /\ jobs'[j] = info
  BY <1>1, <1>2 DEF JobsInv
<1>4. JobsInv'
  BY <1>2, <1>3, ChangeKeeps, IdentifierAssumption
<1> QED
  BY <1>2, <1>3, <1>4, IdentifierAssumption DEF JobsKept

-----------------------------------------------------------------------------
(* The methods of the node table.                                          *)
HostsKept ==
  \A n \in issued \cap DOMAIN nodes' :
    n \in DOMAIN nodes /\ nodes'[n].host = nodes[n].host

LEMMA RegisterKeeps ==
  ASSUME ClockInv, NodesInv, UNCHANGED now, NEW h \in Hosts, NEW total \in Resources,
         NEW n \in NodeIds, register_node(h, total, n)
  PROVE  NodesInv' /\ HostsKept /\ issued' \in {issued, issued \cup {n}}
<1> DEFINE info == [host |-> h, status |-> "ONLINE", available |-> total,
                    last_heartbeat |-> now]
<1>1. info \in NodeInfo /\ info.host = h /\ info.status = "ONLINE"
  BY DEF NodeInfo, ClockInv
<1>2. /\ nodes' = Put(nodes, n, info)
      /\ DOMAIN nodes' = DOMAIN nodes \cup {n}
      /\ nodes'[n] = info
      /\ \A m \in DOMAIN nodes : m # n => nodes'[m] = nodes[m]
  BY DEF register_node, Put
<1> HIDE DEF info
<1>3. nodes' \in [DOMAIN nodes' -> NodeInfo]
  BY <1>1, <1>2 DEF NodesInv, Put
<1>4. IsFiniteSet(DOMAIN nodes')
  BY <1>2, FS_AddElement DEF NodesInv
<1>5. OfflineMeansSilent'
  BY <1>1, <1>2 DEF NodesInv, OfflineMeansSilent, Silent
<1>6. CASE \E m \in DOMAIN nodes : SameMachine(m, h)
  <2>1. n \in DOMAIN nodes /\ nodes[n].host = h /\ issued' = issued
    BY <1>6 DEF register_node, SameMachine
  <2>2. OneIdPerMachine'
    BY <1>1, <1>2, <2>1 DEF NodesInv, OneIdPerMachine, SameMachine
  <2> QED
    BY <1>1, <1>2, <1>3, <1>4, <1>5, <2>1, <2>2 DEF NodesInv, HostsKept
<1>7. CASE ~\E m \in DOMAIN nodes : SameMachine(m, h)
  <2>1. n \notin issued /\ issued' = issued \cup {n}
    BY <1>7 DEF register_node, Fresh
  <2>2. OneIdPerMachine'
    BY <1>1, <1>2, <1>7 DEF NodesInv, OneIdPerMachine, SameMachine
  <2> QED
    BY <1>2, <1>3, <1>4, <1>5, <2>1, <2>2 DEF NodesInv, HostsKept
<1> QED
  BY <1>6, <1>7

(* The methods that change or drop entries and add none; whoever is        *)
(* OFFLINE afterwards is silent.                                           *)
LEMMA EntriesKeep ==
  ASSUME NodesInv, UNCHANGED issued, DOMAIN nodes' \subseteq DOMAIN nodes,
         nodes' \in [DOMAIN nodes' -> NodeInfo], OfflineMeansSilent',
         \A n \in DOMAIN nodes' : nodes'[n].host = nodes[n].host
  PROVE  NodesInv' /\ HostsKept
<1>1. IsFiniteSet(DOMAIN nodes')
  BY FS_Subset DEF NodesInv
<1>2. OneIdPerMachine'
  BY DEF NodesInv, OneIdPerMachine, SameMachine
<1> QED
  BY <1>1, <1>2 DEF NodesInv, HostsKept

LEMMA HeartbeatKeeps ==
  ASSUME ClockInv, NodesInv, UNCHANGED <<now, issued>>, NEW n \in NodeIds,
         NEW r \in Resources, update_heartbeat(n, r)
  PROVE  NodesInv' /\ HostsKept
<1> DEFINE info == [nodes[n] EXCEPT !.status = "ONLINE", !.available = r,
                                    !.last_heartbeat = now]
<1>1. CASE n \in DOMAIN nodes
  <2>1. /\ nodes[n] \in NodeInfo /\ nodes' = [nodes EXCEPT ![n] = info]
    BY <1>1 DEF update_heartbeat, Acknowledged, NodesInv
  <2>2. info \in NodeInfo /\ info.host = nodes[n].host /\ info.status = "ONLINE"
    BY <2>1 DEF NodeInfo, ClockInv
  <2> HIDE DEF info
  <2>3. /\ nodes' \in [DOMAIN nodes -> NodeInfo] /\ DOMAIN nodes' = DOMAIN nodes
        /\ nodes'[n] = info /\ \A m \in DOMAIN nodes : m # n => nodes'[m] = nodes[m]
    BY <1>1, <2>1, <2>2 DEF NodesInv
  <2>4. OfflineMeansSilent'
    BY <2>2, <2>3 DEF NodesInv, OfflineMeansSilent, Silent
  <2> QED
    BY <2>2, <2>3, <2>4, EntriesKeep
<1>2. CASE n \notin DOMAIN nodes
  BY <1>2 DEF update_heartbeat, Acknowledged, NodesInv, HostsKept, OneIdPerMachine,
     SameMachine, OfflineMeansSilent, Silent
<1> QED
  BY <1>1, <1>2

LEMMA UnregisterKeeps ==
  ASSUME NodesInv, UNCHANGED <<now, issued>>, NEW n \in NodeIds, unregister_node(n)
  PROVE  NodesInv' /\ HostsKept
<1>1. /\ DOMAIN nodes' = DOMAIN nodes \ {n} /\ nodes' \in [DOMAIN nodes' -> NodeInfo]
      /\ \A m \in DOMAIN nodes' : nodes'[m] = nodes[m]
  BY DEF unregister_node, NodesInv
<1>2. OfflineMeansSilent'
  BY <1>1 DEF NodesInv, OfflineMeansSilent, Silent
<1> QED
  BY <1>1, <1>2, EntriesKeep

LEMMA TimeoutsKeep ==
  ASSUME NodesInv, UNCHANGED <<now, issued>>, check_timeouts
  PROVE  NodesInv' /\ HostsKept
<1>1. \A n \in DOMAIN nodes :
        LET info == [nodes[n] EXCEPT !.status = "OFFLINE"]
        IN  /\ nodes[n] \in NodeInfo /\ info \in NodeInfo
            /\ info.host = nodes[n].host /\ info.last_heartbeat = nodes[n].last_heartbeat
  BY DEF NodesInv, NodeInfo
<1>2. /\ DOMAIN nodes' = DOMAIN nodes /\ nodes' \in [DOMAIN nodes -> NodeInfo]
      /\ \A n \in DOMAIN nodes :
           \/ nodes'[n] = nodes[n]
           \/ Silent(n) /\ nodes'[n] = [nodes[n] EXCEPT !.status = "OFFLINE"]
  BY <1>1 DEF check_timeouts
<1>3. OfflineMeansSilent' /\ \A n \in DOMAIN nodes : nodes'[n].host = nodes[n].host
  BY <1>1, <1>2 DEF NodesInv, OfflineMeansSilent, Silent
<1> QED
  BY <1>2, <1>3, EntriesKeep

(* Silence lasts.                                                          *)
LEMMA TickKeeps ==
  ASSUME ClockInv, JobsInv, NodesInv, Tick, UNCHANGED <<jobs, nodes, issued>>
  PROVE  ClockInv' /\ JobsInv' /\ NodesInv'
<1>1. now \in Nat /\ now' = now + 1 /\ ClockInv'
  BY ClockAssumption DEF Tick, ClockInv
<1>2. JobsInv'
  <2>1. \A j \in DOMAIN jobs : jobs[j].submitted_at \in Nat /\ jobs[j].completed_at \in Nat
    BY DEF JobsInv, JobInfo
  <2> QED
    BY <1>1, <2>1 DEF JobsInv, StampsAgree
<1>3. OfflineMeansSilent'
  <2>1. \A n \in DOMAIN nodes : nodes[n].last_heartbeat \in Nat
    BY DEF NodesInv, NodeInfo
  <2> QED
    BY <1>1, <2>1, NodeRegistryAssumption DEF NodesInv, OfflineMeansSilent, Silent
<1>4. NodesInv'
  BY <1>3 DEF NodesInv, OneIdPerMachine, SameMachine
<1> QED
  BY <1>1, <1>2, <1>4

-----------------------------------------------------------------------------
(* The calls of users and agents between two steps of the thread.          *)
LEMMA HasRoomKept ==
  ASSUME NEW j, NEW i, jobs'[j].spec = jobs[j].spec, UNCHANGED online_nodes
  PROVE  HasRoom(j, i)' <=> HasRoom(j, i)
BY DEF HasRoom, Demand

LEMMA CallsKeepPass ==
  ASSUME PassInv, JobsKept, NodesKept, UNCHANGED schedVars
  PROVE  PassInv'
<1>1. pending_jobs \subseteq DOMAIN jobs /\ todo \subseteq DOMAIN jobs
  BY DEF PassInv, PassTyped
<1>2. \A k \in pending_jobs : \A i : HasRoom(k, i)' <=> HasRoom(k, i)
  BY <1>1, HasRoomKept DEF JobsKept, schedVars
<1>3. \A k \in pending_jobs : jobs'[k].node = NoNode => jobs[k].node = NoNode
  BY <1>1 DEF JobsKept
<1> QED
  BY <1>1, <1>2, <1>3 DEF PassInv, PassTyped, JobsKept, NodesKept, schedVars

LEMMA HandlersKeep ==
  ASSUME SchedulerInv, Handlers, UNCHANGED schedVars
  PROVE  /\ SchedulerInv' /\ JobsKept /\ NodesKept
         /\ UNCHANGED issued \/ UNCHANGED nodes \/ HostsKept
<1>1. CASE JobTableCall
  <2>1. UNCHANGED <<nodes, now>> /\ ClockInv'
    BY <1>1 DEF JobTableCall, SchedulerInv, ClockInv
  <2>2. /\ JobsInv' /\ JobsKept /\ NodesKept
        /\ issued \subseteq issued' /\ issued' \subseteq issued \cup JobIds
    <3>1. CASE \E j \in JobIds, spec \in Specs : submit_job(j, spec)
      BY <2>1, <3>1, SubmitKeeps DEF SchedulerInv
    <3>2. CASE \E j \in JobIds : cancel_job(j) /\ UNCHANGED issued
      BY <2>1, <3>2, CancelKeeps DEF SchedulerInv
    <3>3. CASE \E n \in NodeIds : fail_jobs_on_node(n) /\ UNCHANGED issued
      BY <2>1, <3>3, FailKeeps DEF SchedulerInv
    <3>4. CASE \E j \in DOMAIN jobs, s \in {"RUNNING", "COMPLETED", "FAILED"} :
                 /\ jobs[j].node # NoNode
                 /\ update_job_status(j, s, jobs[j].node)
                 /\ UNCHANGED issued
      <4>1. PICK j \in DOMAIN jobs, s \in {"RUNNING", "COMPLETED", "FAILED"} :
              /\ jobs[j].node # NoNode
              /\ update_job_status(j, s, jobs[j].node)
              /\ UNCHANGED issued
        BY <3>4
      <4>2. jobs[j].node \in NodeIds
        BY <4>1 DEF SchedulerInv, JobsInv, JobInfo
      <4>3. s \in JobStatus \ {"QUEUED", "CANCELLED"} /\ s # "ASSIGNED"
        BY DEF JobStatus, Terminal
      <4> QED
        BY <2>1, <4>1, <4>2, <4>3, UpdateKeeps DEF SchedulerInv, NodesKept
    <3> QED
      BY <1>1, <3>1, <3>2, <3>3, <3>4 DEF JobTableCall
  <2>3. NodesInv'
    BY <2>1, <2>2 DEF SchedulerInv, NodesInv, OneIdPerMachine, SameMachine,
       OfflineMeansSilent, Silent
  <2> QED
    BY <2>1, <2>2, <2>3, CallsKeepPass DEF SchedulerInv
<1>2. CASE NodeTableCall
  <2>1. UNCHANGED <<jobs, now>> /\ ClockInv' /\ JobsKept /\ NodesKept
    BY <1>2 DEF NodeTableCall, SchedulerInv, ClockInv, JobsKept, NodesKept
  <2>2. /\ NodesInv' /\ HostsKept
        /\ issued \subseteq issued' /\ issued' \subseteq issued \cup NodeIds
    BY <1>2, <2>1, RegisterKeeps, HeartbeatKeeps, UnregisterKeeps, TimeoutsKeep
       DEF NodeTableCall, SchedulerInv
  <2>3. JobsInv'
    BY <2>1, <2>2 DEF SchedulerInv, JobsInv, StampsAgree
  <2> QED
    BY <2>1, <2>2, <2>3, CallsKeepPass DEF SchedulerInv
<1>3. CASE Tick /\ UNCHANGED <<jobs, nodes, issued>>
  <2>1. JobsKept /\ NodesKept
    BY <1>3 DEF JobsKept, NodesKept
  <2> QED
    BY <1>3, <2>1, TickKeeps, CallsKeepPass DEF SchedulerInv
<1> QED
  BY <1>1, <1>2, <1>3 DEF Handlers

-----------------------------------------------------------------------------
(* The steps of the thread.                                                *)
LEMMA TablesKeep ==
  ASSUME SchedulerInv, UNCHANGED masterVars
  PROVE  ClockInv' /\ JobsInv' /\ NodesInv' /\ issued' \subseteq JobIds \cup NodeIds
BY DEF SchedulerInv, masterVars, ClockInv, JobsInv, NodesInv, StampsAgree, OneIdPerMachine,
   SameMachine, OfflineMeansSilent, Silent

LEMMA ReadJobsKeeps ==
  ASSUME SchedulerInv, ReadPendingJobs
  PROVE  SchedulerInv'
<1>1. /\ UNCHANGED masterVars /\ UNCHANGED online_nodes
      /\ sched_pc' = "nodes" /\ todo' = list_jobs("QUEUED") /\ pending_jobs' = todo'
  BY DEF ReadPendingJobs, get_pending_jobs
<1>2. PassInv'
  BY <1>1 DEF SchedulerInv, PassInv, PassTyped, JobsInv, StampsAgree, list_jobs, masterVars
<1> QED
  BY <1>1, <1>2, TablesKeep DEF SchedulerInv

LEMMA EndKeeps ==
  ASSUME SchedulerInv, EndPass, UNCHANGED masterVars
  PROVE  SchedulerInv'
<1>1. <<>> \in Seq(Copied)
  OBVIOUS
<1>2. PassInv'
  BY <1>1 DEF EndPass, PassInv, PassTyped
<1> QED
  BY <1>2, TablesKeep DEF SchedulerInv

LEMMA ReadNodesKeeps ==
  ASSUME SchedulerInv, ReadNodes
  PROVE  SchedulerInv'
<1>1. UNCHANGED masterVars /\ sched_pc = "nodes"
  BY DEF ReadNodes
<1>2. CASE EndPass
  BY <1>1, <1>2, EndKeeps
<1>3. ASSUME NEW order \in SetToSeqs(OnlineNodes), online_nodes' = Copies(order),
             sched_pc' = "place", UNCHANGED <<pending_jobs, todo>>
      PROVE  SchedulerInv'
  <2>1. OnlineNodes \subseteq DOMAIN nodes /\ Cardinality(OnlineNodes) \in Nat
    BY FS_Subset, FS_CardinalityType DEF OnlineNodes, SchedulerInv, NodesInv
  <2>2. order \in [1..Cardinality(OnlineNodes) -> OnlineNodes]
    BY DEF SetToSeqs
  <2>3. ASSUME NEW i \in 1..Cardinality(OnlineNodes)
        PROVE  LET r == nodes[order[i]].available
               IN  [id |-> order[i], read |-> r, free |-> r] \in Copied
    <3>1. nodes[order[i]].available \in [Dims -> Nat] /\ order[i] \in NodeIds
      BY <2>1, <2>2, SchedulerAssumption DEF SchedulerInv, NodesInv, NodeInfo
    <3> QED
      BY <3>1 DEF Copied
  <2>4. Copies(order) \in [1..Cardinality(OnlineNodes) -> Copied]
    BY <2>2, <2>3 DEF Copies
  <2>5. online_nodes' \in Seq(Copied)
    BY <1>3, <2>1, <2>4
  <2>6. PassInv'
    BY <1>1, <1>3, <2>5 DEF SchedulerInv, PassInv, PassTyped, masterVars
  <2> QED
    BY <1>1, <2>6, TablesKeep DEF SchedulerInv
<1> QED
  BY <1>2, <1>3 DEF ReadNodes

LEMMA CopyTyped ==
  ASSUME NEW s \in Seq(Copied), NEW i \in DOMAIN s
  PROVE  s[i].id \in NodeIds /\ s[i].free \in [Dims -> Nat]
<1>1. s[i] \in Copied
  OBVIOUS
<1> QED
  BY <1>1 DEF Copied

(* A node only gets fuller during a pass.                                  *)
LEMMA DeductShrinks ==
  ASSUME PassTyped, NEW j \in todo, jobs[j] \in JobInfo, NEW i, FirstFit(j, i), Deduct(j, i)
  PROVE  /\ online_nodes' \in Seq(Copied) /\ DOMAIN online_nodes' = DOMAIN online_nodes
         /\ \A k \in DOMAIN online_nodes, d \in Dims :
              online_nodes'[k].free[d] <= online_nodes[k].free[d]
<1> DEFINE free == [d \in Dims |-> online_nodes[i].free[d] - Demand(j)[d]]
           copy == [online_nodes[i] EXCEPT !.free = free]
<1>1. i \in DOMAIN online_nodes /\ online_nodes[i] \in Copied
  BY DEF FirstFit, PassTyped
<1>2. \A d \in Dims : Demand(j)[d] \in Nat /\ Demand(j)[d] <= online_nodes[i].free[d]
  BY SchedulerAssumption DEF JobInfo, Demand, FirstFit, HasRoom
<1>3. free \in [Dims -> Nat] /\ \A d \in Dims : free[d] <= online_nodes[i].free[d]
  BY <1>1, <1>2 DEF Copied
<1>4. online_nodes' = [online_nodes EXCEPT ![i] = copy]
  BY DEF Deduct
<1> HIDE DEF free
<1>5. copy \in Copied /\ copy.free = free
  BY <1>1, <1>3 DEF Copied
<1> HIDE DEF copy
<1>6. /\ online_nodes' \in Seq(Copied) /\ DOMAIN online_nodes' = DOMAIN online_nodes
      /\ online_nodes'[i] = copy
      /\ \A k \in DOMAIN online_nodes : k # i => online_nodes'[k] = online_nodes[k]
  BY <1>1, <1>4, <1>5 DEF PassTyped
<1>7. \A k \in DOMAIN online_nodes, d \in Dims : online_nodes[k].free[d] \in Nat
  BY CopyTyped DEF PassTyped
<1> QED
  BY <1>3, <1>5, <1>6, <1>7

LEMMA PlaceKeeps ==
  ASSUME SchedulerInv, NEW j \in JobIds, PlaceJob(j)
  PROVE  SchedulerInv' /\ JobsKept
<1>1. /\ j \in todo /\ j \in DOMAIN jobs /\ jobs[j] \in JobInfo /\ jobs[j].node = NoNode
      /\ todo' = todo \ {j} /\ sched_pc' = "place"
      /\ UNCHANGED <<pending_jobs, nodes, issued, now>>
  BY DEF PlaceJob, IsNext, SchedulerInv, PassInv, PassTyped, JobsInv
<1>2. CASE LeaveQueued(j)
  <2>1. UNCHANGED masterVars /\ UNCHANGED online_nodes
    BY <1>1, <1>2 DEF LeaveQueued, masterVars
  <2>2. \A k, i : HasRoom(k, i)' <=> HasRoom(k, i)
    BY <2>1 DEF HasRoom, Demand, masterVars
  <2>3. PassInv'
    BY <1>1, <1>2, <2>1, <2>2 DEF SchedulerInv, PassInv, PassTyped, LeaveQueued, masterVars
  <2> QED
    BY <2>1, <2>3, TablesKeep DEF SchedulerInv, JobsKept, masterVars
<1>3. ASSUME NEW i \in DOMAIN online_nodes, Assign(j, i)
      PROVE  SchedulerInv' /\ JobsKept
  <2>1. online_nodes[i].id \in NodeIds
    BY CopyTyped DEF SchedulerInv, PassInv, PassTyped
  <2>2. /\ JobsInv' /\ JobsKept
        /\ \A k \in DOMAIN jobs : k # j => jobs'[k] = jobs[k]
        /\ jobs'[j].node # NoNode
    <3>1. "ASSIGNED" \in JobStatus \ {"QUEUED", "CANCELLED"}
      BY DEF JobStatus
    <3> QED
      BY <1>1, <1>3, <2>1, <3>1, UpdateKeeps, IdentifierAssumption DEF Assign, SchedulerInv
  <2>3. /\ online_nodes' \in Seq(Copied) /\ DOMAIN online_nodes' = DOMAIN online_nodes
        /\ \A k \in DOMAIN online_nodes, d \in Dims :
             online_nodes'[k].free[d] <= online_nodes[k].free[d]
    BY <1>1, <1>3, DeductShrinks DEF Assign, SchedulerInv, PassInv
  <2>4. ASSUME NEW k \in pending_jobs \ todo, NEW m \in DOMAIN online_nodes, ~HasRoom(k, m)
        PROVE  ~HasRoom(k, m)'
    <3>1. PICK d \in Dims : ~(Demand(k)[d] <= online_nodes[m].free[d])
      BY <2>4 DEF HasRoom
    <3>2. k \in DOMAIN jobs /\ Demand(k)' = Demand(k) /\ Demand(k)[d] \in Nat
      BY <2>2, SchedulerAssumption
         DEF SchedulerInv, PassInv, PassTyped, JobsKept, JobsInv, JobInfo, Demand
    <3>3. online_nodes[m].free[d] \in Nat /\ online_nodes'[m].free[d] \in Nat
      BY <2>3, CopyTyped DEF SchedulerInv, PassInv, PassTyped
    <3> QED
      BY <2>3, <3>1, <3>2, <3>3 DEF HasRoom
  <2>5. PassInv'
    BY <1>1, <2>2, <2>3, <2>4 DEF SchedulerInv, PassInv, PassTyped, JobsKept
  <2>6. NodesInv' /\ ClockInv' /\ issued' \subseteq JobIds \cup NodeIds
    BY <1>1 DEF SchedulerInv, ClockInv, NodesInv, OneIdPerMachine, SameMachine,
       OfflineMeansSilent, Silent
  <2> QED
    BY <2>2, <2>5, <2>6 DEF SchedulerInv
<1> QED
  BY <1>2, <1>3 DEF PlaceJob

-----------------------------------------------------------------------------
allVars == <<masterVars, schedVars>>

LEMMA InitSchedulerInv == SchedulerInitAll => SchedulerInv
<1> SUFFICES ASSUME SchedulerInitAll PROVE SchedulerInv
  OBVIOUS
<1>1. DOMAIN jobs = {} /\ DOMAIN nodes = {} /\ jobs = [k \in {} |-> 0] /\ nodes = [k \in {} |-> 0]
  BY DEF SchedulerInitAll, JobManagerInit, NodeRegistryInit, EmptyTable
<1>2. ClockInv /\ issued = {}
  BY ClockAssumption DEF SchedulerInitAll, CommonInit, ClockInv
<1>3. JobsInv /\ NodesInv
  BY <1>1, FS_EmptySet DEF JobsInv, NodesInv, StampsAgree, OneIdPerMachine, OfflineMeansSilent
<1>4. PassInv
  BY DEF SchedulerInitAll, SchedulerInit, PassInv, PassTyped
<1> QED
  BY <1>2, <1>3, <1>4 DEF SchedulerInv

LEMMA SchedulerNextKeepsInv ==
  ASSUME SchedulerInv, [SchedulerNext]_allVars
  PROVE  SchedulerInv' /\ JobsKept /\ (UNCHANGED nodes \/ HostsKept)
<1>1. UNCHANGED <<jobs>> => JobsKept
  BY DEF JobsKept
<1>2. CASE ReadPendingJobs
  BY <1>1, <1>2, ReadJobsKeeps DEF ReadPendingJobs, masterVars
<1>3. CASE ReadNodes
  BY <1>1, <1>3, ReadNodesKeeps DEF ReadNodes, masterVars
<1>4. CASE FinishPass
  BY <1>1, <1>4, EndKeeps DEF FinishPass, masterVars
<1>5. CASE \E j \in JobIds : PlaceJob(j)
  BY <1>5, PlaceKeeps DEF PlaceJob
<1>6. CASE Handlers /\ UNCHANGED schedVars
  <2>1. UNCHANGED nodes \/ HostsKept
    BY <1>6, RegisterKeeps, HeartbeatKeeps, UnregisterKeeps, TimeoutsKeep
       DEF Handlers, JobTableCall, NodeTableCall, SchedulerInv
  <2> QED
    BY <1>6, <2>1, HandlersKeep
<1>7. CASE UNCHANGED allVars
  <2>1. UNCHANGED masterVars /\ UNCHANGED schedVars /\ JobsKept /\ NodesKept
    BY <1>7 DEF allVars, masterVars, JobsKept, NodesKept
  <2> QED
    BY <2>1, TablesKeep, CallsKeepPass DEF SchedulerInv, masterVars
<1> QED
  BY <1>2, <1>3, <1>4, <1>5, <1>6, <1>7 DEF SchedulerNext, SchedulerStep

(* SchedulerInv is an invariant of the thread among its callers.           *)
THEOREM SchedulerInvariant == SchedulerSpec => []SchedulerInv
BY InitSchedulerInv, SchedulerNextKeepsInv, PTL DEF SchedulerSpec, allVars

(* The types; that the unsigned subtraction of scheduler_engine.cpp:80     *)
(* never wraps is among them.                                              *)
THEOREM SchedulerTyped == SchedulerSpec => []SchedulerTypeOK
<1>1. SchedulerInv => SchedulerTypeOK
  BY DEF SchedulerInv, ClockInv, JobsInv, NodesInv, PassInv, PassTyped, Copied, SchedulerTypeOK
<1> QED
  BY <1>1, SchedulerInvariant, PTL

(* job_manager.cpp: what get_jobs_to_cancel_for_node relies on.            *)
THEOREM StampsAlwaysAgree == SchedulerSpec => []StampsAgree
<1>1. SchedulerInv => StampsAgree
  BY DEF SchedulerInv, JobsInv
<1> QED
  BY <1>1, SchedulerInvariant, PTL

(* node_registry.cpp:18: a machine that comes back is the one it was.      *)
THEOREM MachinesListedOnce == SchedulerSpec => []OneIdPerMachine
<1>1. SchedulerInv => OneIdPerMachine
  BY DEF SchedulerInv, NodesInv
<1> QED
  BY <1>1, SchedulerInvariant, PTL

(* Every path that makes a node OFFLINE or ONLINE agrees with the clock.   *)
THEOREM OfflineIsSilent == SchedulerSpec => []OfflineMeansSilent
<1>1. SchedulerInv => OfflineMeansSilent
  BY DEF SchedulerInv, NodesInv
<1> QED
  BY <1>1, SchedulerInvariant, PTL

(* The id of a machine is never given to another one.                      *)
THEOREM IdsStay == SchedulerSpec => IdsAreNotReused
<1> DEFINE Stay == \A n \in issued \cap DOMAIN nodes' :
                     n \in DOMAIN nodes /\ nodes'[n].host = nodes[n].host
<1>1. ASSUME SchedulerInv, [SchedulerNext]_allVars PROVE [Stay]_<<nodes, issued>>
  BY <1>1, SchedulerNextKeepsInv DEF HostsKept
<1> QED
  BY <1>1, SchedulerInvariant, PTL DEF SchedulerSpec, IdsAreNotReused, allVars

(* update_job_status has no guard, yet no job is given away twice.         *)
THEOREM JobsAssignedOnce == SchedulerSpec => AssignedOnce
<1> DEFINE Once == \A j \in DOMAIN jobs \cap DOMAIN jobs' :
                     jobs[j].node # NoNode =>
                       /\ jobs'[j].node = jobs[j].node
                       /\ jobs'[j].status = "ASSIGNED" => jobs[j].status = "ASSIGNED"
<1>1. ASSUME SchedulerInv, [SchedulerNext]_allVars PROVE [Once]_jobs
  BY <1>1, SchedulerNextKeepsInv DEF JobsKept
<1> QED
  BY <1>1, SchedulerInvariant, PTL DEF SchedulerSpec, AssignedOnce, allVars

(* "Only send if it was cancelled recently to avoid infinite sending".     *)
THEOREM WindowsStayClosed == SchedulerSpec => CancelWindowIsNotReopened
<1> DEFINE Closed == \A j \in list_jobs("CANCELLED") :
                       HasStatus(j, {"CANCELLED"})' =>
                         jobs'[j].completed_at = jobs[j].completed_at
<1>1. ASSUME SchedulerInv, [SchedulerNext]_allVars PROVE [Closed]_jobs
  BY <1>1, SchedulerNextKeepsInv DEF JobsKept, list_jobs, HasStatus
<1> QED
  BY <1>1, SchedulerInvariant, PTL DEF SchedulerSpec, CancelWindowIsNotReopened, allVars

(* One step of NoPriorityInversion.                                       *)
NotOvertaken ==
  \A j \in todo, k \in pending_jobs :
    /\ j \notin todo' /\ online_nodes' # online_nodes /\ online_nodes' # <<>>
    /\ SortsBefore(k, j)
    /\ jobs[k].node = NoNode
    => \A i \in DOMAIN online_nodes : ~HasRoom(k, i)

LEMMA StepOvertakesNone ==
  ASSUME SchedulerInv, [SchedulerNext]_allVars
  PROVE  [NotOvertaken]_allVars
<1> SUFFICES ASSUME NEW j \in todo, NEW k \in pending_jobs,
                    j \notin todo', online_nodes' # online_nodes, online_nodes' # <<>>,
                    SortsBefore(k, j), jobs[k].node = NoNode
             PROVE  \A i \in DOMAIN online_nodes : ~HasRoom(k, i)
  BY DEF NotOvertaken
<1>1. PICK l \in JobIds : PlaceJob(l)
  BY DEF allVars, schedVars, SchedulerNext, SchedulerStep, ReadPendingJobs, ReadNodes,
     EndPass, FinishPass
<1>2. l = j /\ IsNext(j)
  BY <1>1 DEF PlaceJob
<1>3. k \notin todo
  BY <1>2 DEF IsNext
<1> QED
  BY <1>3 DEF SchedulerInv, PassInv

(* The placing loop keeps the order of the sort, although the node copies  *)
(* it works on are outdated and jobs are cancelled under its hands.        *)
THEOREM PriorityIsKept == SchedulerSpec => NoPriorityInversion
BY StepOvertakesNone, SchedulerInvariant, PTL
   DEF SchedulerSpec, NoPriorityInversion, NotOvertaken, allVars

-----------------------------------------------------------------------------
(* The ledger of a pass.  The copies are of different nodes, so a job      *)
(* that is placed is added to one sum, and its demand taken from the same  *)
(* node's rest.                                                            *)
DistinctCopies ==
  \A i, k \in DOMAIN online_nodes : online_nodes[i].id = online_nodes[k].id => i = k

LedgerInv == IsFiniteSet(DOMAIN jobs) /\ DistinctCopies /\ PassLedger

LEMMA JobsStayFinite ==
  ASSUME IsFiniteSet(DOMAIN jobs), SchedulerInv, [SchedulerNext]_allVars
  PROVE  IsFiniteSet(DOMAIN jobs')
<1>1. CASE \E j \in JobIds, spec \in Specs : submit_job(j, spec)
  <2>1. PICK j \in JobIds, spec \in Specs : submit_job(j, spec)
    BY <1>1
  <2>2. DOMAIN jobs' = DOMAIN jobs \cup {j}
    BY <2>1 DEF submit_job, Put
  <2> QED
    BY <2>2, FS_AddElement
<1>2. CASE ~ \E j \in JobIds, spec \in Specs : submit_job(j, spec)
  <2>1. DOMAIN jobs' = DOMAIN jobs
    BY <1>2 DEF SchedulerNext, SchedulerStep, ReadPendingJobs, ReadNodes, FinishPass, PlaceJob,
       LeaveQueued, Assign, update_job_status, Handlers, JobTableCall, NodeTableCall, cancel_job,
       fail_jobs_on_node, masterVars, allVars
  <2> QED
    BY <2>1
<1> QED
  BY <1>1, <1>2

(* What leaves the locals of the thread leaves the ledger.                 *)
LEMMA LedgerStands ==
  ASSUME SchedulerInv, DistinctCopies, PassLedger, JobsKept, NodesKept, UNCHANGED schedVars
  PROVE  DistinctCopies' /\ PassLedger'
<1>1. pending_jobs \subseteq DOMAIN jobs /\ online_nodes \in Seq(Copied)
  BY DEF SchedulerInv, PassInv, PassTyped
<1>2. DistinctCopies'
  BY DEF DistinctCopies, schedVars
<1>3. ASSUME NEW i \in DOMAIN online_nodes PROVE PlacedOn(i)' = PlacedOn(i)
  <2>1. online_nodes[i].id # NoNode
    BY <1>1, CopyTyped, IdentifierAssumption
  <2> QED
    BY <1>1, <2>1 DEF PlacedOn, JobsKept, NodesKept, schedVars
<1>4. \A d : [j \in pending_jobs |-> Demand(j)[d]]' = [j \in pending_jobs |-> Demand(j)[d]]
  BY <1>1 DEF Demand, JobsKept, schedVars
<1>5. \A i \in DOMAIN online_nodes : \A d : GivenAway(i, d)' = GivenAway(i, d)
  BY <1>3, <1>4 DEF GivenAway
<1>6. PassLedger'
  BY <1>5 DEF PassLedger, schedVars
<1> QED
  BY <1>2, <1>6

LEMMA EndLedger ==
  ASSUME EndPass
  PROVE  DistinctCopies' /\ PassLedger'
<1>1. DOMAIN online_nodes' = {}
  BY DEF EndPass
<1> QED
  BY <1>1 DEF DistinctCopies, PassLedger

LEMMA ReadNodesLedger ==
  ASSUME SchedulerInv, DistinctCopies, PassLedger, ReadNodes
  PROVE  DistinctCopies' /\ PassLedger'
<1>1. ASSUME NEW order \in SetToSeqs(OnlineNodes), online_nodes' = Copies(order),
             UNCHANGED <<pending_jobs, todo>>
      PROVE  DistinctCopies' /\ PassLedger'
  <2>1. /\ DOMAIN order = 1..Cardinality(OnlineNodes)
        /\ \A i, k \in DOMAIN order : order[i] = order[k] => i = k
    BY DEF SetToSeqs, IsInjective
  <2>2. /\ DOMAIN online_nodes' = DOMAIN order
        /\ \A i \in DOMAIN order : /\ online_nodes'[i].id = order[i]
                                   /\ online_nodes'[i].free = online_nodes'[i].read
    BY <1>1 DEF Copies
  <2>3. DistinctCopies'
    BY <2>1, <2>2 DEF DistinctCopies
  <2>4. SchedulerInv' /\ pending_jobs = todo
    BY ReadNodesKeeps DEF SchedulerInv, PassInv, ReadNodes
  <2>5. \A i \in DOMAIN online_nodes', d \in Dims :
          online_nodes'[i].free[d] \in Nat /\ GivenAway(i, d)' = 0
    <3>1. (online_nodes \in Seq(Copied))'
      BY <2>4 DEF SchedulerInv, PassInv, PassTyped
    <3>2. \A i : PlacedOn(i)' = {}
      BY <1>1, <2>4 DEF PlacedOn
    <3>3. \A i, d : GivenAway(i, d)' = 0
      BY <3>2, SumEmpty DEF GivenAway
    <3> QED
      BY <3>1, <3>3, CopyTyped
  <2>6. PassLedger'
    BY <2>2, <2>5 DEF PassLedger
  <2> QED
    BY <2>3, <2>6
<1> QED
  BY <1>1, EndLedger DEF ReadNodes

LEMMA PlaceLedger ==
  ASSUME SchedulerInv, LedgerInv, NEW j \in JobIds, PlaceJob(j)
  PROVE  DistinctCopies' /\ PassLedger'
<1>1. /\ j \in todo /\ j \in DOMAIN jobs /\ jobs[j] \in JobInfo /\ jobs[j].node = NoNode
      /\ todo' = todo \ {j} /\ pending_jobs' = pending_jobs /\ todo \subseteq pending_jobs
      /\ pending_jobs \subseteq DOMAIN jobs /\ online_nodes \in Seq(Copied)
  BY DEF PlaceJob, IsNext, SchedulerInv, PassInv, PassTyped, JobsInv
<1>2. SchedulerInv' /\ JobsKept
  BY PlaceKeeps
<1>3. \A d : [k \in pending_jobs |-> Demand(k)[d]]' = [k \in pending_jobs |-> Demand(k)[d]]
  BY <1>1, <1>2 DEF Demand, JobsKept
<1>4. \A i \in DOMAIN online_nodes : online_nodes[i].id # NoNode
  BY <1>1, CopyTyped, IdentifierAssumption
<1>5. CASE LeaveQueued(j)
  <2>1. jobs' = jobs /\ online_nodes' = online_nodes
    BY <1>5 DEF LeaveQueued
  <2>2. \A i \in DOMAIN online_nodes : PlacedOn(i)' = PlacedOn(i)
    BY <1>1, <1>4, <2>1 DEF PlacedOn
  <2>3. \A i \in DOMAIN online_nodes : \A d : GivenAway(i, d)' = GivenAway(i, d)
    BY <1>3, <2>2 DEF GivenAway
  <2> QED
    BY <2>1, <2>3 DEF LedgerInv, DistinctCopies, PassLedger
<1>6. ASSUME NEW i \in DOMAIN online_nodes, Assign(j, i)
      PROVE  DistinctCopies' /\ PassLedger'
  <2>1. PassTyped /\ FirstFit(j, i) /\ Deduct(j, i)
    BY <1>6 DEF Assign, SchedulerInv, PassInv
  <2>2. /\ DOMAIN online_nodes' = DOMAIN online_nodes
        /\ \A k \in DOMAIN online_nodes :
             /\ online_nodes'[k].id = online_nodes[k].id
             /\ online_nodes'[k].read = online_nodes[k].read
             /\ k # i => online_nodes'[k] = online_nodes[k]
        /\ online_nodes'[i].free = [d \in Dims |-> online_nodes[i].free[d] - Demand(j)[d]]
    <3> DEFINE left == [d \in Dims |-> online_nodes[i].free[d] - Demand(j)[d]]
    <3>1. online_nodes' = [online_nodes EXCEPT ![i] = [@ EXCEPT !.free = left]]
      BY <2>1 DEF Deduct
    <3>2. \A k \in DOMAIN online_nodes : online_nodes[k] \in Copied
      BY <1>1
    <3> HIDE DEF left
    <3>3. /\ DOMAIN online_nodes' = DOMAIN online_nodes
          /\ online_nodes'[i].free = left
          /\ \A k \in DOMAIN online_nodes :
               /\ online_nodes'[k].id = online_nodes[k].id
               /\ online_nodes'[k].read = online_nodes[k].read
               /\ k # i => online_nodes'[k] = online_nodes[k]
      BY <3>1, <3>2 DEF Copied
    <3> QED
      BY <3>3 DEF left
  <2>3. DistinctCopies'
    BY <2>2 DEF LedgerInv, DistinctCopies
  <2>4. /\ \A k \in DOMAIN jobs : k # j => jobs'[k] = jobs[k]
        /\ jobs'[j].node = online_nodes[i].id
    <3>1. "ASSIGNED" \in JobStatus \ {"QUEUED", "CANCELLED"} /\ online_nodes[i].id \in NodeIds
      BY <1>1, CopyTyped DEF JobStatus
    <3> QED
      BY <1>1, <1>6, <3>1, UpdateKeeps DEF Assign, SchedulerInv, PlaceJob
  <2>5. /\ j \notin PlacedOn(i) /\ PlacedOn(i)' = PlacedOn(i) \cup {j}
        /\ \A k \in DOMAIN online_nodes : k # i => PlacedOn(k)' = PlacedOn(k)
    BY <1>1, <1>4, <2>2, <2>4 DEF PlacedOn, LedgerInv, DistinctCopies
  <2>6. \A k \in DOMAIN online_nodes : k # i => \A d : GivenAway(k, d)' = GivenAway(k, d)
    BY <1>3, <2>5 DEF GivenAway
  <2>7. ASSUME NEW d \in Dims
        PROVE  online_nodes'[i].read[d] = online_nodes'[i].free[d] + GivenAway(i, d)'
    <3> DEFINE f == [k \in pending_jobs |-> Demand(k)[d]]
    <3>1. IsFiniteSet(PlacedOn(i)) /\ PlacedOn(i) \cup {j} \subseteq pending_jobs
      BY <1>1, FS_Subset DEF PlacedOn, LedgerInv
    <3>2. \A k \in pending_jobs : f[k] \in Nat
      BY <1>1, SchedulerAssumption DEF SchedulerInv, JobsInv, JobInfo, Demand
    <3>3. /\ online_nodes'[i].read[d] = online_nodes[i].read[d]
          /\ online_nodes'[i].free[d] = online_nodes[i].free[d] - f[j]
      BY <1>1, <2>2
    <3>4. /\ online_nodes[i].read[d] = online_nodes[i].free[d] + GivenAway(i, d)
          /\ online_nodes[i].free[d] \in Nat
      BY <1>1, CopyTyped DEF LedgerInv, PassLedger
    <3>5. GivenAway(i, d) = SumFunctionOnSet(f, PlacedOn(i))
      BY DEF GivenAway
    <3>6. GivenAway(i, d)' = SumFunctionOnSet(f, PlacedOn(i) \cup {j})
      BY <1>3, <2>5 DEF GivenAway
    <3> HIDE DEF f
    <3>7. /\ \A k \in PlacedOn(i) \cup {j} : f[k] \in Int
          /\ j \notin PlacedOn(i)
      BY <2>5, <3>1, <3>2
    <3>8. SumFunctionOnSet(f, PlacedOn(i)) \in Int
      BY <3>1, <3>7, SumInt
    <3>9. SumFunctionOnSet(f, PlacedOn(i) \cup {j}) = f[j] + SumFunctionOnSet(f, PlacedOn(i))
      BY <3>1, <3>7, SumAdd
    <3> QED
      BY <1>1, <3>2, <3>3, <3>4, <3>5, <3>6, <3>8, <3>9
  <2>8. PassLedger'
    BY <2>2, <2>6, <2>7 DEF LedgerInv, PassLedger
  <2> QED
    BY <2>3, <2>8
<1> QED
  BY <1>5, <1>6 DEF PlaceJob

LEMMA NextKeepsLedger ==
  ASSUME SchedulerInv, LedgerInv, [SchedulerNext]_allVars
  PROVE  LedgerInv'
<1>1. IsFiniteSet(DOMAIN jobs')
  BY JobsStayFinite DEF LedgerInv
<1>2. CASE UNCHANGED <<jobs, online_nodes, pending_jobs, todo>>
  BY <1>2 DEF LedgerInv, DistinctCopies, PassLedger, GivenAway, PlacedOn, Demand
<1>3. CASE ReadPendingJobs
  <2>1. /\ pending_jobs = todo /\ pending_jobs' = todo' /\ UNCHANGED <<jobs, online_nodes>>
    BY <1>3 DEF ReadPendingJobs, SchedulerInv, PassInv, masterVars
  <2>2. \A i : PlacedOn(i) = {} /\ PlacedOn(i)' = {}
    BY <2>1 DEF PlacedOn
  <2>3. \A i, d : GivenAway(i, d)' = GivenAway(i, d)
    BY <2>2, SumEmpty DEF GivenAway
  <2> QED
    BY <1>1, <2>1, <2>3 DEF LedgerInv, DistinctCopies, PassLedger
<1>4. CASE ReadNodes
  BY <1>1, <1>4, ReadNodesLedger DEF LedgerInv
<1>5. CASE FinishPass
  BY <1>1, <1>5, EndLedger DEF LedgerInv, FinishPass
<1>6. CASE \E j \in JobIds : PlaceJob(j)
  BY <1>1, <1>6, PlaceLedger DEF LedgerInv
<1>7. CASE Handlers /\ UNCHANGED schedVars
  BY <1>1, <1>7, HandlersKeep, LedgerStands DEF LedgerInv
<1> QED
  BY <1>2, <1>3, <1>4, <1>5, <1>6, <1>7 DEF SchedulerNext, SchedulerStep, allVars, masterVars,
     schedVars

LEMMA InitLedger == SchedulerInitAll => LedgerInv
<1> SUFFICES ASSUME SchedulerInitAll PROVE LedgerInv
  OBVIOUS
<1>1. DOMAIN jobs = {} /\ DOMAIN online_nodes = {}
  BY DEF SchedulerInitAll, JobManagerInit, SchedulerInit, EmptyTable
<1> QED
  BY <1>1, FS_EmptySet DEF LedgerInv, DistinctCopies, PassLedger

(* scheduler_engine.cpp:80-104: within one pass no node is given more than *)
(* it was read to have, whatever the other threads do to the jobs and the  *)
(* registry meanwhile.                                                     *)
THEOREM PassBalances == SchedulerSpec => []PassLedger
<1>1. LedgerInv => PassLedger
  BY DEF LedgerInv
<1> QED
  BY <1>1, InitLedger, NextKeepsLedger, SchedulerInvariant, PTL DEF SchedulerSpec, allVars
=============================================================================
