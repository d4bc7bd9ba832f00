---------------------------- MODULE JobLifecycle ----------------------------
(***************************************************************************)
(* What a user may rely on when following a job through GetJobStatus, with *)
(* no scheduler, agent, message or clock in sight.  A job is queued once,  *)
(* is given a node at most once and for good, and moves on reports of that *)
(* node only.  Nothing here says that a terminal status is final: the      *)
(* program does not promise it.                                            *)
(***************************************************************************)
CONSTANTS JobIds, NodeIds, NoNode

VARIABLES
  status,                       \* "NONE" before submission, "GONE" once lost
  node                          \* the node of a job, NoNode while it has none

lifecycleVars == <<status, node>>

Init ==
  status = [j \in JobIds |-> "NONE"] /\ node = [j \in JobIds |-> NoNode]

Move(j, from, to) ==
  status[j] \in from /\ \E s \in to : status' = [status EXCEPT ![j] = s]

Submit(j) == Move(j, {"NONE"}, {"QUEUED"}) /\ UNCHANGED node

(* A job cancelled while the scheduler looked at it may still be assigned. *)
Assign(j) ==
  /\ node[j] = NoNode
  /\ Move(j, {"QUEUED", "CANCELLED"}, {"ASSIGNED"})
  /\ \E n \in NodeIds : node' = [node EXCEPT ![j] = n]

NodeReports(j) ==
  /\ node[j] # NoNode
  /\ Move(j, {"ASSIGNED", "RUNNING", "COMPLETED", "FAILED", "CANCELLED"},
             {"RUNNING", "COMPLETED", "FAILED"})
  /\ UNCHANGED node

Cancel(j) ==
  Move(j, {"QUEUED", "ASSIGNED", "RUNNING"}, {"CANCELLED"}) /\ UNCHANGED node

(* The master restarts: every job it knew is lost at once.                 *)
LoseAll ==
  /\ status' = [j \in JobIds |-> IF status[j] = "NONE" THEN "NONE" ELSE "GONE"]
  /\ node' = [j \in JobIds |-> NoNode]

Next ==
  LoseAll \/ \E j \in JobIds : Submit(j) \/ Assign(j) \/ NodeReports(j) \/ Cancel(j)

Spec == Init /\ [][Next]_lifecycleVars
=============================================================================
