---------------------------- MODULE NodeRegistry ----------------------------
(***************************************************************************)
(* The master's node table (master/src/node_registry.cpp).  Every method   *)
(* holds mutex_ for its whole body.  A machine is recognised by its        *)
(* hostname and address together; a Host is one such pair.                 *)
(*                                                                         *)
(* Abstracted: total_resources, running_jobs, os_info and the ports, which *)
(* are displayed only; registered_at.                                      *)
(***************************************************************************)
EXTENDS Common

CONSTANTS
  Hosts,                        \* hostname and address pairs
  Resources,                    \* amounts a node may announce
  NodeTimeout                   \* argument of check_timeouts

ASSUME NodeRegistryAssumption == NodeTimeout \in Nat

VARIABLE nodes                  \* nodes_: node id -> NodeInfo

NodeInfo == [host: Hosts, status: {"ONLINE", "OFFLINE"},
             available: Resources, last_heartbeat: Nat]

NodeRegistryInit == nodes = EmptyTable

(* Faulty: any known machine is taken for the one that registers.          *)
SameMachine_Any(n, h) == n \in DOMAIN nodes /\ h \in Hosts

SameMachine(n, h) == nodes[n].host = h

(* Faulty: every registration draws an id.                                 *)
register_node_AlwaysNew(h, total, n) ==
  /\ Fresh(n)
  /\ nodes' = Put(nodes, n, [host |-> h, status |-> "ONLINE",
                             available |-> total, last_heartbeat |-> now])

(* A known machine keeps its id, an unknown one draws a fresh id; n is the *)
(* id returned.  Either way the entry starts over, ONLINE and unused.      *)
register_node(h, total, n) ==
  /\ IF \E m \in DOMAIN nodes : SameMachine(m, h)
     THEN n \in DOMAIN nodes /\ SameMachine(n, h) /\ UNCHANGED issued
     ELSE Fresh(n)
  /\ nodes' = Put(nodes, n, [host |-> h, status |-> "ONLINE",
                             available |-> total, last_heartbeat |-> now])

(* No RPC reaches this method.                                             *)
unregister_node(n) ==
  /\ n \in DOMAIN nodes
  /\ nodes' = [m \in DOMAIN nodes \ {n} |-> nodes[m]]

(* Returns whether the node is known, which Acknowledged states.           *)
Acknowledged(n) == n \in DOMAIN nodes

(* Faulty: a heartbeat does not bring the node back.                       *)
update_heartbeat_StaysOffline(n, available) ==
  nodes' = IF Acknowledged(n)
           THEN [nodes EXCEPT ![n].available = available, ![n].last_heartbeat = now]
           ELSE nodes

update_heartbeat(n, available) ==
  nodes' = IF Acknowledged(n)
           THEN [nodes EXCEPT ![n].status = "ONLINE",
                              ![n].available = available,
                              ![n].last_heartbeat = now]
           ELSE nodes

Silent(n) == now - nodes[n].last_heartbeat > NodeTimeout

(* Nothing in the program calls it.                                        *)
check_timeouts ==
  nodes' = [n \in DOMAIN nodes |->
              IF nodes[n].status = "ONLINE" /\ Silent(n)
              THEN [nodes[n] EXCEPT !.status = "OFFLINE"]
              ELSE nodes[n]]

get_all_nodes == nodes

OnlineNodes == {n \in DOMAIN nodes : nodes[n].status = "ONLINE"}

-----------------------------------------------------------------------------
(* One machine, one node id: however often and in whatever order machines  *)
(* register, are removed and come back, no machine is listed twice.        *)
OneIdPerMachine ==
  \A m, n \in DOMAIN nodes : SameMachine(m, nodes[n].host) => m = n

(* A node id is never passed on to another machine, not even after         *)
(* unregister_node: an agent that still uses it can only be refused.       *)
IdsAreNotReused ==
  [][\A n \in issued \cap DOMAIN nodes' :
       n \in DOMAIN nodes /\ nodes'[n].host = nodes[n].host]_<<nodes, issued>>

(* Only silence takes a node offline, and the next heartbeat or            *)
(* registration brings it back.                                            *)
OfflineMeansSilent ==
  \A n \in DOMAIN nodes : nodes[n].status = "OFFLINE" => Silent(n)

=============================================================================
