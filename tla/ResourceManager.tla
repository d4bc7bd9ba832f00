--------------------------- MODULE ResourceManager ---------------------------
(***************************************************************************)
(* The ledger of allocated resources (master/src/resource_manager.cpp).    *)
(* Every method holds the mutex for its whole body and is one action.  The *)
(* master constructs the ledger and nothing calls it yet, so the callers   *)
(* are those its methods are written for: whoever is granted an allocation *)
(* gives the same amount back once, and capacities come and go in between. *)
(*                                                                         *)
(* The fields are unsigned, so differences are taken modulo Modulus, which *)
(* stands for the widths of all of them.                                   *)
(***************************************************************************)
EXTENDS Tables, Functions

CONSTANTS
  Dims,                         \* the fields of a ResourceSpec
  Capacities, Requests,         \* totals announced, amounts asked for
  Modulus

ASSUME ResourceAssumption ==
  /\ Modulus \in Nat \ {0}
  /\ Capacities \subseteq [Dims -> 0..(Modulus - 1)]
  /\ Requests \subseteq [Dims -> 0..(Modulus - 1)]

VARIABLES
  capacities,                   \* capacities_: node -> total and allocated
  held,                         \* history: the grants not given back yet
  lowered                       \* history: nodes once set below what was taken

resourceVars == <<capacities, held, lowered>>

Capacity == [total: [Dims -> Nat], allocated: [Dims -> Nat]]

ResourceInit == capacities = EmptyTable /\ held = EmptyTable /\ lowered = {}

Nothing == [d \in Dims |-> 0]

Allocated(n) ==
  IF n \in DOMAIN capacities THEN capacities[n].allocated ELSE Nothing

(* Faulty: a new capacity starts a new ledger.                             *)
set_node_capacity_Resets(n, total) ==
  /\ capacities' = Put(capacities, n, [total |-> total, allocated |-> Nothing])
  /\ UNCHANGED <<held, lowered>>

(* What is allocated persists, also when the new total is less than that.  *)
set_node_capacity(n, total) ==
  /\ capacities' =
       Put(capacities, n, [total |-> total, allocated |-> Allocated(n)])
  /\ lowered' = IF \E d \in Dims : total[d] < Allocated(n)[d]
                THEN lowered \cup {n}
                ELSE lowered
  /\ UNCHANGED held

(* get_available: a difference of unsigned integers.                       *)
Available(n) ==
  [d \in Dims |->
     (capacities[n].total[d] - capacities[n].allocated[d]) % Modulus]

(* Faulty: the request is compared with the capacity.                      *)
can_accommodate_Total(n, req) ==
  /\ n \in DOMAIN capacities
  /\ \A d \in Dims : req[d] <= capacities[n].total[d]

can_accommodate(n, req) ==
  /\ n \in DOMAIN capacities
  /\ \A d \in Dims : req[d] <= Available(n)[d]

(* A refused request changes nothing and is left out.                      *)
allocate(n, req) ==
  /\ can_accommodate(n, req)
  /\ capacities' =
       [capacities EXCEPT ![n].allocated =
          [d \in Dims |-> (@[d] + req[d]) % Modulus]]

(* Faulty: without the guard against underflow.                            *)
Reduced_Unguarded(amount, req) == [d \in Dims |-> amount[d] - req[d]]

Reduced(amount, req) ==
  [d \in Dims |-> IF amount[d] > req[d] THEN amount[d] - req[d] ELSE 0]

deallocate(n, req) ==
  /\ n \in DOMAIN capacities
  /\ capacities' = [capacities EXCEPT ![n].allocated = Reduced(@, req)]

-----------------------------------------------------------------------------
(* The callers: a job takes an amount on one node and gives it back.       *)
Take(j, n, req) ==
  /\ j \notin DOMAIN held
  /\ allocate(n, req)
  /\ held' = Put(held, j, [node |-> n, amount |-> req])
  /\ UNCHANGED lowered

GiveBack(j) ==
  /\ j \in DOMAIN held
  /\ deallocate(held[j].node, held[j].amount)
  /\ held' = [k \in DOMAIN held \ {j} |-> held[k]]
  /\ UNCHANGED lowered

ResourceNext ==
  \/ \E n \in NodeIds, total \in Capacities : set_node_capacity(n, total)
  \/ \E j \in JobIds, n \in NodeIds, req \in Requests : Take(j, n, req)
  \/ \E j \in JobIds : GiveBack(j)

ResourceSpec == ResourceInit /\ [][ResourceNext]_resourceVars

-----------------------------------------------------------------------------
(* The ledger keeps its types.  A node whose capacity was lowered may have *)
(* wrapped and then be given back more than it shows: deallocate must not  *)
(* go below zero (resource_manager.cpp:43).                                *)
ResourceTypeOK ==
  /\ capacities \in [DOMAIN capacities -> Capacity]
  /\ DOMAIN capacities \subseteq NodeIds
  /\ DOMAIN held \subseteq JobIds
  /\ held \in [DOMAIN held -> [node: DOMAIN capacities, amount: Requests]]
  /\ lowered \subseteq DOMAIN capacities

HeldOn(n) == {j \in DOMAIN held : held[j].node = n}

Granted(n, d) == SumFunctionOnSet([j \in DOMAIN held |-> held[j].amount[d]], HeldOn(n))

(* While no capacity of a node was set below what was taken from it, the   *)
(* ledger shows exactly the grants that are out: nothing is lost when a    *)
(* machine announces itself again, and nothing is given back twice.        *)
LedgerBalances ==
  \A n \in DOMAIN capacities \ lowered, d \in Dims :
    capacities[n].allocated[d] = Granted(n, d)

(* And no more is ever taken than there is, in any dimension: the unsigned *)
(* difference behind every check (resource_manager.cpp:21) does not wrap.  *)
NoOvercommit ==
  \A n \in DOMAIN capacities \ lowered, d \in Dims :
    capacities[n].allocated[d] <= capacities[n].total[d]
=============================================================================
