------------------------------- MODULE Tables -------------------------------
(* The identifiers every part of CertOS exchanges, and std::unordered_map: *)
(* the empty map, and map[key] = value.                                    *)
EXTENDS Integers, FiniteSets

CONSTANTS
  JobIds,                       \* identifiers a job can draw
  NodeIds,                      \* identifiers a node can draw
  NoNode                        \* the empty node id

ASSUME IdentifierAssumption == NoNode \notin NodeIds /\ JobIds \cap NodeIds = {}

EmptyTable == [key \in {} |-> 0]

Put(table, key, value) ==
  [k \in DOMAIN table \cup {key} |-> IF k = key THEN value ELSE table[k]]
=============================================================================
