----------------------------- MODULE MCCluster -----------------------------
(* Small clusters with one kind of job, which fits every node.             *)
EXTENDS Cluster

CONSTANTS h1, cpu

One == [d \in {cpu} |-> 1]

OneSpec == {[priority |-> 1, resources |-> One]}

OneResource == {One}

SharedHost == [a \in Agents |-> h1]

AnnouncedOne == [a \in Agents |-> One]

(* Agents, which all register alike, and identifiers are interchangeable.  *)
Symmetry ==
  Permutations(Agents) \cup Permutations(JobIds)
    \cup Permutations(NodeIds) \cup Permutations(Runs)
=============================================================================
