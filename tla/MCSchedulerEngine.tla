-------------------------- MODULE MCSchedulerEngine --------------------------
(* A large urgent job, a small one, and machines for one of them or both.  *)
EXTENDS SchedulerEngine

CONSTANT cpu

Amount(c) == [d \in {cpu} |-> c]

MCSpecs == {[priority |-> 2, resources |-> Amount(2)],
            [priority |-> 1, resources |-> Amount(1)]}

MCResources == {Amount(1), Amount(3)}

Symmetry == Permutations(JobIds) \cup Permutations(NodeIds) \cup Permutations(Hosts)
=============================================================================
