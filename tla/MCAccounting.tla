---------------------------- MODULE MCAccounting ----------------------------
(* Machines with one or two kinds of resource that shrink and grow, small  *)
(* and large demands, and two users who are charged one or two years.      *)
EXTENDS Accounting, TLC

CONSTANTS cpu, gpu

Amount(c, g) == (cpu :> c) @@ (gpu :> g)

MCCapacities == {Amount(2, 1), Amount(3, 2)}

MCRequests == {Amount(1, 0), Amount(2, 1)}

(* A year of a small machine, 8192 hours, is 2^MaxNow units.               *)
Year == 2^MaxNow

MCCharges == {Year, 2 * Year}

(* 100 / (1 + log1p(hours)).  From a year on, jobs of one user whose       *)
(* priorities differ by one count as equal, and the comparator is no       *)
(* longer a strict weak order.                                             *)
MCPenalty ==
  [usage \in 1..(MaxCharges * Year) |->
     CASE usage <= Year \div 4 -> 12
       [] usage <= Year \div 2 -> 11
       [] usage <= Year        -> 10
       [] OTHER                -> 9]

Symmetry ==
  Permutations(JobIds) \cup Permutations(NodeIds) \cup Permutations(Users)
=============================================================================
