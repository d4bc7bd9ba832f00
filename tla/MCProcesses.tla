---------------------------- MODULE MCProcesses ----------------------------
EXTENDS Processes

CONSTANTS a1, m1, m2, s1, s2

MCProcessNames == {"master", a1}

MCCallers == {a1} \X {"main", "heartbeat", "polling"}

(* The signals to the master, and to the agent.                            *)
MCHome == [h \in Handlers |-> IF h \in {m1, m2} THEN "master" ELSE a1]

(* Two signals, to one process or to both; m1 and s1 are the first ones.   *)
MCSignalled == {{m1}, {s1}, {m1, m2}, {s1, s2}, {m1, s1}}

(* One handler serves both numbers, so the first signal may be either.     *)
MCNumbersOf ==
  [h \in Handlers |-> IF h \in {m1, s1} THEN {"SIGINT"} ELSE {"SIGINT", "SIGTERM"}]
=============================================================================
