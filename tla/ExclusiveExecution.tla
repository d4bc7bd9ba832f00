------------------------- MODULE ExclusiveExecution -------------------------
(***************************************************************************)
(* What the executor of an agent promises, without threads, processes or   *)
(* maps: for each job of an agent there is one slot.  A run takes a free   *)
(* slot and gives it back; no run happens twice; a run may also leave the  *)
(* slot unusable until the agent restarts, which is what the code does     *)
(* when a launch fails.                                                    *)
(***************************************************************************)
CONSTANTS Agents, JobIds, Runs, Free, Leaked

VARIABLES
  slot,                         \* per agent and job: a run, Free or Leaked
  begun                         \* the runs that have taken a slot

abstractVars == <<slot, begun>>

Init == slot = [a \in Agents |-> [j \in JobIds |-> Free]] /\ begun = {}

SetSlot(a, j, s) == slot' = [slot EXCEPT ![a][j] = s]

Begin(a, j) ==
  /\ slot[a][j] = Free
  /\ \E r \in Runs \ begun : SetSlot(a, j, r) /\ begun' = begun \cup {r}

End(a, j) == slot[a][j] \in Runs /\ SetSlot(a, j, Free) /\ UNCHANGED begun

Leak(a, j) == slot[a][j] \in Runs /\ SetSlot(a, j, Leaked) /\ UNCHANGED begun

Restart(a) ==
  slot' = [slot EXCEPT ![a] = [j \in JobIds |-> Free]] /\ UNCHANGED begun

Next ==
  \E a \in Agents :
    Restart(a) \/ \E j \in JobIds : Begin(a, j) \/ End(a, j) \/ Leak(a, j)

Spec == Init /\ [][Next]_abstractVars
=============================================================================
