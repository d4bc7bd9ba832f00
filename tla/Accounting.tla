------------------------------ MODULE Accounting ------------------------------
(***************************************************************************)
(* The two ledgers a master owns side by side (master_server.cpp:26): what *)
(* the jobs hold of each node, and what the users have consumed.  Each has *)
(* a mutex of its own, so their calls interleave.                          *)
(***************************************************************************)
EXTENDS ResourceManager, FairShare

AccountingInit == ResourceInit /\ FairShareInit

AccountingNext ==
  \/ ResourceNext /\ UNCHANGED fairVars
  \/ FairShareNext /\ UNCHANGED resourceVars

AccountingSpec ==
  AccountingInit /\ [][AccountingNext]_<<resourceVars, fairVars>>
=============================================================================
