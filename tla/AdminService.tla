---------------------------- MODULE AdminService ----------------------------
(* The administration half of the master: requests and accounts share one  *)
(* database file, which outlives the process.                              *)
EXTENDS JobRequests, Accounts

CONSTANTS
  MaxCalls,                     \* bound on the handlers under way at a time
  MaxRestarts,                  \* bound on the restarts of the master
  Mixed                         \* bound: if FALSE, a behaviour changes one of the halves

ASSUME AdminAssumption == MaxCalls \in Nat /\ MaxRestarts \in Nat /\ Mixed \in BOOLEAN

VARIABLE restarts

adminVars == <<jobs, commonVars, requestVars, accountVars, restarts>>

AdminInit ==
  CommonInit /\ JobManagerInit /\ RequestsInit /\ AccountsInit /\ restarts = 0

UnderWay == {c \in Callers : calls[c].step \in {"submit_job", "write"}}
              \cup {c \in Creators : creations[c].step # "idle"}

RestartMaster ==
  /\ restarts < MaxRestarts /\ restarts' = restarts + 1
  /\ RequestsRestart /\ AccountsRestart

AdminStep ==
  \/ RequestsStep /\ UNCHANGED <<accountVars, restarts>>
  \/ \E c \in Creators :
       CreateUser(c) /\ UNCHANGED <<jobs, commonVars, requestVars, restarts>>
  \/ RestartMaster

(* The halves share nothing but the restart.                               *)
OneHalf ==
  \/ job_requests = EmptyTable
  \/ /\ passwords = BuiltIn /\ unsaved = {}
     /\ \A c \in Creators : creations[c].step = "idle"

AdminNext ==
  AdminStep /\ Cardinality(UnderWay') <= MaxCalls /\ (Mixed \/ OneHalf')

AdminSpec == AdminInit /\ [][AdminNext]_adminVars

AdminTypeOK == RequestsTypeOK /\ AccountsTypeOK /\ restarts \in 0..MaxRestarts
=============================================================================
