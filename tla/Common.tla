------------------------------- MODULE Common -------------------------------
(***************************************************************************)
(* What the master takes from lib/common: the clock and the generator of   *)
(* identifiers.                                                            *)
(*                                                                         *)
(* now_unix() counts whole seconds; here it is the variable now, which     *)
(* starts at 1 because the code tests "never happened" as timestamp == 0.  *)
(* generate_uuid() is taken to be collision free: issued holds every       *)
(* identifier drawn so far.  Identifiers keep only 8 hex digits of the     *)
(* uuid, so this is an assumption about the environment.                   *)
(***************************************************************************)
EXTENDS Tables

CONSTANT MaxNow                 \* bound on the clock

ASSUME ClockAssumption == MaxNow \in Nat \ {0}

VARIABLES
  now,                          \* now_unix()
  issued                        \* identifiers generate_uuid() has returned

commonVars == <<now, issued>>

CommonInit == now = 1 /\ issued = {}

Fresh(id) == id \notin issued /\ issued' = issued \cup {id}

(* Time passes under nobody's control.                                     *)
Tick == now < MaxNow /\ now' = now + 1
=============================================================================
