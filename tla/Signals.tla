-------------------------------- MODULE Signals --------------------------------
(***************************************************************************)
(* Signals and their handlers (external: signal(2) as glibc and Linux      *)
(* implement it, and the log of logging.cpp), for the processes of         *)
(* master/src/main.cpp and agent/src/main.cpp, which register one handler  *)
(* for two numbers.                                                        *)
(*                                                                         *)
(* A handler runs on top of what a thread is doing, which stands still     *)
(* meanwhile.  It masks its own number, in that thread only: the other     *)
(* number may interrupt the handler, and the same number goes to another   *)
(* thread.  A process gives a signal to its main thread unless the number  *)
(* is masked there.  The log is written under mutexes that are not         *)
(* recursive (its sinks are _mt), and the handler begins with a log line:  *)
(* one that interrupts a log line may wait for its own thread for ever.    *)
(***************************************************************************)
CONSTANTS
  Processes,
  Handlers,                     \* handler calls; each runs at most once
  Home,                         \* the process a handler call belongs to
  Signalled,                    \* bound: the sets of handler calls that may have come
  NumbersOf                     \* bound: the numbers a handler call may be for

Numbers == {"SIGINT", "SIGTERM"}

(* Threads beside the main one, which is named as its process; pool stands *)
(* for any of the threads of the rpc library.                              *)
Threads == {"scheduler", "heartbeat", "polling", "pool"}

ASSUME HandlersAssumption ==
  /\ Home \in [Handlers -> Processes]
  /\ NumbersOf \in [Handlers -> SUBSET Numbers]
  /\ Handlers \cap (Processes \cup Threads \cup {"none"}) = {}
  /\ Processes \cap (Threads \cup {"none"}) = {}

VARIABLES
  pc,                           \* where main threads and handlers stand
  under,                        \* what a handler runs on top of
  number,                       \* the number it was called for
  log_held,                     \* processes whose log is held for good
  early,                        \* history: got a signal while they started
  overlapped                    \* history: got one while a handler ran

signalVars == <<pc, under, number, log_held, early, overlapped>>

SignalsInit(start) ==
  /\ pc = [x \in Processes \cup Handlers |->
             IF x \in Processes THEN start ELSE "unsent"]
  /\ under = [h \in Handlers |-> "none"]
  /\ number = [h \in Handlers |-> "none"]
  /\ log_held = {} /\ early = {} /\ overlapped = {}

Active(p) == {h \in Handlers : Home[h] = p /\ under[h] # "none"}

Interrupted(p, x) == \E h \in Active(p) : under[h] = x

Ended(p) == pc[p] \in {"gone", "aborted"}

(* With two numbers at most two handlers are on top of one another.        *)
ThreadOf(x) ==
  IF x \notin Handlers THEN x
  ELSE IF under[x] \in Handlers THEN under[under[x]] ELSE under[x]

Masks(x) ==
  IF x \notin Handlers THEN {}
  ELSE {number[x]} \cup
         IF under[x] \in Handlers THEN {number[under[x]]} ELSE {}

(* x of process p is on top of its thread and is interrupted for n.        *)
Receives(p, x, n) ==
  /\ x = "pool" \/ ~Interrupted(p, x)
  /\ n \notin Masks(x)
  /\ \/ ThreadOf(x) = p
     \/ \E h \in Active(p) : ThreadOf(h) = p /\ number[h] = n

-----------------------------------------------------------------------------
(* The steps of main threads and handlers.                                 *)
Go(p, who, from, to) ==
  /\ pc[who] = from
  /\ ~Interrupted(p, who) /\ ~Ended(p)
  /\ pc' = [pc EXCEPT ![who] = to]
  /\ UNCHANGED <<under, number, log_held, early, overlapped>>

Return(h, from) ==
  /\ pc[h] = from
  /\ ~Interrupted(Home[h], h) /\ ~Ended(Home[h])
  /\ pc' = [pc EXCEPT ![h] = "done"]
  /\ under' = [under EXCEPT ![h] = "none"]
  /\ number' = [number EXCEPT ![h] = "none"]
  /\ UNCHANGED <<log_held, early, overlapped>>

(* std::terminate, or worse.                                               *)
Abort(p) ==
  /\ pc' = [pc EXCEPT ![p] = "aborted"]
  /\ UNCHANGED <<under, number, log_held, early, overlapped>>

(* A signal comes; starting: p is where a handler misses what it stops;    *)
(* logging: what it interrupts may hold the log.                           *)
Signal(h, x, starting, logging) ==
  LET p == Home[h] IN
  /\ pc[h] = "unsent" /\ ~Ended(p)
  /\ {g \in Handlers : pc[g] # "unsent"} \cup {h} \in Signalled
  /\ \E n \in NumbersOf[h] :
       Receives(p, x, n) /\ number' = [number EXCEPT ![h] = n]
  /\ pc' = [pc EXCEPT ![h] = "log"]
  /\ under' = [under EXCEPT ![h] = x]
  /\ \/ UNCHANGED log_held
     \/ logging /\ log_held' = log_held \cup {p}
  /\ early' = IF starting THEN early \cup {p} ELSE early
  /\ overlapped' = IF Active(p) # {} THEN overlapped \cup {p} ELSE overlapped

(* So far p got no signal while a handler ran and none while it started.   *)
Orderly(p) == p \notin early \cup overlapped
=============================================================================
