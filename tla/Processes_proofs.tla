-------------------------- MODULE Processes_proofs --------------------------
(***************************************************************************)
(* For any number of agents and signals: what a master destroys is not in  *)
(* use any more, and a stopped agent makes no more calls.                  *)
(*                                                                         *)
(* Neither is inductive.  Both need that a process which gets no signal    *)
(* while a handler runs has one handler at a time, on top of its main      *)
(* thread (SignalInv).  The first then needs where the scheduler thread is *)
(* for every place main can be at while it stops, a handler stopping the   *)
(* same things (ThreadInv), and what main left of the server (ServerInv);  *)
(* the second which loops a handler has still to wait for, and that those  *)
(* it does not wait for have ended (AgentInv).                             *)
(***************************************************************************)
EXTENDS Processes, TLAPS

Idle == {"unsent", "done"}

Places == MainStates \cup HandlerStates \cup AgentMainStates \cup AgentHandlerStates

SignalsTyped ==
  /\ pc \in [Processes \cup Handlers -> Places]
  /\ under \in [Handlers -> {"none"} \cup Processes \cup Threads \cup Handlers]

SignalInv ==
  /\ SignalsTyped
  /\ \A h \in Handlers : pc[h] \in Idle <=> under[h] = "none"
  /\ \A p \in Processes : Orderly(p) =>
       \A h \in Active(p) : under[h] = p /\ \A g \in Active(p) : g = h

(* The threads of p that can take a step: main and its handlers.           *)
Own(p) == {p} \cup {h \in Handlers : Home[h] = p}

SameFor(q) ==
  /\ \A x \in Own(q) : pc'[x] = pc[x]
  /\ Orderly(q)' <=> Orderly(q)

(* Only who moves, to that place, and when all was orderly nobody else of  *)
(* its process is in a handler.                                            *)
Effect(p, who, to) ==
  /\ SignalInv' /\ pc'[who] = to /\ ~Ended(p)
  /\ \A x \in Own(p) : x # who => pc'[x] = pc[x]
  /\ \A q \in Processes : q # p => SameFor(q)
  /\ Orderly(p)' => Orderly(p)

Alone(p, who) ==
  Orderly(p) => \A h \in Own(p) \cap Handlers : h # who => pc[h] \in Idle

LEMMA OwnFacts ==
  ASSUME NEW p \in Processes, NEW x \in Own(p)
  PROVE  /\ x \in Processes \cup Handlers /\ p \in Own(p)
         /\ \A q \in Processes : q # p => x \notin Own(q)
         /\ p \notin Handlers /\ (x # p => x \in Handlers /\ Home[x] = p)
BY HandlersAssumption DEF Own

(* Who may step and is not interrupted is alone in an orderly process.     *)
LEMMA StepsAlone ==
  ASSUME SignalInv, NEW p \in Processes, NEW who \in Own(p), ~Interrupted(p, who),
         who \in Handlers => pc[who] \notin Idle
  PROVE  Alone(p, who)
<1> SUFFICES ASSUME Orderly(p), NEW h \in Own(p) \cap Handlers, h # who, pc[h] \notin Idle
             PROVE  FALSE
  BY DEF Alone
<1>1. h \in Active(p) /\ under[h] = p
  BY HandlersAssumption DEF SignalInv, Active, Own
<1>2. CASE who = p
  BY <1>1, <1>2 DEF Interrupted
<1>3. CASE who # p
  <2>1. who \in Active(p)
    BY <1>3, OwnFacts DEF SignalInv, Active
  <2> QED
    BY <1>1, <2>1 DEF SignalInv
<1> QED
  BY <1>2, <1>3

LEMMA GoFacts ==
  ASSUME SignalInv, NEW p \in Processes, NEW who \in Own(p), NEW from, NEW to \in Places,
         Go(p, who, from, to), who \in Handlers => from \notin Idle /\ to \notin Idle
  PROVE  Effect(p, who, to) /\ Alone(p, who) /\ pc[who] = from
<1>1. who \in Processes \cup Handlers /\ \A q \in Processes : q # p => who \notin Own(q)
  BY OwnFacts
<1>2. /\ pc[who] = from /\ ~Interrupted(p, who) /\ ~Ended(p)
      /\ pc' = [pc EXCEPT ![who] = to]
      /\ under' = under /\ early' = early /\ overlapped' = overlapped
  BY DEF Go
<1>3. /\ pc'[who] = to
      /\ \A x \in Processes \cup Handlers : x # who => pc'[x] = pc[x]
      /\ pc' \in [Processes \cup Handlers -> Places]
  BY <1>1, <1>2 DEF SignalInv, SignalsTyped
<1>4. \A q : Orderly(q)' <=> Orderly(q)
  BY <1>2 DEF Orderly
<1>5. \A q : Active(q)' = Active(q)
  BY <1>2 DEF Active
<1>6. \A h \in Handlers : pc'[h] \in Idle <=> under'[h] = "none"
  BY <1>2, <1>3 DEF SignalInv
<1>7. SignalInv'
  BY <1>2, <1>3, <1>4, <1>5, <1>6 DEF SignalInv, SignalsTyped
<1>8. \A q \in Processes : q # p => SameFor(q)
  BY <1>1, <1>3, <1>4, OwnFacts DEF SameFor
<1>9. \A x \in Own(p) : x # who => pc'[x] = pc[x]
  BY <1>3, OwnFacts
<1> QED
  BY <1>2, <1>3, <1>4, <1>7, <1>8, <1>9, StepsAlone DEF Effect

LEMMA ReturnFacts ==
  ASSUME SignalInv, NEW p \in Processes, NEW h \in Handlers, Home[h] = p, NEW from,
         from \notin Idle, Return(h, from)
  PROVE  Effect(p, h, "done") /\ Alone(p, h) /\ pc[h] = from
<1>1. h \in Own(p) /\ \A q \in Processes : q # p => h \notin Own(q)
  BY OwnFacts DEF Own
<1>2. /\ pc[h] = from /\ ~Interrupted(p, h) /\ ~Ended(p)
      /\ pc' = [pc EXCEPT ![h] = "done"] /\ under' = [under EXCEPT ![h] = "none"]
      /\ early' = early /\ overlapped' = overlapped
  BY DEF Return
<1>3. /\ pc'[h] = "done" /\ under'[h] = "none"
      /\ \A x \in Processes \cup Handlers : x # h => pc'[x] = pc[x]
      /\ \A x \in Handlers : x # h => under'[x] = under[x]
      /\ SignalsTyped'
  BY <1>2 DEF SignalInv, SignalsTyped, Places, HandlerStates
<1>4. \A q : Orderly(q)' <=> Orderly(q)
  BY <1>2 DEF Orderly
<1>5. \A q : Active(q)' \subseteq Active(q) \ {h}
  BY <1>3 DEF Active
<1>6. \A x \in Handlers : pc'[x] \in Idle <=> under'[x] = "none"
  BY <1>3 DEF SignalInv, Idle
<1>7. SignalInv'
  <2>1. ASSUME NEW q \in Processes, Orderly(q)', NEW x \in Active(q)', NEW y \in Active(q)'
        PROVE  under'[x] = q /\ y = x
    BY <1>3, <1>4, <1>5, <2>1 DEF SignalInv, Active
  <2> QED
    BY <1>3, <1>6, <2>1 DEF SignalInv
<1>8. \A q \in Processes : q # p => SameFor(q)
  BY <1>1, <1>3, <1>4, OwnFacts DEF SameFor
<1>9. \A x \in Own(p) : x # h => pc'[x] = pc[x]
  BY <1>3, OwnFacts
<1> QED
  BY <1>1, <1>2, <1>3, <1>4, <1>7, <1>8, <1>9, StepsAlone DEF Effect

LEMMA AbortFacts ==
  ASSUME SignalInv, NEW p \in Processes, Abort(p), ~Ended(p)
  PROVE  Effect(p, p, "aborted")
<1>1. p \in Own(p) /\ p \notin Handlers /\ \A q \in Processes : q # p => p \notin Own(q)
  BY OwnFacts DEF Own
<1>2. /\ pc' = [pc EXCEPT ![p] = "aborted"]
      /\ under' = under /\ early' = early /\ overlapped' = overlapped
  BY DEF Abort
<1>3. /\ pc'[p] = "aborted"
      /\ \A x \in Processes \cup Handlers : x # p => pc'[x] = pc[x]
      /\ pc' \in [Processes \cup Handlers -> Places]
  BY <1>2 DEF SignalInv, SignalsTyped, Places, MainStates
<1>4. \A q : (Orderly(q)' <=> Orderly(q)) /\ Active(q)' = Active(q)
  BY <1>2 DEF Orderly, Active
<1>5. SignalInv'
  BY <1>1, <1>2, <1>3, <1>4 DEF SignalInv, SignalsTyped
<1>6. \A q \in Processes : q # p => SameFor(q)
  BY <1>1, <1>3, <1>4, OwnFacts DEF SameFor
<1>7. \A x \in Own(p) : x # p => pc'[x] = pc[x]
  BY <1>3, OwnFacts
<1> QED
  BY <1>3, <1>4, <1>5, <1>6, <1>7 DEF Effect

(* A signal that leaves its process orderly meets no handler and not its   *)
(* start, and goes to main.                                                *)
LEMMA SignalFacts ==
  ASSUME SignalInv, NEW h \in Handlers, NEW p \in Processes, p = Home[h],
         NEW x \in {p} \cup Active(p) \cup Threads, NEW starting, NEW logging,
         Signal(h, x, starting, logging)
  PROVE  /\ Effect(p, h, "log") /\ pc[h] = "unsent"
         /\ Orderly(p)' => ~starting /\ \A g \in Own(p) \cap Handlers : pc[g] \in Idle
<1>1. h \in Own(p) /\ \A q \in Processes : q # p => h \notin Own(q)
  BY OwnFacts DEF Own
<1>2. PICK n \in NumbersOf[h] : Receives(p, x, n)
  BY DEF Signal
<1>3. /\ pc[h] = "unsent" /\ ~Ended(p)
      /\ pc' = [pc EXCEPT ![h] = "log"] /\ under' = [under EXCEPT ![h] = x]
      /\ early' = IF starting THEN early \cup {p} ELSE early
      /\ overlapped' = IF Active(p) # {} THEN overlapped \cup {p} ELSE overlapped
  BY DEF Signal
<1>4. x \in Processes \cup Threads \cup Handlers /\ x # "none"
  BY HandlersAssumption DEF Active, Threads
<1>5. /\ pc'[h] = "log" /\ under'[h] = x
      /\ \A y \in Processes \cup Handlers : y # h => pc'[y] = pc[y]
      /\ \A y \in Handlers : y # h => under'[y] = under[y]
      /\ SignalsTyped'
  BY <1>3, <1>4 DEF SignalInv, SignalsTyped, Places, HandlerStates
<1>6. /\ Orderly(p)' => Orderly(p) /\ ~starting /\ Active(p) = {}
      /\ \A q \in Processes : q # p => (Orderly(q)' <=> Orderly(q))
  BY <1>3 DEF Orderly
<1>7. /\ \A q \in Processes : q # p => Active(q)' = Active(q)
      /\ Active(p)' = Active(p) \cup {h}
  BY <1>4, <1>5 DEF Active
<1>8. Active(p) = {} => x = p
  <2> SUFFICES ASSUME Active(p) = {} PROVE x = p
    OBVIOUS
  <2>1. ThreadOf(x) = p
    BY <1>2 DEF Receives
  <2>2. x \notin Handlers
    BY HandlersAssumption DEF Active
  <2> QED
    BY <2>1, <2>2 DEF ThreadOf
<1>9. \A y \in Handlers : pc'[y] \in Idle <=> under'[y] = "none"
  BY <1>4, <1>5 DEF SignalInv, Idle
<1>10. SignalInv'
  <2>1. ASSUME NEW q \in Processes, Orderly(q)', NEW y \in Active(q)', NEW z \in Active(q)'
        PROVE  under'[y] = q /\ z = y
    <3>1. CASE q = p
      BY <1>5, <1>6, <1>7, <1>8, <2>1, <3>1
    <3>2. CASE q # p
      <4>1. y \in Active(q) /\ z \in Active(q) /\ Orderly(q) /\ y # h
        BY <1>6, <1>7, <2>1, <3>2 DEF Active
      <4>2. under'[y] = under[y]
        BY <1>5, <4>1 DEF Active
      <4> QED
        BY <4>1, <4>2 DEF SignalInv
    <3> QED
      BY <3>1, <3>2
  <2> QED
    BY <1>5, <1>9, <2>1 DEF SignalInv
<1>11. \A q \in Processes : q # p => SameFor(q)
  BY <1>1, <1>5, <1>6, OwnFacts DEF SameFor
<1>12. \A y \in Own(p) : y # h => pc'[y] = pc[y]
  BY <1>5, OwnFacts
<1>13. Active(p) = {} => \A g \in Own(p) \cap Handlers : pc[g] \in Idle
  BY HandlersAssumption DEF SignalInv, Active, Own
<1> QED
  BY <1>3, <1>5, <1>6, <1>10, <1>11, <1>12, <1>13 DEF Effect

-----------------------------------------------------------------------------
(* The master.  No call is handled without a server, and main has none     *)
(* left when it is past stopping it.                                       *)
ServerInv ==
  /\ pc["master"] \in Starting \ {"log_listening"} => grpc_server = "none"
  /\ grpc_server \in {"none", "down"} => \A c \in Callers : call[c] # "handled"
  /\ pc["master"] \in {"log_stopped", "destroy", "gone"} => grpc_server \in {"none", "down"}
  /\ \A x \in Activations : pc[x] = "drain" => grpc_server # "none"

Unassigned == {"construct", "start", "spawn", "assign"}

PastJoin == {"log_joined", "shutdown", "drain", "log_stopped", "destroy", "gone"}

(* Who finds the scheduler running joins it: main, or a handler before     *)
(* main goes on.                                                           *)
Threading ==
  /\ pc["master"] \in Starting => \A h \in MasterHandlers : pc[h] \in Idle
  /\ pc["master"] \in {"construct", "start"} => ~running
  /\ pc["master"] \in {"construct", "start", "spawn"} <=> scheduler = "none"
  /\ pc["master"] \in Starting \ {"construct", "start"} => running
  /\ pc["master"] \in Unassigned => ~joinable
  /\ pc["master"] \notin Unassigned => (joinable <=> scheduler # "joined")
  /\ running => scheduler \notin {"ended", "joined"}
  /\ pc["master"] \in {"wait", "test", "clear"} /\ ~running =>
       scheduler = "joined" \/ \E h \in MasterHandlers : pc[h] = "join"
  /\ pc["master"] \in {"join"} \cup PastJoin => ~running
  /\ pc["master"] \in PastJoin => scheduler = "joined"

ThreadInv == Orderly("master") => Threading

MasterInv == MasterTypeOK /\ ServerInv /\ ThreadInv

LEMMA MasterFacts ==
  /\ "master" \in Processes /\ "master" \notin Handlers
  /\ Own("master") = Activations /\ MasterHandlers \subseteq Handlers
  /\ MasterHandlers = Own("master") \cap Handlers
  /\ MainStates \subseteq Places /\ HandlerStates \subseteq Places
BY MasterAssumption, HandlersAssumption DEF Own, Activations, MasterHandlers, Places

(* Moves of main.                                                          *)
LEMMA MainMoves ==
  ASSUME SignalInv, NEW from, NEW to \in MainStates, Main(from, to)
  PROVE  /\ pc["master"] = from /\ Effect("master", "master", to)
         /\ \A h \in MasterHandlers : pc'[h] = pc[h]
         /\ Orderly("master")' => Orderly("master") /\ \A h \in MasterHandlers : pc[h] \in Idle
<1>1. "master" \in Own("master") /\ to \in Places
  BY MasterFacts DEF Activations
<1>2. Effect("master", "master", to) /\ Alone("master", "master") /\ pc["master"] = from
  BY <1>1, MasterFacts, GoFacts DEF Main
<1> QED
  BY <1>2, MasterFacts DEF Effect, Alone

(* Moves of a handler.                                                     *)
LEMMA HandlerMoves ==
  ASSUME SignalInv, NEW h \in MasterHandlers, NEW from, from \notin Idle,
         NEW to \in HandlerStates,
         \/ Step(h, from, to) /\ to \notin Idle
         \/ Return(h, from) /\ to = "done"
  PROVE  /\ pc[h] = from /\ Effect("master", h, to) /\ pc'["master"] = pc["master"]
         /\ \A g \in MasterHandlers : g # h => pc'[g] = pc[g]
         /\ Orderly("master")' =>
              Orderly("master") /\ \A g \in MasterHandlers : g # h => pc[g] \in Idle
<1>1. h \in Own("master") /\ to \in Places /\ h # "master" /\ "master" \in Own("master")
  BY MasterFacts DEF Activations
<1>2. Home[h] = "master"
  BY DEF MasterHandlers
<1>3. Effect("master", h, to) /\ Alone("master", h) /\ pc[h] = from
  <2>1. CASE Step(h, from, to) /\ to \notin Idle
    BY <1>1, <2>1, MasterFacts, GoFacts DEF Step
  <2>2. CASE Return(h, from) /\ to = "done"
    BY <1>2, <2>2, MasterFacts, ReturnFacts
  <2> QED
    BY <2>1, <2>2
<1> QED
  BY <1>1, <1>3, MasterFacts DEF Effect, Alone

(* A move of whoever stops the master.                                     *)
StopMoves(who, from, to) ==
  /\ pc[who] = from /\ pc'[who] = to
  /\ Effect("master", who, to)
  /\ \A x \in Activations : x # who => pc'[x] = pc[x]
  /\ Orderly("master")' =>
       Orderly("master") /\ \A h \in MasterHandlers : h # who => pc[h] \in Idle

LEMMA StopperMoves ==
  ASSUME SignalInv, NEW who \in Activations, NEW from \in Stopping, NEW to \in Stopping,
         Step(who, from, to)
  PROVE  StopMoves(who, from, to)
<1>1. to \in MainStates /\ to \in HandlerStates /\ to \notin Idle /\ from \notin Idle
  BY DEF MainStates, HandlerStates, Stopping, Idle
<1>2. CASE who = "master"
  BY <1>1, <1>2, MainMoves DEF Step, Main, StopMoves, Effect, Activations
<1>3. CASE who \in MasterHandlers
  BY <1>1, <1>3, HandlerMoves DEF StopMoves, Effect, Activations
<1> QED
  BY <1>2, <1>3 DEF Activations

LEMMA FinishMoves ==
  ASSUME SignalInv, NEW who \in Activations, NEW from \in Stopping, Finish(who, from)
  PROVE  \/ who = "master" /\ StopMoves(who, from, "destroy")
         \/ who \in MasterHandlers /\ StopMoves(who, from, "done")
<1>1. "destroy" \in MainStates /\ "done" \in HandlerStates /\ from \notin Idle
  BY DEF MainStates, HandlerStates, Stopping, Idle
<1>2. CASE who = "master"
  BY <1>1, <1>2, MainMoves DEF Finish, StopMoves, Effect, Activations
<1>3. CASE who # "master"
  <2>1. who \in MasterHandlers /\ Return(who, from)
    BY <1>3 DEF Finish, Activations
  <2> QED
    BY <1>1, <2>1, HandlerMoves DEF StopMoves, Effect, Activations
<1> QED
  BY <1>2, <1>3

(* A step that leaves main and its handlers where they are, or is somebody *)
(* else's.                                                                 *)
LEMMA OthersKeepMaster ==
  ASSUME MasterInv, SameFor("master"), UNCHANGED serverVars,
         call' \in [Callers -> {"none", "sent", "handled", "ok", "failed"}],
         \A c \in Callers : call'[c] = "handled" => call[c] = "handled"
  PROVE  MasterInv'
<1>1. /\ pc'["master"] = pc["master"] /\ \A h \in MasterHandlers : pc'[h] = pc[h]
      /\ Orderly("master")' <=> Orderly("master")
  BY MasterFacts DEF SameFor, Activations
<1>2. MasterTypeOK'
  BY <1>1 DEF MasterInv, MasterTypeOK, serverVars
<1>3. ServerInv'
  BY <1>1, MasterFacts DEF MasterInv, ServerInv, serverVars, Activations
<1>4. ThreadInv'
  BY <1>1 DEF MasterInv, ThreadInv, Threading, serverVars
<1> QED
  BY <1>2, <1>3, <1>4 DEF MasterInv

(* The steps of main up to its wait, and its end.                          *)
LEMMA MainKeepsInv ==
  ASSUME SignalInv, MasterInv,
         \/ Construct \/ StartScheduler \/ SpawnScheduler \/ AssignScheduler \/ LogLine
         \/ Listen \/ Wait \/ Destroy
  PROVE  SignalInv' /\ MasterInv'
<1> USE DEF MasterInv, MasterTypeOK, ServerInv, ThreadInv, Threading, Starting, Unassigned,
            PastJoin, masterVars, serverVars, Activations
<1>1. Starting \cup {"wait", "test", "destroy", "gone", "aborted"} \subseteq MainStates
  BY DEF MainStates, Stopping
<1>2. ASSUME NEW from, NEW to \in MainStates, Main(from, to)
      PROVE  /\ pc["master"] = from /\ pc'["master"] = to /\ SignalInv'
             /\ \A h \in MasterHandlers : pc'[h] = pc[h]
             /\ Orderly("master")' =>
                  Orderly("master") /\ \A h \in MasterHandlers : pc[h] \in Idle
  BY <1>2, MainMoves DEF Effect
<1>3. CASE Construct
  <2>1. Main("construct", "start")
    BY <1>3 DEF Construct
  <2> QED
    BY <1>1, <1>2, <1>3, <2>1 DEF Construct
<1>4. CASE StartScheduler
  <2>1. Main("start", "spawn")
    BY <1>4 DEF StartScheduler
  <2> QED
    BY <1>1, <1>2, <1>4, <2>1 DEF StartScheduler
<1>5. CASE SpawnScheduler
  <2>1. Main("spawn", "assign")
    BY <1>5 DEF SpawnScheduler
  <2> QED
    BY <1>1, <1>2, <1>5, <2>1 DEF SpawnScheduler
<1>6. CASE AssignScheduler
  <2>1. Main("assign", "log_started")
    BY <1>6 DEF AssignScheduler
  <2> QED
    BY <1>1, <1>2, <1>6, <2>1 DEF AssignScheduler
<1>7. CASE LogLine
  BY <1>1, <1>2, <1>7 DEF LogLine
<1>8. CASE Listen
  <2>1. Main("listen", "log_listening")
    BY <1>8 DEF Listen
  <2> QED
    BY <1>1, <1>2, <1>8, <2>1 DEF Listen
<1>9. CASE Wait
  <2>1. Main("wait", "test")
    BY <1>9 DEF Wait
  <2> QED
    BY <1>1, <1>2, <1>9, <2>1 DEF Wait
<1>10. CASE Destroy
  <2>1. PICK to \in {"aborted", "gone"} : Main("destroy", to)
    BY <1>10 DEF Destroy
  <2> QED
    BY <1>1, <1>2, <1>10, <2>1 DEF Destroy
<1> QED
  BY <1>3, <1>4, <1>5, <1>6, <1>7, <1>8, <1>9, <1>10

(* The master aborts in the middle of stopping.                            *)
LEMMA AbortKeepsInv ==
  ASSUME SignalInv, MasterInv, ~Ended("master"), Abort("master"), UNCHANGED masterVars,
         pc["master"] \notin Unassigned \/ \E h \in MasterHandlers : pc[h] \notin Idle
  PROVE  SignalInv' /\ MasterInv'
<1>1. /\ SignalInv' /\ pc'["master"] = "aborted"
      /\ \A h \in MasterHandlers : pc'[h] = pc[h]
      /\ Orderly("master")' => Orderly("master")
  BY MasterFacts, AbortFacts DEF Effect
<1>2. MasterTypeOK'
  BY <1>1 DEF MasterInv, MasterTypeOK, masterVars, serverVars, MainStates
<1>3. ServerInv'
  BY <1>1 DEF MasterInv, ServerInv, masterVars, serverVars, Starting, Activations
<1>4. ThreadInv'
  <2>1. Orderly("master")' => Threading /\ pc["master"] \notin Unassigned
    BY <1>1 DEF MasterInv, ThreadInv, Threading, Starting, Unassigned
  <2> QED
    BY <1>1, <2>1 DEF ThreadInv, Threading, masterVars, serverVars, Starting, Unassigned,
                      PastJoin
<1> QED
  BY <1>1, <1>2, <1>3, <1>4 DEF MasterInv

(* What main and the handlers see of a move of one of them.                *)
StopSplit(who, from, to) ==
  /\ SignalInv'
  /\ pc'["master"] \in MainStates /\ \A h \in MasterHandlers : pc'[h] \in HandlerStates
  /\ Orderly("master")' => Orderly("master")
  /\ \/ /\ who = "master" /\ pc["master"] = from /\ pc'["master"] = to
        /\ \A h \in MasterHandlers : pc'[h] = pc[h]
        /\ Orderly("master")' => \A h \in MasterHandlers : pc[h] \in Idle
     \/ /\ who \in MasterHandlers /\ pc[who] = from /\ pc'[who] = to
        /\ pc'["master"] = pc["master"]
        /\ \A h \in MasterHandlers : h # who => pc'[h] = pc[h]
        /\ Orderly("master")' =>
             /\ pc["master"] \notin Starting
             /\ \A h \in MasterHandlers : h # who => pc[h] \in Idle

LEMMA StopSplits ==
  ASSUME MasterInv, NEW who \in Activations, NEW from \in Stopping, NEW to,
         StopMoves(who, from, to),
         \/ to \in Stopping
         \/ who = "master" /\ to = "destroy"
         \/ who # "master" /\ to = "done"
  PROVE  StopSplit(who, from, to)
<1>1. /\ Stopping \cup {"destroy"} \subseteq MainStates
      /\ Stopping \cup {"done"} \subseteq HandlerStates /\ from \notin Idle
  BY DEF MainStates, HandlerStates, Stopping, Idle
<1>2. pc["master"] \in MainStates /\ \A h \in MasterHandlers : pc[h] \in HandlerStates
  BY DEF MasterInv, MasterTypeOK
<1>3. CASE who = "master"
  <2>1. \A h \in MasterHandlers : h # who /\ h \in Activations
    BY <1>3, MasterFacts DEF Activations
  <2> QED
    BY <1>1, <1>2, <1>3, <2>1 DEF StopMoves, Effect, StopSplit
<1>4. CASE who \in MasterHandlers
  <2>1. /\ who # "master" /\ "master" \in Activations
        /\ \A h \in MasterHandlers : h \in Activations
    BY <1>4, MasterFacts DEF Activations
  <2>2. Orderly("master")' => pc["master"] \notin Starting
    BY <1>1, <1>4 DEF StopMoves, MasterInv, ThreadInv, Threading
  <2> QED
    BY <1>1, <1>2, <1>4, <2>1, <2>2 DEF StopMoves, Effect, StopSplit
<1> QED
  BY <1>3, <1>4 DEF Activations

(* MasterServer::stop, called by main or by a handler.                     *)
LEMMA StopKeepsInv ==
  ASSUME SignalInv, MasterInv, NEW who \in Activations, StopStep(who)
  PROVE  SignalInv' /\ MasterInv'
<1> USE DEF masterVars, serverVars
<1>1. \A x \in Activations : x = "master" \/ (x \in MasterHandlers /\ x # "master")
  BY MasterFacts DEF Activations
<1>2. ASSUME NEW from \in Stopping, NEW to \in Stopping, Step(who, from, to)
      PROVE  StopSplit(who, from, to)
  BY <1>2, StopperMoves, StopSplits
<1>3. ASSUME NEW from \in Stopping, Finish(who, from)
      PROVE  StopSplit(who, from, "destroy") \/ StopSplit(who, from, "done")
  <2>1. CASE who = "master" /\ StopMoves(who, from, "destroy")
    BY <2>1, StopSplits
  <2>2. CASE who \in MasterHandlers /\ StopMoves(who, from, "done")
    <3>1. who # "master"
      BY <2>2, MasterFacts
    <3> QED
      BY <2>2, <3>1, StopSplits
  <2> QED
    BY <1>3, <2>1, <2>2, FinishMoves
<1>4. CASE TestRunning(who)
  <2>1. PICK to \in {"clear", "shutdown"} :
          Step(who, "test", to) /\ to = IF running THEN "clear" ELSE "shutdown"
    BY <1>4 DEF TestRunning
  <2>2. StopSplit(who, "test", to) /\ UNCHANGED masterVars
    BY <1>2, <1>4, <2>1 DEF Stopping, TestRunning
  <2>3. MasterTypeOK' /\ ServerInv'
    BY <2>1, <2>2 DEF StopSplit, MasterInv, MasterTypeOK, ServerInv, Starting, Activations
  <2>4. ThreadInv'
    BY <2>1, <2>2 DEF StopSplit, MasterInv, MasterTypeOK, ThreadInv, Threading, Starting,
                      Unassigned, PastJoin, Idle
  <2> QED
    BY <2>2, <2>3, <2>4 DEF StopSplit, MasterInv
<1>5. CASE ClearRunning(who)
  <2>1. /\ StopSplit(who, "clear", "join") /\ running' = FALSE
        /\ UNCHANGED <<scheduler, joinable, grpc_server, call>>
    BY <1>2, <1>5 DEF Stopping, ClearRunning
  <2>2. MasterTypeOK' /\ ServerInv'
    BY <2>1 DEF StopSplit, MasterInv, MasterTypeOK, ServerInv, Starting, Activations
  <2>3. ThreadInv'
    BY <2>1 DEF StopSplit, MasterInv, MasterTypeOK, ThreadInv, Threading, Starting,
                Unassigned, PastJoin, Idle
  <2> QED
    BY <2>1, <2>2, <2>3 DEF StopSplit, MasterInv
<1>6. CASE JoinScheduler(who)
  <2>1. CASE /\ Step(who, "join", "log_joined")
             /\ \/ ~joinable /\ UNCHANGED <<scheduler, joinable>>
                \/ joinable /\ scheduler = "ended" /\ scheduler' = "joined" /\ joinable' = FALSE
             /\ UNCHANGED <<running, grpc_server, call>>
    <3>1. StopSplit(who, "join", "log_joined")
      BY <1>2, <2>1 DEF Stopping
    <3>2. MasterTypeOK' /\ ServerInv'
      BY <2>1, <3>1 DEF StopSplit, MasterInv, MasterTypeOK, ServerInv, Starting, Activations
    <3>3. ThreadInv'
      BY <2>1, <3>1 DEF StopSplit, MasterInv, MasterTypeOK, ThreadInv, Threading, Starting,
                        Unassigned, PastJoin, Idle
    <3> QED
      BY <3>1, <3>2, <3>3 DEF StopSplit, MasterInv
  <2>2. CASE /\ pc[who] = "join" /\ ~Ended("master") /\ Abort("master")
             /\ UNCHANGED masterVars
    <3>1. pc["master"] \notin Unassigned \/ \E h \in MasterHandlers : pc[h] \notin Idle
      BY <1>1, <2>2 DEF Idle, Unassigned
    <3> QED
      BY <2>2, <3>1, AbortKeepsInv
  <2> QED
    BY <1>6, <2>1, <2>2 DEF JoinScheduler
<1>7. CASE LogJoined(who)
  <2>1. StopSplit(who, "log_joined", "shutdown") /\ UNCHANGED masterVars
    BY <1>2, <1>7 DEF LogJoined, Stopping
  <2>2. MasterTypeOK' /\ ServerInv'
    BY <2>1 DEF StopSplit, MasterInv, MasterTypeOK, ServerInv, Starting, Activations
  <2>3. ThreadInv'
    BY <2>1 DEF StopSplit, MasterInv, MasterTypeOK, ThreadInv, Threading, Starting,
                Unassigned, PastJoin, Idle
  <2> QED
    BY <2>1, <2>2, <2>3 DEF StopSplit, MasterInv
<1>8. CASE ShutdownServer(who)
  <2>1. PICK to \in {"destroy", "done", "drain", "log_stopped"} :
          /\ StopSplit(who, "shutdown", to)
          /\ \/ to \in {"destroy", "done"} /\ grpc_server = "none" /\ UNCHANGED masterVars
             \/ /\ to = "drain" /\ grpc_server = "serving" /\ grpc_server' = "draining"
                /\ UNCHANGED <<scheduler, joinable, running, call>>
             \/ to = "log_stopped" /\ grpc_server = "down" /\ UNCHANGED masterVars
    BY <1>2, <1>3, <1>8 DEF ShutdownServer, Stopping
  <2>2. MasterTypeOK'
    BY <2>1 DEF StopSplit, MasterInv, MasterTypeOK
  <2>3. ServerInv'
    BY <2>1 DEF StopSplit, MasterInv, MasterTypeOK, ServerInv, Starting, Activations
  <2>4. ThreadInv'
    BY <2>1 DEF StopSplit, MasterInv, MasterTypeOK, ThreadInv, Threading, Starting,
                Unassigned, PastJoin, Idle
  <2> QED
    BY <2>1, <2>2, <2>3, <2>4 DEF StopSplit, MasterInv
<1>9. CASE DrainServer(who)
  <2>1. /\ StopSplit(who, "drain", "log_stopped") /\ grpc_server' = "down"
        /\ \A c \in Callers : call[c] # "handled"
        /\ UNCHANGED <<scheduler, joinable, running, call>>
    BY <1>2, <1>9 DEF DrainServer, Stopping
  <2>2. MasterTypeOK'
    BY <2>1 DEF StopSplit, MasterInv, MasterTypeOK
  <2>3. ServerInv'
    BY <2>1 DEF StopSplit, MasterInv, MasterTypeOK, ServerInv, Starting, Activations
  <2>4. ThreadInv'
    BY <2>1 DEF StopSplit, MasterInv, MasterTypeOK, ThreadInv, Threading, Starting,
                Unassigned, PastJoin, Idle
  <2> QED
    BY <2>1, <2>2, <2>3, <2>4 DEF StopSplit, MasterInv
<1>10. CASE LogStopped(who)
  <2>1. PICK to \in {"destroy", "done"} :
          StopSplit(who, "log_stopped", to) /\ UNCHANGED masterVars
    BY <1>3, <1>10 DEF LogStopped, Stopping
  <2>2. MasterTypeOK'
    BY <2>1 DEF StopSplit, MasterInv, MasterTypeOK
  <2>3. ServerInv'
    BY <2>1 DEF StopSplit, MasterInv, MasterTypeOK, ServerInv, Starting, Activations
  <2>4. ThreadInv'
    BY <2>1 DEF StopSplit, MasterInv, MasterTypeOK, ThreadInv, Threading, Starting,
                Unassigned, PastJoin, Idle
  <2> QED
    BY <2>1, <2>2, <2>3, <2>4 DEF StopSplit, MasterInv
<1> QED
  BY <1>4, <1>5, <1>6, <1>7, <1>8, <1>9, <1>10 DEF StopStep

(* The handler begins, and uses what is destroyed.                         *)
LEMMA HandlerKeepsInv ==
  ASSUME SignalInv, MasterInv, NEW h \in MasterHandlers, HandleSignal(h) \/ UseDestroyed(h)
  PROVE  SignalInv' /\ MasterInv'
<1>1. CASE HandleSignal(h)
  <2>1. /\ {"test", "done"} \subseteq HandlerStates /\ "log" \notin Idle /\ "test" \notin Idle
        /\ MasterHandlers \subseteq Activations /\ "master" \in Activations
        /\ h # "master"
    BY MasterFacts DEF HandlerStates, Stopping, Idle, Activations
  <2>2. PICK to \in {"test", "done"} :
          \/ Step(h, "log", to) /\ to \notin Idle
          \/ Return(h, "log") /\ to = "done"
    BY <1>1, <2>1 DEF HandleSignal
  <2>3. /\ pc[h] = "log" /\ Effect("master", h, to) /\ pc'["master"] = pc["master"]
        /\ \A g \in MasterHandlers : g # h => pc'[g] = pc[g]
        /\ Orderly("master")' => Orderly("master")
    BY <2>1, <2>2, HandlerMoves
  <2>4. UNCHANGED <<scheduler, joinable, running, grpc_server, call>>
    BY <1>1 DEF HandleSignal, masterVars, serverVars
  <2>5. MasterTypeOK'
    BY <2>1, <2>3, <2>4 DEF MasterInv, MasterTypeOK, Effect
  <2>6. ServerInv'
    BY <2>1, <2>3, <2>4 DEF MasterInv, ServerInv, Effect, Activations
  <2>7. ThreadInv'
    BY <2>1, <2>3, <2>4 DEF MasterInv, ThreadInv, Threading, Effect
  <2> QED
    BY <2>3, <2>5, <2>6, <2>7 DEF Effect, MasterInv
<1>2. CASE UseDestroyed(h)
  BY <1>2, AbortKeepsInv DEF UseDestroyed, Ended, Unassigned
<1> QED
  BY <1>1, <1>2

(* A signal arrives.                                                       *)
LEMMA MasterSignalKeepsInv ==
  ASSUME SignalInv, MasterInv, NEW h \in MasterHandlers, MasterSignal(h)
  PROVE  SignalInv' /\ MasterInv'
<1>1. h \in Handlers /\ Home[h] = "master" /\ "master" \in Processes
  BY MasterFacts DEF MasterHandlers
<1>2. ASSUME NEW x \in {"master"} \cup Active("master") \cup Threads, NEW logging,
             Signal(h, x, pc["master"] \in Starting, logging)
      PROVE  /\ Effect("master", h, "log") /\ pc[h] = "unsent"
             /\ Orderly("master")' =>
                  /\ pc["master"] \notin Starting
                  /\ \A g \in Own("master") \cap Handlers : pc[g] \in Idle
  BY <1>1, <1>2, SignalFacts
<1>3. "scheduler" \in Threads /\ "pool" \in Threads
  BY DEF Threads
<1>4. /\ Effect("master", h, "log") /\ pc[h] = "unsent"
      /\ Orderly("master")' =>
           pc["master"] \notin Starting /\ \A g \in Own("master") \cap Handlers : pc[g] \in Idle
  BY <1>2, <1>3, Zenon DEF MasterSignal
<1>5. /\ pc'["master"] = pc["master"] /\ \A g \in MasterHandlers : g # h => pc'[g] = pc[g]
      /\ Orderly("master")' => Orderly("master")
  BY <1>1, <1>4, MasterFacts DEF Effect, Activations
<1>6. UNCHANGED <<scheduler, joinable, running, grpc_server, call>>
  BY DEF MasterSignal, masterVars, serverVars
<1>7. MasterTypeOK'
  BY <1>4, <1>5, <1>6 DEF MasterInv, MasterTypeOK, Effect, HandlerStates
<1>8. ServerInv'
  BY <1>1, <1>4, <1>5, <1>6 DEF MasterInv, ServerInv, Effect, Activations
<1>9. ThreadInv'
  BY <1>4, <1>5, <1>6 DEF MasterInv, ThreadInv, Threading, Effect
<1> QED
  BY <1>4, <1>7, <1>8, <1>9 DEF Effect, MasterInv

(* The threads beside main.                                                *)
LEMMA ThreadsKeepInv ==
  ASSUME SignalInv, MasterInv,
         SchedulerThread \/ \E c \in Callers : ServeCall(c) \/ CallFails(c)
  PROVE  SignalInv' /\ MasterInv'
<1>1. UNCHANGED signalVars
  BY DEF SchedulerThread, ServeCall, CallFails
<1>2. SignalInv'
  BY <1>1 DEF signalVars, SignalInv, SignalsTyped, Active, Orderly
<1>3. CASE SchedulerThread
  <2>1. /\ pc' = pc /\ (Orderly("master")' <=> Orderly("master"))
        /\ UNCHANGED <<joinable, running, grpc_server, call>>
        /\ \/ scheduler = "test" /\ scheduler' = IF running THEN "pass" ELSE "ended"
           \/ scheduler = "pass" /\ scheduler' = "sleep"
           \/ scheduler = "sleep" /\ scheduler' = "test"
    BY <1>3 DEF SchedulerThread, signalVars, Orderly
  <2>2. MasterTypeOK' /\ ServerInv'
    BY <2>1 DEF MasterInv, MasterTypeOK, ServerInv
  <2>3. ThreadInv'
    BY <2>1 DEF MasterInv, ThreadInv, Threading
  <2> QED
    BY <1>2, <2>2, <2>3 DEF MasterInv
<1>4. ASSUME NEW c \in Callers, ServeCall(c) \/ CallFails(c) PROVE MasterInv'
  <2>1. /\ pc' = pc /\ (Orderly("master")' <=> Orderly("master")) /\ UNCHANGED serverVars
    BY <1>1, <1>4 DEF ServeCall, CallFails, signalVars, Orderly
  <2>2. /\ call' \in [Callers -> {"none", "sent", "handled", "ok", "failed"}]
        /\ grpc_server # "serving" => \A d \in Callers : call'[d] = "handled" => call[d] = "handled"
    BY <1>4 DEF ServeCall, CallFails, Moves, MasterInv, MasterTypeOK
  <2>3. MasterTypeOK' /\ ServerInv'
    BY <2>1, <2>2 DEF MasterInv, MasterTypeOK, ServerInv, serverVars
  <2>4. ThreadInv'
    BY <2>1 DEF MasterInv, ThreadInv, Threading, serverVars
  <2> QED
    BY <2>3, <2>4 DEF MasterInv
<1> QED
  BY <1>2, <1>3, <1>4

LEMMA MasterKeepsInv ==
  ASSUME SignalInv, MasterInv, MasterNext
  PROVE  SignalInv' /\ MasterInv'
<1>1. "master" \in Activations /\ \A h \in MasterHandlers : h \in Activations
  BY DEF Activations
<1>2. CASE MainThread
  BY <1>1, <1>2, MainKeepsInv, StopKeepsInv DEF MainThread
<1>3. ASSUME NEW h \in MasterHandlers, MasterSignal(h) \/ HandlerRuns(h)
      PROVE  SignalInv' /\ MasterInv'
  BY <1>1, <1>3, MasterSignalKeepsInv, HandlerKeepsInv, StopKeepsInv DEF HandlerRuns
<1> QED
  BY <1>2, <1>3, ThreadsKeepInv DEF MasterNext

-----------------------------------------------------------------------------
(* The agents.  While a handler stops an agent it has still to wait for    *)
(* some of the loops.                                                      *)
StillJoins(h, t) ==
  pc[h] = "join_heartbeat" \/ (t = "polling" /\ pc[h] = "join_polling")

Assigns(t) == IF t = "heartbeat" THEN "assign_heartbeat" ELSE "assign_polling"

AgentsTyped == agent \in [Agents -> AgentStates]

CallsTyped == call \in [Callers -> {"none", "sent", "handled", "ok", "failed"}]

PcOK(a) ==
  pc[a] \in AgentMainStates /\ \A h \in AgentHandlers(a) : pc[h] \in AgentHandlerStates

Synchronous(a) ==
  /\ pc[a] = "registering" => call[<<a, "main">>] # "none"
  /\ \A t \in Loops : agent[a].loops[t] = "calling" <=> call[<<a, t>>] # "none"

(* A loop is not there before main started it, and can be joined once main *)
(* assigned it.                                                            *)
StartedInOrder(a) ==
  /\ pc[a] \notin {"assign_heartbeat", "spawn_polling", "assign_polling", "sleep", "aborted"} =>
       agent[a].loops["heartbeat"] = "none"
  /\ pc[a] \notin {"assign_polling", "sleep", "aborted"} => agent[a].loops["polling"] = "none"
  /\ \A t \in Loops :
       \/ agent[a].loops[t] \in {"none", "ended"} \/ t \in agent[a].joinable
       \/ pc[a] \in {Assigns(t), "aborted"}

Quietness(a) ==
  /\ HalfStarted(a) => \A h \in AgentHandlers(a) : pc[h] \in Idle
  /\ \A h \in AgentHandlers(a) :
       pc[h] \in {"join_heartbeat", "join_polling", "log_stopped"} => ~agent[a].running
  /\ ~agent[a].running =>
       \A t \in Loops :
         agent[a].loops[t] # "calling" \/ \E h \in AgentHandlers(a) : StillJoins(h, t)

Quiet(a) == Orderly(a) => Quietness(a)

AgentOK(a) == PcOK(a) /\ Synchronous(a) /\ StartedInOrder(a) /\ Quiet(a)

AgentInv == AgentsTyped /\ \A a \in Agents : AgentOK(a)

OthersKept(a) ==
  /\ \A b \in Agents : b # a => agent'[b] = agent[b]
  /\ \A q \in Processes : q # a => SameFor(q)

LEMMA AgentFacts ==
  ASSUME NEW a \in Agents
  PROVE  /\ a \in Processes /\ a # "master" /\ a \notin Handlers
         /\ Own(a) = {a} \cup AgentHandlers(a) /\ AgentHandlers(a) = Own(a) \cap Handlers
         /\ AgentMainStates \subseteq Places /\ AgentHandlerStates \subseteq Places
BY AgentsAssumption, HandlersAssumption DEF Own, AgentHandlers, Places

(* Only the call of one thread changes, and the server does not get it.    *)
CallMoves(a, t, to) ==
  /\ CallsTyped' /\ call'[<<a, t>>] = to
  /\ \A b \in Agents, s \in Loops \cup {"main"} :
       <<b, s>> # <<a, t>> => call'[<<b, s>>] = call[<<b, s>>]
  /\ \A c \in Callers : call'[c] = "handled" => call[c] = "handled"

LEMMA CallFacts ==
  ASSUME CallsTyped, NEW a \in Agents, NEW t \in Loops \cup {"main"}
  PROVE  /\ Send(a, t) => CallMoves(a, t, "sent")
         /\ TakeAnswer(a, t) => CallMoves(a, t, "none")
<1>1. <<a, t>> \in Callers /\ \A b \in Agents, s \in Loops \cup {"main"} : <<b, s>> \in Callers
  BY AgentsAssumption
<1>2. ASSUME NEW to \in {"sent", "none"}, call' = [call EXCEPT ![<<a, t>>] = to]
      PROVE  CallMoves(a, t, to)
  BY <1>1, <1>2 DEF CallsTyped, CallMoves
<1> QED
  BY <1>2 DEF Send, TakeAnswer

(* Moves of main and of a handler of an agent.                             *)
MainAt(a, from, to) ==
  /\ SignalInv' /\ pc[a] = from /\ pc'[a] = to
  /\ \A h \in AgentHandlers(a) : pc'[h] = pc[h]
  /\ \A q \in Processes : q # a => SameFor(q)
  /\ Orderly(a)' => Orderly(a) /\ \A h \in AgentHandlers(a) : pc[h] \in Idle

HandlerAt(a, h, from, to) ==
  /\ SignalInv' /\ pc[h] = from /\ pc'[h] = to /\ pc'[a] = pc[a] /\ ~Ended(a)
  /\ \A g \in AgentHandlers(a) : g # h => pc'[g] = pc[g]
  /\ \A q \in Processes : q # a => SameFor(q)
  /\ Orderly(a)' => Orderly(a) /\ \A g \in AgentHandlers(a) : g # h => pc[g] \in Idle

LEMMA MainGoes ==
  ASSUME SignalInv, NEW a \in Agents, NEW from, NEW to \in AgentMainStates, Go(a, a, from, to)
  PROVE  MainAt(a, from, to)
<1>1. a \in Own(a) /\ to \in Places /\ a \in Processes /\ a \notin Handlers
  BY AgentFacts
<1>2. Effect(a, a, to) /\ Alone(a, a) /\ pc[a] = from
  BY <1>1, GoFacts
<1> QED
  BY <1>1, <1>2, AgentFacts DEF Effect, Alone, MainAt

LEMMA HandlerGoes ==
  ASSUME SignalInv, NEW a \in Agents, NEW h \in AgentHandlers(a), NEW from, from \notin Idle,
         NEW to \in AgentHandlerStates,
         \/ Go(a, h, from, to) /\ to \notin Idle
         \/ Return(h, from) /\ to = "done"
  PROVE  HandlerAt(a, h, from, to)
<1>1. h \in Own(a) /\ a \in Own(a) /\ h # a /\ to \in Places /\ a \in Processes /\ h \in Handlers
  BY AgentFacts
<1>2. Home[h] = a
  BY DEF AgentHandlers
<1>3. CASE Go(a, h, from, to) /\ to \notin Idle
  BY <1>1, <1>3, AgentFacts, GoFacts DEF Effect, Alone, HandlerAt
<1>4. CASE Return(h, from) /\ to = "done"
  <2>1. Effect(a, h, "done") /\ Alone(a, h) /\ pc[h] = from
    BY <1>1, <1>2, <1>4, ReturnFacts
  <2> QED
    BY <1>1, <1>4, <2>1, AgentFacts DEF Effect, Alone, HandlerAt
<1> QED
  BY <1>3, <1>4

(* The others stay as they are.                                            *)
LEMMA OneAgentMoves ==
  ASSUME AgentInv, NEW a \in Agents, AgentsTyped', OthersKept(a), AgentOK(a)',
         \A b \in Agents, t \in Loops \cup {"main"} :
           b # a => call'[<<b, t>>] = call[<<b, t>>]
  PROVE  AgentInv'
<1>1. ASSUME NEW b \in Agents, b # a PROVE AgentOK(b)'
  <2>1. /\ agent'[b] = agent[b] /\ pc'[b] = pc[b]
        /\ \A h \in AgentHandlers(b) : pc'[h] = pc[h]
        /\ Orderly(b)' <=> Orderly(b)
    BY <1>1, AgentFacts DEF OthersKept, SameFor
  <2>2. PcOK(b)' /\ Synchronous(b)'
    BY <1>1, <2>1 DEF AgentInv, AgentOK, PcOK, Synchronous
  <2>3. StartedInOrder(b)'
    BY <2>1 DEF AgentInv, AgentOK, StartedInOrder
  <2>4. Quiet(b)'
    BY <2>1 DEF AgentInv, AgentOK, Quiet, Quietness, HalfStarted, StillJoins
  <2> QED
    BY <2>2, <2>3, <2>4 DEF AgentOK
<1> QED
  BY <1>1 DEF AgentInv

(* What an action of one agent leaves behind.                              *)
Kept(a) ==
  /\ SignalInv' /\ AgentInv' /\ CallsTyped'
  /\ \A c \in Callers : call'[c] = "handled" => call[c] = "handled"
  /\ \A q \in Processes : q # a => SameFor(q)

(* Moves of main that change neither the members nor a call.               *)
LEMMA MainKeeps ==
  ASSUME SignalInv, AgentInv, CallsTyped, NEW a \in Agents, NEW from,
         NEW to \in AgentMainStates, Moved(a, a, from, to), NoCall,
         from \notin {"assign_heartbeat", "spawn_polling", "assign_polling", "sleep", "aborted"},
         to \notin {"registering", "assign_heartbeat", "assign_polling"}
  PROVE  Kept(a)
<1>1. MainAt(a, from, to) /\ agent' = agent /\ call' = call
  BY MainGoes DEF Moved, NoCall
<1>2. AgentsTyped /\ AgentOK(a)
  BY DEF AgentInv
<1>3. PcOK(a)' /\ Synchronous(a)'
  BY <1>1, <1>2 DEF MainAt, AgentOK, PcOK, Synchronous
<1>4. StartedInOrder(a)'
  BY <1>1, <1>2 DEF MainAt, AgentOK, StartedInOrder, Assigns
<1>5. Quiet(a)'
  BY <1>1, <1>2 DEF MainAt, AgentOK, Quiet, Quietness, HalfStarted, StillJoins, Idle
<1>6. OthersKept(a)
  BY <1>1 DEF MainAt, OthersKept
<1>7. AgentInv'
  <2>1. AgentsTyped' /\ AgentOK(a)'
    BY <1>1, <1>2, <1>3, <1>4, <1>5 DEF AgentsTyped, AgentOK
  <2> QED
    BY <1>1, <1>6, <2>1, OneAgentMoves
<1> QED
  BY <1>1, <1>7 DEF Kept, MainAt, CallsTyped

(* The call that registers, and its answer.                                *)
LEMMA RegisterKeeps ==
  ASSUME SignalInv, AgentInv, CallsTyped, NEW a \in Agents,
         \/ Moved(a, a, "register", "registering") /\ Send(a, "main")
         \/ \E to \in {"log_registered", "log_crashed"} :
              Moved(a, a, "registering", to) /\ TakeAnswer(a, "main")
  PROVE  Kept(a)
<1>1. PICK from \in {"register", "registering"},
           to \in {"registering", "log_registered", "log_crashed"} :
        /\ Moved(a, a, from, to)
        /\ \/ to = "registering" /\ Send(a, "main")
           \/ to # "registering" /\ TakeAnswer(a, "main")
  BY Zenon
<1>2. to \in AgentMainStates
  BY DEF AgentMainStates
<1>3. MainAt(a, from, to) /\ agent' = agent
  BY <1>1, <1>2, MainGoes DEF Moved
<1>4. PICK mark \in {"sent", "none"} :
        CallMoves(a, "main", mark) /\ (to = "registering" => mark = "sent")
  BY <1>1, CallFacts
<1>5. AgentsTyped /\ AgentOK(a) /\ "main" \notin Loops
  BY DEF AgentInv, Loops
<1>6. PcOK(a)' /\ Synchronous(a)'
  BY <1>2, <1>3, <1>4, <1>5 DEF MainAt, AgentOK, PcOK, Synchronous, CallMoves
<1>7. StartedInOrder(a)'
  BY <1>3, <1>5 DEF MainAt, AgentOK, StartedInOrder, Assigns
<1>8. Quiet(a)'
  BY <1>3, <1>5 DEF MainAt, AgentOK, Quiet, Quietness, HalfStarted, StillJoins, Idle
<1>9. OthersKept(a)
  BY <1>3 DEF MainAt, OthersKept
<1>10. AgentInv'
  <2>1. AgentsTyped' /\ AgentOK(a)'
    BY <1>3, <1>5, <1>6, <1>7, <1>8 DEF AgentsTyped, AgentOK
  <2>2. \A b \in Agents, t \in Loops \cup {"main"} :
          b # a => call'[<<b, t>>] = call[<<b, t>>]
    BY <1>4 DEF CallMoves
  <2> QED
    BY <1>9, <2>1, <2>2, OneAgentMoves
<1> QED
  BY <1>3, <1>4, <1>10 DEF Kept, MainAt, CallMoves

(* running_ is set, a thread is started, a member is assigned.             *)
LEMMA LoopsStartKeeps ==
  ASSUME SignalInv, AgentInv, CallsTyped, NEW a \in Agents, NoCall,
         \/ SetRunning(a, a, "set_running", "spawn_heartbeat", TRUE)
         \/ Spawn(a, "heartbeat", "spawn_heartbeat", "assign_heartbeat")
         \/ Assign(a, "heartbeat", "assign_heartbeat", "spawn_polling")
         \/ Spawn(a, "polling", "spawn_polling", "assign_polling")
         \/ Assign(a, "polling", "assign_polling", "sleep")
  PROVE  Kept(a)
<1>1. AgentsTyped /\ AgentOK(a) /\ agent[a] \in AgentStates
  BY DEF AgentInv, AgentsTyped
<1>2. {"spawn_heartbeat", "assign_heartbeat", "spawn_polling", "assign_polling", "sleep"}
        \subseteq AgentMainStates
  BY DEF AgentMainStates
<1>3. ASSUME NEW from, NEW to \in AgentMainStates, MainAt(a, from, to),
             AgentsTyped', \A b \in Agents : b # a => agent'[b] = agent[b],
             Synchronous(a)', StartedInOrder(a)', Quiet(a)'
      PROVE  Kept(a)
  <2>1. AgentOK(a)'
    BY <1>1, <1>3 DEF AgentOK, PcOK, MainAt
  <2>2. OthersKept(a) /\ \A b \in Agents, t \in Loops \cup {"main"} :
                           b # a => call'[<<b, t>>] = call[<<b, t>>]
    BY <1>3 DEF MainAt, OthersKept, NoCall
  <2> QED
    BY <1>3, <2>1, <2>2, OneAgentMoves DEF Kept, MainAt, CallsTyped, NoCall
<1>4. CASE SetRunning(a, a, "set_running", "spawn_heartbeat", TRUE)
  <2>1. MainAt(a, "set_running", "spawn_heartbeat")
    BY <1>2, <1>4, MainGoes DEF SetRunning
  <2>2. /\ AgentsTyped' /\ agent'[a].running /\ agent'[a].loops = agent[a].loops
        /\ agent'[a].joinable = agent[a].joinable
        /\ \A b \in Agents : b # a => agent'[b] = agent[b]
    BY <1>1, <1>4 DEF SetRunning, AgentsTyped, AgentStates
  <2>3. Synchronous(a)' /\ StartedInOrder(a)'
    BY <1>1, <2>1, <2>2 DEF AgentOK, MainAt, Synchronous, StartedInOrder, Assigns, NoCall
  <2>4. Quiet(a)'
    BY <2>1, <2>2 DEF MainAt, Quiet, Quietness, HalfStarted, Idle
  <2> QED
    BY <1>2, <1>3, <2>1, <2>2, <2>3, <2>4
<1>5. ASSUME NEW t \in Loops, NEW from, NEW to, Spawn(a, t, from, to),
             \/ t = "heartbeat" /\ from = "spawn_heartbeat" /\ to = "assign_heartbeat"
             \/ t = "polling" /\ from = "spawn_polling" /\ to = "assign_polling"
      PROVE  Kept(a)
  <2>1. MainAt(a, from, to) /\ to \in AgentMainStates
    BY <1>2, <1>5, MainGoes DEF Spawn
  <2>2. /\ AgentsTyped' /\ agent'[a].running = agent[a].running
        /\ agent'[a].joinable = agent[a].joinable /\ agent'[a].loops[t] = "test"
        /\ \A s \in Loops : s # t => agent'[a].loops[s] = agent[a].loops[s]
        /\ \A b \in Agents : b # a => agent'[b] = agent[b]
    BY <1>1, <1>5 DEF Spawn, AgentsTyped, AgentStates
  <2>3. agent[a].loops[t] = "none"
    BY <1>1, <1>5, <2>1 DEF AgentOK, MainAt, StartedInOrder
  <2>4. Synchronous(a)'
    BY <1>1, <1>5, <2>1, <2>2, <2>3 DEF AgentOK, MainAt, Synchronous, NoCall
  <2>5. StartedInOrder(a)'
    BY <1>1, <1>5, <2>1, <2>2 DEF AgentOK, MainAt, StartedInOrder, Assigns, Loops
  <2>6. Quiet(a)'
    BY <1>1, <2>1, <2>2 DEF AgentOK, MainAt, Quiet, Quietness, StillJoins, Idle
  <2> QED
    BY <1>3, <2>1, <2>2, <2>4, <2>5, <2>6
<1>6. ASSUME NEW t \in Loops, NEW from, NEW to, Assign(a, t, from, to),
             \/ t = "heartbeat" /\ from = "assign_heartbeat" /\ to = "spawn_polling"
             \/ t = "polling" /\ from = "assign_polling" /\ to = "sleep"
      PROVE  Kept(a)
  <2>1. MainAt(a, from, to) /\ to \in AgentMainStates
    BY <1>2, <1>6, MainGoes DEF Assign
  <2>2. /\ AgentsTyped' /\ agent'[a].running = agent[a].running
        /\ agent'[a].joinable = agent[a].joinable \cup {t} /\ agent'[a].loops = agent[a].loops
        /\ \A b \in Agents : b # a => agent'[b] = agent[b]
    BY <1>1, <1>6 DEF Assign, AgentsTyped, AgentStates
  <2>3. Synchronous(a)'
    BY <1>1, <1>6, <2>1, <2>2 DEF AgentOK, MainAt, Synchronous, NoCall
  <2>4. StartedInOrder(a)'
    BY <1>1, <1>6, <2>1, <2>2 DEF AgentOK, MainAt, StartedInOrder, Assigns, Loops
  <2>5. Quiet(a)'
    BY <1>1, <1>6, <2>1, <2>2 DEF AgentOK, MainAt, Quiet, Quietness, StillJoins, HalfStarted, Idle
  <2> QED
    BY <1>3, <2>1, <2>2, <2>3, <2>4, <2>5
<1> QED
  BY <1>4, <1>5, <1>6 DEF Loops

(* AgentDaemon::start.                                                     *)
LEMMA StartsKeepInv ==
  ASSUME SignalInv, AgentInv, CallsTyped, NEW a \in Agents, AgentStarts(a)
  PROVE  Kept(a)
<1>1. {"register", "set_running", "gone"} \subseteq AgentMainStates
  BY DEF AgentMainStates
<1>2. CASE Moved(a, a, "construct", "register") /\ NoCall
  BY <1>1, <1>2, MainKeeps
<1>3. CASE Moved(a, a, "register", "registering") /\ Send(a, "main")
  BY <1>3, RegisterKeeps
<1>4. CASE \E to \in {"log_registered", "log_crashed"} :
             Moved(a, a, "registering", to) /\ TakeAnswer(a, "main")
  BY <1>4, RegisterKeeps
<1>5. CASE /\ Moved(a, a, "log_registered", "set_running") \/ Moved(a, a, "log_crashed", "gone")
           /\ NoCall
  BY <1>1, <1>5, MainKeeps
<1>6. CASE NoCall /\ \/ SetRunning(a, a, "set_running", "spawn_heartbeat", TRUE)
                     \/ Spawn(a, "heartbeat", "spawn_heartbeat", "assign_heartbeat")
                     \/ Assign(a, "heartbeat", "assign_heartbeat", "spawn_polling")
                     \/ Spawn(a, "polling", "spawn_polling", "assign_polling")
                     \/ Assign(a, "polling", "assign_polling", "sleep")
  BY <1>6, LoopsStartKeeps
<1> QED
  BY <1>2, <1>3, <1>4, <1>5, <1>6, Zenon DEF AgentStarts

-----------------------------------------------------------------------------
(* A move of a handler that leaves the loops as they are.                  *)
LEMMA HandlerKeeps ==
  ASSUME SignalInv, AgentInv, CallsTyped, NEW a \in Agents, NEW h \in AgentHandlers(a),
         NEW from, NEW to \in AgentHandlerStates, HandlerAt(a, h, from, to), from \notin Idle,
         AgentsTyped', \A b \in Agents : b # a => agent'[b] = agent[b],
         agent'[a].loops = agent[a].loops, call' = call,
         \A t \in Loops : t \in agent[a].joinable =>
                            t \in agent'[a].joinable \/ agent[a].loops[t] = "ended",
         Orderly(a) /\ Quietness(a) /\ ~HalfStarted(a)
           /\ (\A g \in AgentHandlers(a) : g # h => pc[g] \in Idle) => Quietness(a)'
  PROVE  Kept(a)
<1>1. AgentsTyped /\ AgentOK(a)
  BY DEF AgentInv
<1>2. PcOK(a)' /\ Synchronous(a)'
  BY <1>1 DEF HandlerAt, AgentOK, PcOK, Synchronous
<1>3. StartedInOrder(a)'
  BY <1>1 DEF HandlerAt, AgentOK, StartedInOrder
<1>4. Quiet(a)'
  <2> SUFFICES ASSUME Orderly(a)' PROVE Quietness(a)'
    BY DEF Quiet
  <2>1. /\ Orderly(a) /\ Quietness(a)
        /\ \A g \in AgentHandlers(a) : g # h => pc[g] \in Idle
    BY <1>1 DEF HandlerAt, AgentOK, Quiet
  <2>2. ~HalfStarted(a)
    BY <2>1 DEF HandlerAt, Quietness
  <2> QED
    BY <2>1, <2>2
<1>5. OthersKept(a)
  BY DEF HandlerAt, OthersKept
<1>6. AgentInv'
  BY <1>2, <1>3, <1>4, <1>5, OneAgentMoves DEF AgentOK
<1> QED
  BY <1>6 DEF Kept, HandlerAt, CallsTyped

(* A loop that a handler does not join is not there, or over; the others   *)
(* are joined when they have ended.                                        *)
LEMMA JoinKeeps ==
  ASSUME SignalInv, AgentInv, CallsTyped, NEW a \in Agents, NEW h \in AgentHandlers(a),
         NEW t \in Loops, NEW from, NEW to, Join(a, h, t, from, to), UNCHANGED call,
         \/ t = "heartbeat" /\ from = "join_heartbeat" /\ to = "join_polling"
         \/ t = "polling" /\ from = "join_polling" /\ to = "log_stopped"
  PROVE  Kept(a)
<1>1. AgentsTyped /\ AgentOK(a) /\ agent[a] \in AgentStates
  BY DEF AgentInv, AgentsTyped
<1>2. to \in AgentHandlerStates /\ to \notin Idle /\ from \notin Idle
  BY DEF AgentHandlerStates, Idle
<1>3. CASE \/ t \notin agent[a].joinable /\ Moved(a, h, from, to)
           \/ /\ t \in agent[a].joinable /\ agent[a].loops[t] = "ended"
              /\ Go(a, h, from, to)
              /\ agent' = [agent EXCEPT ![a].joinable = agent[a].joinable \ {t}]
  <2>1. HandlerAt(a, h, from, to)
    BY <1>2, <1>3, HandlerGoes DEF Moved
  <2>2. /\ AgentsTyped' /\ \A b \in Agents : b # a => agent'[b] = agent[b]
        /\ agent'[a].loops = agent[a].loops /\ agent'[a].running = agent[a].running
        /\ \A s \in Loops : s \in agent[a].joinable =>
                              s \in agent'[a].joinable \/ agent[a].loops[s] = "ended"
    BY <1>1, <1>3 DEF Moved, AgentsTyped, AgentStates
  <2>3. ASSUME Orderly(a), Quietness(a), ~HalfStarted(a),
               \A g \in AgentHandlers(a) : g # h => pc[g] \in Idle
        PROVE  Quietness(a)'
    <3>1. agent[a].loops[t] \in {"none", "ended"}
      <4>1. pc[a] \notin {Assigns(t), "aborted"}
        BY <2>1, <2>3 DEF HandlerAt, Ended, HalfStarted, Assigns
      <4> QED
        BY <1>1, <1>3, <4>1 DEF AgentOK, StartedInOrder
    <3>2. ~HalfStarted(a)'
      BY <2>1, <2>3 DEF HandlerAt, HalfStarted
    <3>3. ~agent[a].running /\ ~agent'[a].running
      BY <1>2, <2>1, <2>2, <2>3 DEF HandlerAt, Quietness
    <3>4. \A s \in Loops : agent'[a].loops[s] # "calling" \/ StillJoins(h, s)'
      BY <2>1, <2>2, <2>3, <3>1, <3>3 DEF HandlerAt, Quietness, StillJoins, Idle, Loops
    <3> QED
      BY <3>2, <3>3, <3>4 DEF Quietness
  <2> QED
    BY <1>2, <2>1, <2>2, <2>3, HandlerKeeps
<1>4. CASE pc[h] = from /\ ~Ended(a) /\ Abort(a) /\ UNCHANGED agent
  <2>1. a \in Processes /\ \A g \in AgentHandlers(a) : g \in Own(a) /\ g # a
    BY AgentFacts
  <2>2. Effect(a, a, "aborted")
    BY <1>4, <2>1, AbortFacts
  <2>3. /\ SignalInv' /\ pc'[a] = "aborted" /\ \A g \in AgentHandlers(a) : pc'[g] = pc[g]
        /\ \A q \in Processes : q # a => SameFor(q)
        /\ Orderly(a)' => Orderly(a)
    BY <2>1, <2>2 DEF Effect
  <2>4. PcOK(a)' /\ Synchronous(a)' /\ StartedInOrder(a)'
    BY <1>1, <1>4, <2>3 DEF AgentOK, PcOK, AgentMainStates, Synchronous, StartedInOrder
  <2>5. Quiet(a)'
    BY <1>1, <1>4, <2>3 DEF AgentOK, Quiet, Quietness, HalfStarted, StillJoins
  <2>6. AgentsTyped' /\ OthersKept(a)
    BY <1>1, <1>4, <2>3 DEF AgentsTyped, OthersKept
  <2>7. AgentInv'
    BY <2>4, <2>5, <2>6, OneAgentMoves DEF AgentOK
  <2> QED
    BY <2>3, <2>7 DEF Kept, CallsTyped
<1> QED
  BY <1>3, <1>4 DEF Join

(* AgentDaemon::stop.                                                      *)
LEMMA StopsKeepInv ==
  ASSUME SignalInv, AgentInv, CallsTyped, NEW a \in Agents, NEW h \in AgentHandlers(a),
         AgentStops(a, h), UNCHANGED call
  PROVE  Kept(a)
<1>1. AgentsTyped /\ AgentOK(a) /\ agent[a] \in AgentStates
  BY DEF AgentInv, AgentsTyped
<1>2. ASSUME NEW from, NEW to, UNCHANGED agent,
             \/ Go(a, h, from, to) /\ from = "log" /\ to = "test"
             \/ Go(a, h, from, to) /\ from = "test" /\ to = "clear"
             \/ Return(h, from) /\ to = "done" /\ from \in {"log", "log_stopped"}
             \/ Return(h, from) /\ to = "done" /\ from = "test" /\ ~agent[a].running
      PROVE  Kept(a)
  <2>1. to \in AgentHandlerStates /\ from \notin Idle /\ (to # "done" => to \notin Idle)
    BY <1>2 DEF AgentHandlerStates, Idle
  <2>2. HandlerAt(a, h, from, to)
    BY <1>2, <2>1, HandlerGoes
  <2>3. ASSUME Quietness(a) PROVE Quietness(a)'
    <3>1. ~HalfStarted(a)'
      BY <2>1, <2>2, <2>3 DEF HandlerAt, HalfStarted, Quietness
    <3>2. \A g \in AgentHandlers(a) :
            /\ pc'[g] \in {"join_heartbeat", "join_polling", "log_stopped"} => pc'[g] = pc[g]
            /\ \A t \in Loops : StillJoins(g, t) => StillJoins(g, t)'
      BY <1>2, <2>2 DEF HandlerAt, StillJoins
    <3> QED
      BY <1>2, <2>3, <3>1, <3>2 DEF Quietness
  <2> QED
    BY <1>1, <1>2, <2>1, <2>2, <2>3, HandlerKeeps DEF AgentsTyped
<1>3. CASE SetRunning(a, h, "clear", "join_heartbeat", FALSE)
  <2>1. "join_heartbeat" \in AgentHandlerStates /\ "join_heartbeat" \notin Idle /\ "clear" \notin Idle
    BY DEF AgentHandlerStates, Idle
  <2>2. HandlerAt(a, h, "clear", "join_heartbeat")
    BY <1>3, <2>1, HandlerGoes DEF SetRunning
  <2>3. /\ AgentsTyped' /\ ~agent'[a].running /\ agent'[a].loops = agent[a].loops
        /\ agent'[a].joinable = agent[a].joinable
        /\ \A b \in Agents : b # a => agent'[b] = agent[b]
    BY <1>1, <1>3 DEF SetRunning, AgentsTyped, AgentStates
  <2>4. ASSUME ~HalfStarted(a) PROVE Quietness(a)'
    BY <2>2, <2>3, <2>4 DEF HandlerAt, Quietness, HalfStarted, StillJoins
  <2> QED
    BY <2>1, <2>2, <2>3, <2>4, HandlerKeeps
<1>4. CASE \/ Join(a, h, "heartbeat", "join_heartbeat", "join_polling")
           \/ Join(a, h, "polling", "join_polling", "log_stopped")
  BY <1>4, JoinKeeps DEF Loops
<1> QED
  BY <1>2, <1>3, <1>4 DEF AgentStops, AgentEnters, Moved

(* A signal arrives at an agent.                                           *)
LEMMA AgentSignalKeepsInv ==
  ASSUME SignalInv, AgentInv, CallsTyped, NEW a \in Agents, NEW h \in AgentHandlers(a),
         AgentSignal(h)
  PROVE  Kept(a)
<1>1. AgentsTyped /\ AgentOK(a)
  BY DEF AgentInv
<1>2. a \in Processes /\ h \in Handlers /\ Home[h] = a
  BY AgentFacts DEF AgentHandlers
<1>3. ASSUME NEW x \in {a} \cup Active(a) \cup Threads, NEW logging,
             Signal(h, x, HalfStarted(a), logging)
      PROVE  /\ Effect(a, h, "log") /\ pc[h] = "unsent"
             /\ Orderly(a)' =>
                  ~HalfStarted(a) /\ \A g \in Own(a) \cap Handlers : pc[g] \in Idle
  BY <1>2, <1>3, SignalFacts
<1>4. Loops \subseteq Threads /\ "pool" \in Threads
  BY DEF Threads, Loops
<1>5. /\ Effect(a, h, "log") /\ pc[h] = "unsent"
      /\ Orderly(a)' => ~HalfStarted(a) /\ \A g \in Own(a) \cap Handlers : pc[g] \in Idle
  BY <1>2, <1>3, <1>4, Zenon DEF AgentSignal
<1>6. /\ SignalInv' /\ pc'[h] = "log" /\ pc'[a] = pc[a]
      /\ \A g \in AgentHandlers(a) : g # h => pc'[g] = pc[g]
      /\ \A q \in Processes : q # a => SameFor(q)
      /\ Orderly(a)' =>
           Orderly(a) /\ ~HalfStarted(a) /\ \A g \in AgentHandlers(a) : pc[g] \in Idle
  BY <1>2, <1>5, AgentFacts DEF Effect
<1>7. agent' = agent /\ call' = call
  BY DEF AgentSignal, masterVars
<1>8. PcOK(a)' /\ Synchronous(a)' /\ StartedInOrder(a)'
  BY <1>1, <1>6, <1>7 DEF AgentOK, PcOK, AgentHandlerStates, Synchronous, StartedInOrder
<1>9. Quiet(a)'
  BY <1>1, <1>6, <1>7 DEF AgentOK, Quiet, Quietness, HalfStarted, StillJoins, Idle
<1>10. AgentsTyped' /\ OthersKept(a)
  BY <1>1, <1>6, <1>7 DEF AgentsTyped, OthersKept
<1>11. AgentInv'
  BY <1>7, <1>8, <1>9, <1>10, OneAgentMoves DEF AgentOK
<1> QED
  BY <1>6, <1>7, <1>11 DEF Kept, CallsTyped

(* heartbeat_loop and job_polling_loop.                                    *)
LEMMA LoopKeepsInv ==
  ASSUME SignalInv, AgentInv, CallsTyped, NEW a \in Agents, NEW t \in Loops, AgentLoop(a, t)
  PROVE  Kept(a)
<1>1. AgentsTyped /\ AgentOK(a) /\ agent[a] \in AgentStates /\ "main" \notin Loops
  BY DEF AgentInv, AgentsTyped, Loops
<1>2. PICK from \in {"test", "calling", "pause"}, to \in {"test", "calling", "pause", "ended"} :
        /\ LoopGoes(a, t, from, to)
        /\ \/ agent[a].running /\ from = "test" /\ to = "calling" /\ Send(a, t)
           \/ from = "calling" /\ to = "pause" /\ TakeAnswer(a, t)
           \/ from # "calling" /\ to # "calling" /\ NoCall
  BY DEF AgentLoop, Loop
<1>3. /\ AgentsTyped' /\ \A b \in Agents : b # a => agent'[b] = agent[b]
      /\ agent[a].loops[t] = from /\ agent'[a].loops[t] = to
      /\ agent'[a].running = agent[a].running /\ agent'[a].joinable = agent[a].joinable
      /\ \A s \in Loops : s # t => agent'[a].loops[s] = agent[a].loops[s]
  BY <1>1, <1>2 DEF LoopGoes, AgentsTyped, AgentStates
<1>4. UNCHANGED signalVars /\ pc' = pc
  BY DEF AgentLoop, signalVars
<1>5. /\ SignalInv' /\ \A q : Orderly(q)' <=> Orderly(q)
      /\ \A q \in Processes : SameFor(q)
  BY <1>4 DEF signalVars, SignalInv, SignalsTyped, Active, Orderly, SameFor
<1>6. PcOK(a)'
  BY <1>1, <1>4 DEF AgentOK, PcOK
<1>7. StartedInOrder(a)'
  BY <1>1, <1>2, <1>3, <1>4 DEF AgentOK, StartedInOrder, Loops
<1>8. Quiet(a)'
  BY <1>1, <1>2, <1>3, <1>4, <1>5 DEF AgentOK, Quiet, Quietness, HalfStarted, StillJoins
<1>9. \/ CallMoves(a, t, "sent") /\ to = "calling"
      \/ CallMoves(a, t, "none") /\ to # "calling"
      \/ NoCall /\ from # "calling" /\ to # "calling"
  BY <1>2, CallFacts
<1>10. Synchronous(a)'
  BY <1>1, <1>3, <1>4, <1>9 DEF AgentOK, Synchronous, CallMoves, NoCall
<1>11. /\ CallsTyped'
       /\ \A b \in Agents, s \in Loops \cup {"main"} :
            b # a => call'[<<b, s>>] = call[<<b, s>>]
       /\ \A c \in Callers : call'[c] = "handled" => call[c] = "handled"
  BY <1>9 DEF CallMoves, NoCall, CallsTyped
<1>12. OthersKept(a)
  BY <1>3, <1>5 DEF OthersKept
<1>13. AgentInv'
  BY <1>3, <1>6, <1>7, <1>8, <1>10, <1>11, <1>12, OneAgentMoves DEF AgentOK
<1> QED
  BY <1>5, <1>11, <1>13 DEF Kept

-----------------------------------------------------------------------------
(* Whatever a process does to its threads, those of the others stay.       *)
Local(p) == \A q \in Processes : q # p => SameFor(q)

LEMMA StepsAreLocal ==
  ASSUME SignalsTyped, NEW p \in Processes
  PROVE  /\ \A who \in Own(p) : \A from, to : Go(p, who, from, to) => Local(p)
         /\ \A h \in Handlers : Home[h] = p => \A from : Return(h, from) => Local(p)
         /\ Abort(p) => Local(p)
         /\ \A h \in Handlers : Home[h] = p =>
              \A x, starting, logging : Signal(h, x, starting, logging) => Local(p)
<1>1. p \in Own(p) /\ \A h \in Handlers : Home[h] = p => h \in Own(p)
  BY DEF Own
<1>2. ASSUME NEW who \in Own(p), NEW to, pc' = [pc EXCEPT ![who] = to],
             \A q \in Processes : q # p => (Orderly(q)' <=> Orderly(q))
      PROVE  Local(p)
  <2>1. ASSUME NEW q \in Processes, q # p, NEW x \in Own(q) PROVE pc'[x] = pc[x]
    <3>1. x # who /\ x \in Processes \cup Handlers
      BY <2>1, OwnFacts
    <3> QED
      BY <1>2, <3>1 DEF SignalsTyped
  <2> QED
    BY <1>2, <2>1 DEF Local, SameFor
<1>3. ASSUME NEW who \in Own(p), NEW from, NEW to, Go(p, who, from, to) PROVE Local(p)
  BY <1>2, <1>3 DEF Go, Orderly
<1>4. ASSUME NEW h \in Handlers, Home[h] = p, NEW from, Return(h, from) PROVE Local(p)
  BY <1>1, <1>2, <1>4 DEF Return, Orderly
<1>5. ASSUME Abort(p) PROVE Local(p)
  BY <1>1, <1>2, <1>5 DEF Abort, Orderly
<1>6. ASSUME NEW h \in Handlers, Home[h] = p, NEW x, NEW starting, NEW logging,
             Signal(h, x, starting, logging)
      PROVE  Local(p)
  <2>1. pc' = [pc EXCEPT ![h] = "log"] /\ h \in Own(p)
    BY <1>1, <1>6 DEF Signal
  <2>2. \A q \in Processes : q # p => (Orderly(q)' <=> Orderly(q))
    BY <1>6 DEF Signal, Orderly
  <2> QED
    BY <1>2, <2>1, <2>2
<1> QED
  BY <1>3, <1>4, <1>5, <1>6

(* So does what the master does.                                           *)
LEMMA MasterIsLocal ==
  ASSUME SignalInv, MasterNext
  PROVE  Local("master")
<1>1. /\ SignalsTyped /\ "master" \in Processes /\ "master" \in Own("master")
      /\ Activations = Own("master")
  BY MasterFacts DEF SignalInv, Activations
<1>2. \A h \in MasterHandlers : h \in Handlers /\ Home[h] = "master" /\ h \in Activations
  BY DEF MasterHandlers, Activations
<1>3. /\ \A who \in Activations : \A from, to : Go("master", who, from, to) => Local("master")
      /\ \A h \in MasterHandlers : \A from : Return(h, from) => Local("master")
      /\ Abort("master") => Local("master")
      /\ \A h \in MasterHandlers :
           \A x, starting, logging : Signal(h, x, starting, logging) => Local("master")
  BY <1>1, <1>2, StepsAreLocal
<1>4. ASSUME UNCHANGED signalVars PROVE Local("master")
  BY <1>4 DEF signalVars, Local, SameFor, Orderly
<1>5. ASSUME NEW who \in Activations, StopStep(who) PROVE Local("master")
  <2>1. who = "master" \/ who \in MasterHandlers
    BY DEF Activations
  <2> QED
    BY <1>1, <1>3, <1>5, <2>1
       DEF StopStep, TestRunning, ClearRunning, JoinScheduler, LogJoined, ShutdownServer,
           DrainServer, LogStopped, Step, Finish, Main
<1>6. ASSUME MainThread PROVE Local("master")
  BY <1>1, <1>3, <1>5, <1>6
     DEF MainThread, Construct, StartScheduler, SpawnScheduler, AssignScheduler, LogLine,
         Listen, Wait, Destroy, Main
<1>7. ASSUME NEW h \in MasterHandlers, HandlerRuns(h) PROVE Local("master")
  BY <1>2, <1>3, <1>5, <1>7 DEF HandlerRuns, HandleSignal, UseDestroyed, Step
<1>8. ASSUME NEW h \in MasterHandlers, MasterSignal(h) PROVE Local("master")
  BY <1>3, <1>8, Zenon DEF MasterSignal
<1>9. ASSUME SchedulerThread \/ \E c \in Callers : ServeCall(c) \/ CallFails(c)
      PROVE  Local("master")
  BY <1>4, <1>9 DEF SchedulerThread, ServeCall, CallFails
<1> QED
  BY <1>6, <1>7, <1>8, <1>9 DEF MasterNext

(* The server moves a call from sent to its answer and leaves the agents.  *)
LEMMA ServerKeepsAgents ==
  ASSUME AgentInv, CallsTyped, MasterNext, Local("master"), UNCHANGED agent
  PROVE  AgentInv'
<1>1. \A c \in Callers : call'[c] = "none" <=> call[c] = "none"
  <2>1. CASE \E c \in Callers : ServeCall(c) \/ CallFails(c)
    BY <2>1 DEF ServeCall, CallFails, Moves, CallsTyped
  <2>2. CASE ~ \E c \in Callers : ServeCall(c) \/ CallFails(c)
    <3>1. call' = call
      BY <2>2
         DEF MasterNext, MainThread, Construct, StartScheduler, SpawnScheduler,
             AssignScheduler, LogLine, Listen, Wait, Destroy, HandlerRuns, HandleSignal,
             UseDestroyed, StopStep, TestRunning, ClearRunning, JoinScheduler, LogJoined,
             ShutdownServer, DrainServer, LogStopped, MasterSignal, SchedulerThread,
             masterVars
    <3> QED
      BY <3>1
  <2> QED
    BY <2>1, <2>2
<1>2. \A a \in Agents, t \in Loops \cup {"main"} : <<a, t>> \in Callers
  BY AgentsAssumption
<1>3. ASSUME NEW a \in Agents PROVE AgentOK(a)'
  <2>1. /\ agent' = agent /\ pc'[a] = pc[a] /\ \A h \in AgentHandlers(a) : pc'[h] = pc[h]
        /\ Orderly(a)' <=> Orderly(a)
    BY AgentFacts DEF Local, SameFor
  <2>2. PcOK(a)' /\ Synchronous(a)'
    BY <1>1, <1>2, <2>1 DEF AgentInv, AgentOK, PcOK, Synchronous
  <2>3. StartedInOrder(a)'
    BY <2>1 DEF AgentInv, AgentOK, StartedInOrder
  <2>4. Quiet(a)'
    BY <2>1 DEF AgentInv, AgentOK, Quiet, Quietness, HalfStarted, StillJoins
  <2> QED
    BY <2>2, <2>3, <2>4 DEF AgentOK
<1> QED
  BY <1>3 DEF AgentInv, AgentsTyped

-----------------------------------------------------------------------------
ProcessInv == SignalInv /\ MasterInv /\ AgentInv

LEMMA InitProcessInv == ProcessInit => ProcessInv
<1> SUFFICES ASSUME ProcessInit PROVE ProcessInv
  OBVIOUS
<1>1. /\ pc \in [Processes \cup Handlers -> {"construct", "unsent"}]
      /\ \A p \in Processes : pc[p] = "construct"
      /\ \A h \in Handlers : pc[h] = "unsent" /\ under[h] = "none"
      /\ under \in [Handlers -> {"none"}]
  BY HandlersAssumption DEF ProcessInit, SignalsInit
<1>2. SignalInv
  BY <1>1 DEF SignalInv, SignalsTyped, Places, MainStates, HandlerStates, Idle, Active
<1>3. pc["master"] = "construct" /\ \A h \in MasterHandlers : pc[h] = "unsent"
  BY <1>1, MasterFacts
<1>4. MasterTypeOK
  <2>1. joinable \in BOOLEAN /\ running \in BOOLEAN
    BY Zenon DEF ProcessInit, MasterInit
  <2> QED
    BY <1>3, <2>1 DEF ProcessInit, MasterInit, MasterTypeOK, MainStates, HandlerStates
<1>5. ServerInv /\ ThreadInv
  BY <1>3 DEF ProcessInit, MasterInit, ServerInv, ThreadInv, Threading, Starting,
              Unassigned, PastJoin, Idle, Activations
<1>6. AgentsTyped
  <2>1. Started \in AgentStates
    <3>1. FALSE \in BOOLEAN /\ {} \in SUBSET Loops
      OBVIOUS
    <3> QED
      BY <3>1 DEF Started, AgentStates
  <2> QED
    BY <2>1 DEF ProcessInit, AgentsTyped
<1>7. ASSUME NEW a \in Agents PROVE AgentOK(a)
  <2>1. /\ agent[a] = Started /\ \A t \in Loops \cup {"main"} : call[<<a, t>>] = "none"
        /\ pc[a] = "construct" /\ \A h \in AgentHandlers(a) : pc[h] = "unsent"
    BY <1>1, AgentsAssumption DEF ProcessInit, MasterInit, AgentHandlers
  <2> QED
    BY <2>1 DEF AgentOK, PcOK, AgentMainStates, AgentHandlerStates, Synchronous,
                StartedInOrder, Quiet, Quietness, HalfStarted, Started, Loops, Idle
<1> QED
  BY <1>2, <1>4, <1>5, <1>6, <1>7 DEF ProcessInv, MasterInv, AgentInv

LEMMA NextKeepsInv == ProcessInv /\ [ProcessNext]_processVars => ProcessInv'
<1> SUFFICES ASSUME ProcessInv, [ProcessNext]_processVars PROVE ProcessInv'
  OBVIOUS
<1>1. SignalInv /\ MasterInv /\ AgentInv /\ CallsTyped
  BY DEF ProcessInv, MasterInv, MasterTypeOK, CallsTyped
<1>2. CASE MasterNext /\ UNCHANGED agent
  BY <1>1, <1>2, MasterKeepsInv, MasterIsLocal, ServerKeepsAgents DEF ProcessInv
<1>3. ASSUME NEW a \in Agents, Kept(a), UNCHANGED serverVars PROVE ProcessInv'
  <2>1. SameFor("master")
    BY <1>3, AgentsAssumption DEF Kept
  <2>2. MasterInv'
    BY <1>1, <1>3, <2>1, OthersKeepMaster DEF Kept, CallsTyped
  <2> QED
    BY <1>3, <2>2 DEF Kept, ProcessInv
<1>4. ASSUME NEW a \in Agents, AgentMain(a) PROVE ProcessInv'
  BY <1>1, <1>3, <1>4, StartsKeepInv DEF AgentMain
<1>5. ASSUME NEW a \in Agents, NEW h \in AgentHandlers(a), AgentSignal(h) \/ AgentHandler(a, h)
      PROVE  ProcessInv'
  <2>1. UNCHANGED serverVars /\ UNCHANGED call
    BY <1>5 DEF AgentSignal, AgentHandler, masterVars
  <2>2. Kept(a)
    BY <1>1, <1>5, <2>1, AgentSignalKeepsInv, StopsKeepInv DEF AgentHandler
  <2> QED
    BY <1>3, <2>1, <2>2
<1>6. ASSUME NEW a \in Agents, NEW t \in Loops, AgentLoop(a, t) PROVE ProcessInv'
  BY <1>1, <1>3, <1>6, LoopKeepsInv DEF AgentLoop
<1>7. CASE UNCHANGED processVars
  <2>1. /\ UNCHANGED <<pc, under, early, overlapped, agent, call>> /\ UNCHANGED serverVars
    BY <1>7 DEF processVars, masterVars, signalVars
  <2>2. SignalInv' /\ \A q : (Orderly(q)' <=> Orderly(q))
    BY <1>1, <2>1 DEF SignalInv, SignalsTyped, Active, Orderly
  <2>3. MasterInv'
    BY <1>1, <2>1, <2>2, OthersKeepMaster DEF SameFor, CallsTyped
  <2>4. AgentInv'
    BY <1>1, <2>1, <2>2
       DEF AgentInv, AgentsTyped, AgentOK, PcOK, Synchronous, StartedInOrder, Quiet,
           Quietness, HalfStarted, StillJoins
  <2> QED
    BY <2>2, <2>3, <2>4 DEF ProcessInv
<1> QED
  BY <1>2, <1>4, <1>5, <1>6, <1>7 DEF ProcessNext

(* ProcessInv is an invariant of masters and agents that start and stop,   *)
(* whatever signals they get.                                              *)
THEOREM ProcessInvariant == ProcessSpec => []ProcessInv
BY InitProcessInv, NextKeepsInv, PTL DEF ProcessSpec

(* The types, and that calls are synchronous: a thread has a call under    *)
(* way exactly while it waits for it.                                      *)
THEOREM ProcessTyped == ProcessSpec => []ProcessTypeOK
<1>1. ProcessInv => ProcessTypeOK
  BY DEF ProcessInv, MasterInv, AgentInv, AgentsTyped, AgentOK, PcOK, Synchronous,
         ProcessTypeOK
<1> QED
  BY <1>1, ProcessInvariant, PTL

(* MasterServer::stop leaves no server and no call behind, whoever calls   *)
(* it, however often and at the same time; and no scheduler thread unless  *)
(* a signal met the start or another handler.                              *)
THEOREM MasterDestroysSafely == ProcessSpec => []DestroysNothingInUse
<1>1. ProcessInv => DestroysNothingInUse
  BY DEF ProcessInv, MasterInv, ServerInv, ThreadInv, Threading, PastJoin,
         DestroysNothingInUse
<1> QED
  BY <1>1, ProcessInvariant, PTL

(* AgentDaemon::stop ends the calls of an agent for good, in a process     *)
(* that gets its signals one after the other and none between the start of *)
(* a thread and its assignment.                                            *)
THEOREM AgentFallsSilent == ProcessSpec => []StoppedAgentIsQuiet
<1>1. ProcessInv => StoppedAgentIsQuiet
  <2> SUFFICES ASSUME ProcessInv, NEW a \in Agents, ~agent[a].running, Active(a) = {},
                      Orderly(a)
               PROVE  \A t \in Loops : agent[a].loops[t] # "calling"
    BY DEF StoppedAgentIsQuiet
  <2>1. \A h \in AgentHandlers(a) : pc[h] \in Idle
    BY DEF ProcessInv, SignalInv, Active, AgentHandlers
  <2> QED
    BY <2>1 DEF ProcessInv, AgentInv, AgentOK, Quiet, Quietness, StillJoins, Idle
<1> QED
  BY <1>1, ProcessInvariant, PTL
=============================================================================
