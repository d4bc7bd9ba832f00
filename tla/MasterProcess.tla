---------------------------- MODULE MasterProcess ----------------------------
(***************************************************************************)
(* The master as a process (master/src/main.cpp, master_server.cpp and the *)
(* start and stop of scheduler_engine.cpp): its main thread, the handlers  *)
(* of its signals, the scheduler thread, and the server that handles calls *)
(* on threads of its own.                                                  *)
(*                                                                         *)
(* What the rpc library does: a server that is shut down accepts no call   *)
(* and waits for those under way; a second shutdown waits for the first.   *)
(***************************************************************************)
EXTENDS Signals

CONSTANT Callers                \* client threads, with one call at a time

ASSUME MasterAssumption == "master" \in Processes

VARIABLES
  scheduler,                    \* the scheduler thread
  joinable,                     \* SchedulerEngine::thread_ holds it
  running,                      \* SchedulerEngine::running_
  grpc_server,
  call                          \* the call of each client thread

serverVars == <<scheduler, joinable, running, grpc_server>>

masterVars == <<serverVars, call>>

Stopping == {"test", "clear", "join", "log_joined", "shutdown", "drain", "log_stopped"}

MainStates ==
  {"construct", "start", "spawn", "assign", "log_started", "listen", "log_listening",
   "wait", "destroy", "gone", "aborted"} \cup Stopping

HandlerStates == {"unsent", "log", "done"} \cup Stopping

MasterHandlers == {h \in Handlers : Home[h] = "master"}

Activations == {"master"} \cup MasterHandlers

MasterInit ==
  /\ scheduler = "none" /\ joinable = FALSE /\ running = FALSE
  /\ grpc_server = "none"
  /\ call = [c \in Callers |-> "none"]

Main(from, to) == Go("master", "master", from, to)

MayLog == "master" \notin log_held

-----------------------------------------------------------------------------
(* SchedulerEngine::start, MasterServer::start, main.                      *)
Construct == Main("construct", "start") /\ UNCHANGED masterVars

StartScheduler ==
  /\ Main("start", "spawn")
  /\ running' = TRUE
  /\ UNCHANGED <<scheduler, joinable, grpc_server, call>>

(* The thread runs before thread_ is assigned.                             *)
SpawnScheduler ==
  /\ Main("spawn", "assign")
  /\ scheduler' = "test"
  /\ UNCHANGED <<joinable, running, grpc_server, call>>

AssignScheduler ==
  /\ Main("assign", "log_started")
  /\ joinable' = TRUE
  /\ UNCHANGED <<scheduler, running, grpc_server, call>>

LogLine ==
  /\ MayLog
  /\ Main("log_started", "listen") \/ Main("log_listening", "wait")
  /\ UNCHANGED masterVars

(* BuildAndStart returns no server when the port is taken.                 *)
Listen ==
  /\ Main("listen", "log_listening")
  /\ grpc_server' \in {"none", "serving"}
  /\ UNCHANGED <<scheduler, joinable, running, call>>

(* Wait returns when the server is down, or at once if there is none, and  *)
(* main returns: the destructor of g_server calls stop.                    *)
Wait ==
  /\ grpc_server \in {"none", "down"}
  /\ Main("wait", "test")
  /\ UNCHANGED masterVars

-----------------------------------------------------------------------------
(* MasterServer::stop, called by handlers and by the destructor.           *)
Step(who, from, to) == Go("master", who, from, to)

Finish(who, from) ==
  IF who = "master" THEN Main(from, "destroy") ELSE Return(who, from)

TestRunning(who) ==
  /\ Step(who, "test", IF running THEN "clear" ELSE "shutdown")
  /\ UNCHANGED masterVars

(* Faulty: the loop is not told to end.                                    *)
ClearRunning_KeepsRunning(who) ==
  Step(who, "clear", "join") /\ UNCHANGED masterVars

ClearRunning(who) ==
  /\ Step(who, "clear", "join")
  /\ running' = FALSE
  /\ UNCHANGED <<scheduler, joinable, grpc_server, call>>

(* Joining oneself throws; joining twice at a time is undefined.           *)
JoinScheduler(who) ==
  /\ UNCHANGED <<running, grpc_server, call>>
  /\ \/ /\ ~joinable
        /\ Step(who, "join", "log_joined")
        /\ UNCHANGED <<scheduler, joinable>>
     \/ /\ joinable /\ scheduler = "ended"
        /\ Step(who, "join", "log_joined")
        /\ scheduler' = "joined" /\ joinable' = FALSE
     \/ /\ joinable /\ pc[who] = "join" /\ ~Interrupted("master", who) /\ ~Ended("master")
        /\ \/ ThreadOf(who) = "scheduler"
           \/ \E other \in Activations \ {who} : pc[other] = "join"
        /\ Abort("master")
        /\ UNCHANGED <<scheduler, joinable>>

LogJoined(who) ==
  MayLog /\ Step(who, "log_joined", "shutdown") /\ UNCHANGED masterVars

ShutdownServer(who) ==
  \/ /\ grpc_server = "none"
     /\ Finish(who, "shutdown")
     /\ UNCHANGED masterVars
  \/ /\ grpc_server = "serving"
     /\ Step(who, "shutdown", "drain")
     /\ grpc_server' = "draining"
     /\ UNCHANGED <<scheduler, joinable, running, call>>
  \/ /\ grpc_server = "down"
     /\ Step(who, "shutdown", "log_stopped")
     /\ UNCHANGED masterVars

(* Faulty: calls under way are not waited for.                             *)
DrainServer_AtOnce(who) ==
  /\ Step(who, "drain", "log_stopped")
  /\ grpc_server' = "down"
  /\ UNCHANGED <<scheduler, joinable, running, call>>

DrainServer(who) ==
  /\ \A c \in Callers : call[c] # "handled"
  /\ Step(who, "drain", "log_stopped")
  /\ grpc_server' = "down"
  /\ UNCHANGED <<scheduler, joinable, running, call>>

LogStopped(who) == MayLog /\ Finish(who, "log_stopped") /\ UNCHANGED masterVars

(* The members are destroyed; a thread that is still joinable ends the     *)
(* process by std::terminate.                                              *)
Destroy ==
  Main("destroy", IF joinable THEN "aborted" ELSE "gone") /\ UNCHANGED masterVars

-----------------------------------------------------------------------------
(* The handler.  Before g_server is set it stops nothing; while g_server   *)
(* is destroyed anything may happen.                                       *)
HandleSignal(h) ==
  /\ MayLog
  /\ IF pc["master"] = "construct" THEN Return(h, "log")
                                   ELSE Step(h, "log", "test")
  /\ UNCHANGED masterVars

UseDestroyed(h) ==
  /\ pc["master"] = "destroy" /\ h \in Active("master") /\ pc[h] # "log"
  /\ Abort("master")
  /\ UNCHANGED masterVars

(* What main and its handlers may do with the log of the master.           *)
Logs(x) == pc[x] \in {"log", "log_started", "log_listening", "log_joined", "log_stopped"}

Starting ==
  {"construct", "start", "spawn", "assign", "log_started", "listen", "log_listening"}

MasterSignal(h) ==
  /\ \/ \E x \in {"master"} \cup Active("master") :
          Signal(h, x, pc["master"] \in Starting, Logs(x))
     \/ /\ scheduler \in {"test", "pass", "sleep"}
        /\ Signal(h, "scheduler", pc["master"] \in Starting, scheduler = "pass")
     \/ /\ grpc_server # "none"
        /\ Signal(h, "pool", pc["master"] \in Starting, TRUE)
  /\ UNCHANGED masterVars

StopStep(who) ==
  \/ TestRunning(who) \/ ClearRunning(who) \/ JoinScheduler(who) \/ LogJoined(who)
  \/ ShutdownServer(who) \/ DrainServer(who) \/ LogStopped(who)

MainThread ==
  \/ Construct \/ StartScheduler \/ SpawnScheduler \/ AssignScheduler \/ LogLine
  \/ Listen \/ Wait \/ StopStep("master") \/ Destroy

HandlerRuns(h) == HandleSignal(h) \/ StopStep(h) \/ UseDestroyed(h)

(* SchedulerEngine::scheduling_loop: a pass takes no lock that main holds. *)
SchedulerThread ==
  /\ ~Ended("master") /\ ~Interrupted("master", "scheduler")
  /\ \/ scheduler = "test" /\ scheduler' = IF running THEN "pass" ELSE "ended"
     \/ scheduler = "pass" /\ scheduler' = "sleep"
     \/ scheduler = "sleep" /\ scheduler' = "test"
  /\ UNCHANGED <<signalVars, joinable, running, grpc_server, call>>

-----------------------------------------------------------------------------
(* A call that was sent is accepted by a serving server and then answered. *)
Moves(c, from, to) == call[c] = from /\ call' = [call EXCEPT ![c] = to]

ServeCall(c) ==
  /\ ~Ended("master")
  /\ \/ grpc_server = "serving" /\ Moves(c, "sent", "handled")
     \/ Moves(c, "handled", "ok")
  /\ UNCHANGED <<signalVars, serverVars>>

(* It fails when no server listens, and when the master is gone.           *)
CallFails(c) ==
  /\ \/ grpc_server # "serving" /\ Moves(c, "sent", "failed")
     \/ Ended("master") /\ (Moves(c, "sent", "failed") \/ Moves(c, "handled", "failed"))
  /\ UNCHANGED <<signalVars, serverVars>>

MasterNext ==
  \/ MainThread \/ SchedulerThread
  \/ \E h \in MasterHandlers : MasterSignal(h) \/ HandlerRuns(h)
  \/ \E c \in Callers : ServeCall(c) \/ CallFails(c)

(* A thread that handles a call, and a handler on top of it, may wait for  *)
(* the log or for each other: such calls need not be answered.             *)
Responsive == MayLog /\ ~Interrupted("master", "pool")

-----------------------------------------------------------------------------
(* The parts of the process are in states they have.                       *)
MasterTypeOK ==
  /\ pc["master"] \in MainStates
  /\ \A h \in MasterHandlers : pc[h] \in HandlerStates
  /\ scheduler \in {"none", "test", "pass", "sleep", "ended", "joined"}
  /\ joinable \in BOOLEAN /\ running \in BOOLEAN
  /\ grpc_server \in {"none", "serving", "draining", "down"}
  /\ call \in [Callers -> {"none", "sent", "handled", "ok", "failed"}]

(* When the members of the master are destroyed no server listens and no   *)
(* call is being handled, whatever signals came.  The scheduler thread is  *)
(* joined unless a signal came while the master was starting or while a    *)
(* handler ran: two handlers may split the work, one still joining when    *)
(* the other lets main go on (scheduler_engine.cpp:24).                    *)
DestroysNothingInUse ==
  pc["master"] \in {"destroy", "gone"} =>
    /\ grpc_server \in {"none", "down"}
    /\ \A c \in Callers : call[c] # "handled"
    /\ Orderly("master") => scheduler = "joined"

(* A master that is told to stop while it serves comes to an end: joining  *)
(* the scheduler and draining the calls, inside the handler, wait for      *)
(* nobody who waits for the handler.  The exceptions are two handlers at a *)
(* time, one of which may wait for the thread it runs on, and a signal     *)
(* that interrupts the last lines of the log.                              *)
ServingMasterEnds ==
  (pc["master"] = "wait" /\ \E h \in MasterHandlers : pc[h] = "log") ~>
    (Ended("master") \/ "master" \in overlapped \/ ~MayLog)
=============================================================================
