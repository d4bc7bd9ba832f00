------------------------------ MODULE Processes ------------------------------
(***************************************************************************)
(* Start and stop of the agents (agent/src/main.cpp, agent_daemon.cpp)     *)
(* next to a master that starts and stops too.  Each agent has its main    *)
(* thread, its signal handlers, and two loops that call the master without *)
(* a deadline; stopping an agent waits for the calls of its loops,         *)
(* stopping the master waits for the calls it handles.                     *)
(***************************************************************************)
EXTENDS MasterProcess

CONSTANT Agents

Loops == {"heartbeat", "polling"}

ASSUME AgentsAssumption ==
  /\ Processes = {"master"} \cup Agents /\ "master" \notin Agents
  /\ Callers = Agents \X (Loops \cup {"main"})

VARIABLE agent                  \* running_, the thread members, the loops

processVars == <<signalVars, masterVars, agent>>

AgentStates == [
  running: BOOLEAN,
  joinable: SUBSET Loops,
  loops: [Loops -> {"none", "test", "calling", "pause", "ended"}]]

AgentMainStates ==
  {"construct", "register", "registering", "log_registered", "log_crashed", "set_running",
   "spawn_heartbeat", "assign_heartbeat", "spawn_polling", "assign_polling", "sleep",
   "gone", "aborted"}

AgentHandlerStates ==
  {"unsent", "log", "test", "clear", "join_heartbeat", "join_polling", "log_stopped", "done"}

AgentHandlers(a) == {h \in Handlers : Home[h] = a}

Started == [running |-> FALSE, joinable |-> {}, loops |-> [t \in Loops |-> "none"]]

ProcessInit ==
  SignalsInit("construct") /\ MasterInit /\ agent = [a \in Agents |-> Started]

-----------------------------------------------------------------------------
NoCall == UNCHANGED call

Send(a, t) == call' = [call EXCEPT ![<<a, t>>] = "sent"]

HasAnswer(a, t) == call[<<a, t>>] \in {"ok", "failed"}

TakeAnswer(a, t) == call' = [call EXCEPT ![<<a, t>>] = "none"]

(* A move of main, or of a handler, that leaves the members alone.         *)
Moved(a, who, from, to) == Go(a, who, from, to) /\ UNCHANGED agent

(* The thread runs before the member is assigned and can be joined.        *)
Spawn(a, t, from, to) ==
  Go(a, a, from, to) /\ agent' = [agent EXCEPT ![a].loops[t] = "test"]

Assign(a, t, from, to) ==
  /\ Go(a, a, from, to)
  /\ agent' = [agent EXCEPT ![a].joinable = agent[a].joinable \cup {t}]

SetRunning(a, who, from, to, value) ==
  Go(a, who, from, to) /\ agent' = [agent EXCEPT ![a].running = value]

(* AgentDaemon::start.  A failed registration throws and main returns.     *)
AgentStarts(a) ==
  \/ Moved(a, a, "construct", "register") /\ NoCall
  \/ Moved(a, a, "register", "registering") /\ Send(a, "main")
  \/ /\ HasAnswer(a, "main")
     /\ Moved(a, a, "registering",
              IF call[<<a, "main">>] = "ok" THEN "log_registered" ELSE "log_crashed")
     /\ TakeAnswer(a, "main")
  \/ /\ a \notin log_held
     /\ Moved(a, a, "log_registered", "set_running") \/ Moved(a, a, "log_crashed", "gone")
     /\ NoCall
  \/ SetRunning(a, a, "set_running", "spawn_heartbeat", TRUE) /\ NoCall
  \/ Spawn(a, "heartbeat", "spawn_heartbeat", "assign_heartbeat") /\ NoCall
  \/ Assign(a, "heartbeat", "assign_heartbeat", "spawn_polling") /\ NoCall
  \/ Spawn(a, "polling", "spawn_polling", "assign_polling") /\ NoCall
  \/ Assign(a, "polling", "assign_polling", "sleep") /\ NoCall

-----------------------------------------------------------------------------
(* AgentDaemon::stop.  A member that holds no thread is not joined; a      *)
(* joining of oneself throws, two at a time are undefined.                 *)
Join(a, h, t, from, to) ==
  \/ t \notin agent[a].joinable /\ Moved(a, h, from, to)
  \/ /\ t \in agent[a].joinable /\ agent[a].loops[t] = "ended"
     /\ Go(a, h, from, to)
     /\ agent' = [agent EXCEPT ![a].joinable = agent[a].joinable \ {t}]
  \/ /\ t \in agent[a].joinable
     /\ pc[h] = from /\ ~Interrupted(a, h) /\ ~Ended(a)
     /\ \/ ThreadOf(h) = t
        \/ \E other \in AgentHandlers(a) \ {h} : pc[other] = from
     /\ Abort(a) /\ UNCHANGED agent

(* The handler.  Before g_agent is set it stops nothing.                   *)
AgentEnters(a, h) ==
  /\ a \notin log_held
  /\ IF pc[a] = "construct" THEN Return(h, "log") /\ UNCHANGED agent
                            ELSE Moved(a, h, "log", "test")

(* Faulty: the polling thread is not waited for.                           *)
AgentStops_HeartbeatOnly(a, h) ==
  \/ AgentEnters(a, h)
  \/ agent[a].running /\ Moved(a, h, "test", "clear")
  \/ ~agent[a].running /\ Return(h, "test") /\ UNCHANGED agent
  \/ SetRunning(a, h, "clear", "join_heartbeat", FALSE)
  \/ Join(a, h, "heartbeat", "join_heartbeat", "log_stopped")
  \/ a \notin log_held /\ Return(h, "log_stopped") /\ UNCHANGED agent

AgentStops(a, h) ==
  \/ AgentEnters(a, h)
  \/ agent[a].running /\ Moved(a, h, "test", "clear")
  \/ ~agent[a].running /\ Return(h, "test") /\ UNCHANGED agent
  \/ SetRunning(a, h, "clear", "join_heartbeat", FALSE)
  \/ Join(a, h, "heartbeat", "join_heartbeat", "join_polling")
  \/ Join(a, h, "polling", "join_polling", "log_stopped")
  \/ a \notin log_held /\ Return(h, "log_stopped") /\ UNCHANGED agent

(* What a signal may interrupt in an agent.                                *)
AgentLogs(x) ==
  pc[x] \in {"registering", "log_registered", "log_crashed", "log", "log_stopped"}

HalfStarted(a) == pc[a] \in {"assign_heartbeat", "assign_polling"}

AgentSignal(h) ==
  LET a == Home[h] IN
  /\ \/ \E x \in {a} \cup Active(a) : Signal(h, x, HalfStarted(a), AgentLogs(x))
     \/ \E t \in Loops :
          /\ agent[a].loops[t] \notin {"none", "ended"}
          /\ Signal(h, t, HalfStarted(a), agent[a].loops[t] = "calling")
     \/ pc[a] # "construct" /\ Signal(h, "pool", HalfStarted(a), TRUE)
  /\ UNCHANGED <<masterVars, agent>>

-----------------------------------------------------------------------------
(* heartbeat_loop and job_polling_loop: test running_, call, pause.        *)
LoopGoes(a, t, from, to) ==
  /\ agent[a].loops[t] = from
  /\ agent' = [agent EXCEPT ![a].loops[t] = to]

(* Faulty: a call that failed is repeated until it is answered.            *)
Loop_Retries(a, t) ==
  \/ agent[a].running /\ LoopGoes(a, t, "test", "calling") /\ Send(a, t)
  \/ ~agent[a].running /\ LoopGoes(a, t, "test", "ended") /\ NoCall
  \/ call[<<a, t>>] = "failed" /\ Send(a, t) /\ UNCHANGED agent
  \/ call[<<a, t>>] = "ok" /\ LoopGoes(a, t, "calling", "pause") /\ TakeAnswer(a, t)
  \/ LoopGoes(a, t, "pause", "test") /\ NoCall

(* Faulty: the answer is not waited for.                                   *)
Loop_SendsOnly(a, t) ==
  \/ agent[a].running /\ LoopGoes(a, t, "test", "pause") /\ Send(a, t)
  \/ ~agent[a].running /\ LoopGoes(a, t, "test", "ended") /\ NoCall
  \/ LoopGoes(a, t, "pause", "test") /\ NoCall

Loop(a, t) ==
  \/ agent[a].running /\ LoopGoes(a, t, "test", "calling") /\ Send(a, t)
  \/ ~agent[a].running /\ LoopGoes(a, t, "test", "ended") /\ NoCall
  \/ HasAnswer(a, t) /\ LoopGoes(a, t, "calling", "pause") /\ TakeAnswer(a, t)
  \/ LoopGoes(a, t, "pause", "test") /\ NoCall

AgentMain(a) == AgentStarts(a) /\ UNCHANGED serverVars

AgentHandler(a, h) == AgentStops(a, h) /\ UNCHANGED masterVars

AgentLoop(a, t) ==
  /\ ~Ended(a) /\ ~Interrupted(a, t)
  /\ Loop(a, t)
  /\ UNCHANGED <<signalVars, serverVars>>

ProcessNext ==
  \/ MasterNext /\ UNCHANGED agent
  \/ \E a \in Agents :
       \/ AgentMain(a)
       \/ \E h \in AgentHandlers(a) : AgentSignal(h) \/ AgentHandler(a, h)
       \/ \E t \in Loops : AgentLoop(a, t)

(* Threads are scheduled, but one that may need the log of its process is  *)
(* only while it can be had.  Nobody has to send a signal.                 *)
ProcessSpec ==
  /\ ProcessInit /\ [][ProcessNext]_processVars
  /\ WF_processVars(MainThread /\ UNCHANGED agent)
  /\ \A h \in MasterHandlers : WF_processVars(HandlerRuns(h) /\ UNCHANGED agent)
  /\ WF_processVars(SchedulerThread /\ MayLog /\ UNCHANGED agent)
  /\ \A c \in Callers :
       /\ WF_processVars(ServeCall(c) /\ Responsive /\ UNCHANGED agent)
       /\ WF_processVars(CallFails(c) /\ UNCHANGED agent)
  /\ \A a \in Agents :
       /\ WF_processVars(AgentMain(a))
       /\ \A h \in AgentHandlers(a) : WF_processVars(AgentHandler(a, h))
       /\ \A t \in Loops : WF_processVars(AgentLoop(a, t) /\ a \notin log_held)

-----------------------------------------------------------------------------
(* The types, and that a thread has a call under way exactly while it      *)
(* waits for it: the calls are synchronous.                                *)
ProcessTypeOK ==
  /\ MasterTypeOK
  /\ agent \in [Agents -> AgentStates]
  /\ \A a \in Agents :
       /\ pc[a] \in AgentMainStates
       /\ \A h \in AgentHandlers(a) : pc[h] \in AgentHandlerStates
       /\ pc[a] = "registering" => call[<<a, "main">>] # "none"
       /\ \A t \in Loops : agent[a].loops[t] = "calling" <=> call[<<a, t>>] # "none"

(* Once its handlers have stopped an agent, its loops never call the       *)
(* master again, whatever the agent was doing when the signal came, even   *)
(* between the start of its two threads (agent_daemon.cpp:51).  The two    *)
(* exceptions: a signal between the start of a thread and the assignment   *)
(* that makes it joinable, and two handlers at a time, each of which finds *)
(* a part of the work done that the other is still doing.                  *)
StoppedAgentIsQuiet ==
  \A a \in Agents :
    ~agent[a].running /\ Active(a) = {} /\ Orderly(a) =>
      \A t \in Loops : agent[a].loops[t] # "calling"

(* Stopping an agent comes to an end: the calls its threads are in are     *)
(* answered or fail, also by a master that is itself being stopped.  The   *)
(* exceptions: two handlers at a time in the agent, a signal that          *)
(* interrupted a line of the log, and a master whose threads cannot answer *)
(* for the same reasons.                                                   *)
AgentStopReturns ==
  \A a \in Agents :
    Active(a) # {} ~> (Active(a) = {} \/ a \in log_held \cup overlapped \/ ~Responsive)
=============================================================================
