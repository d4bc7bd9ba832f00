------------------------------- MODULE Gateway -------------------------------
(***************************************************************************)
(* The HTTP server of the gateway (gateway/src/http_server.cpp) between    *)
(* the page of a user (web/js/user.js) and the master.  One io thread      *)
(* takes completed operations from a queue and runs their handlers one     *)
(* after the other; a handler that calls the master blocks it.  There is   *)
(* no timeout anywhere: a client may connect and never send.               *)
(*                                                                         *)
(* What becomes of a job is JobLifecycle, which the cluster implements;    *)
(* the calls that come through the gateway are steps of it.                *)
(***************************************************************************)
EXTENDS JobLifecycle, Naturals, Sequences

CONSTANTS
  Polls,                        \* connections on which the page lists jobs
  Others,                       \* any other client, which need not behave
  Visited,                      \* bound: the statuses jobs go through
  MaxFailures                   \* bound on the calls to the master that fail

Conns == Polls \cup Others

ASSUME GatewayAssumption == Polls \cap Others = {} /\ MaxFailures \in Nat

VARIABLES
  conn,                         \* where each connection stands
  request, answer,              \* what was asked, what is written back
  backlog,                      \* connections the kernel holds for accept
  accepting,                    \* do_accept has an operation under way
  completed,                    \* the queue of ioc_: operation, connection
  calling,                      \* connections whose handler is in a call
  server,                       \* of the io thread and of the process
  view,                         \* the rows of the page
  failures                      \* calls that failed so far

ioVars == <<backlog, accepting, completed>>
gatewayVars == <<conn, request, answer, ioVars, calling, server, view, failures>>
allVars == <<gatewayVars, lifecycleVars>>

(* The codes of an answer; a job that is not known, or lost, has none.     *)
Codes == {"absent", "QUEUED", "ASSIGNED", "RUNNING", "COMPLETED", "FAILED", "CANCELLED"}

Code(s) == IF s \in {"NONE", "GONE"} THEN "absent" ELSE s

NoAnswer == [ok |-> FALSE, jobs |-> [j \in JobIds |-> "absent"]]

(* The page numbers the statuses by an enumeration of its own, which lacks *)
(* the first members of JobStatus, and what it does not know is queued.    *)
Text == [absent |-> "absent", QUEUED |-> "Running", ASSIGNED |-> "Completed",
         RUNNING |-> "Failed", COMPLETED |-> "Cancelled",
         FAILED |-> "Queued", CANCELLED |-> "Queued"]

(* A row and its button; the code of a queued job is the largest below 3.  *)
Row(code) == [text |-> Text[code], button |-> code = "QUEUED"]

Rows == {Row(code) : code \in Codes}

NoRows == [j \in JobIds |-> Row("absent")]

(* The routes that act on jobs; "other" is every other one and OPTIONS     *)
(* (an approval submits a job, which is then a step of JobLifecycle), and  *)
(* "static" a file of the pages.  A request may also be unreadable (too    *)
(* large, malformed) or ask for a websocket.                               *)
Requests ==
  [kind: {"list", "other", "static", "upgrade", "bad"}] \cup [kind: {"submit", "cancel"}, job: JobIds]

GatewayInit ==
  /\ Init
  /\ conn = [c \in Conns |-> "closed"]
  /\ request = [c \in Conns |-> [kind |-> "list"]]
  /\ answer = [c \in Conns |-> NoAnswer]
  /\ backlog = <<>> /\ accepting = TRUE /\ completed = <<>>
  /\ calling = {} /\ server = "running"
  /\ view = NoRows /\ failures = 0

-----------------------------------------------------------------------------
(* Clients and the kernel.                                                 *)
Connect(c, req) ==
  /\ conn[c] = "closed"
  /\ conn' = [conn EXCEPT ![c] = "connecting"]
  /\ request' = [request EXCEPT ![c] = req]
  /\ backlog' = Append(backlog, c)
  /\ UNCHANGED <<answer, accepting, completed, calling, server, view, failures>>

KernelAccepts ==
  /\ accepting /\ backlog # <<>> /\ server # "crashed"
  /\ accepting' = FALSE
  /\ backlog' = Tail(backlog)
  /\ completed' = Append(completed, <<"accept", Head(backlog)>>)
  /\ UNCHANGED <<conn, request, answer, calling, server, view, failures>>

Send(c) ==
  /\ conn[c] = "reading"
  /\ conn' = [conn EXCEPT ![c] = "sent"]
  /\ completed' = Append(completed, <<"read", c>>)
  /\ UNCHANGED <<request, answer, backlog, accepting, calling, server, view, failures>>

(* A client resets its connection before it sent all of its request.       *)
Reset(c) ==
  /\ conn[c] \in {"connecting", "reading"}
  /\ conn' = [conn EXCEPT ![c] = "reset"]
  /\ completed' = IF conn[c] = "reading"
                  THEN Append(completed, <<"read", c>>) ELSE completed
  /\ UNCHANGED <<request, answer, backlog, accepting, calling, server, view, failures>>

Closed(c) ==
  /\ conn' = [conn EXCEPT ![c] = "closed"]
  /\ request' = [request EXCEPT ![c] = [kind |-> "list"]]
  /\ answer' = [answer EXCEPT ![c] = NoAnswer]

(* Faulty: rows are put over the old ones, which are not removed first.    *)
Receive_NotCleared(c) ==
  /\ conn[c] = "writing"
  /\ view' = IF c \in Polls /\ answer[c].ok
             THEN [j \in JobIds |-> IF answer[c].jobs[j] = "absent" THEN view[j]
                                    ELSE Row(answer[c].jobs[j])]
             ELSE view
  /\ Closed(c)
  /\ UNCHANGED <<ioVars, calling, server, failures>>

(* loadMyJobs replaces its rows when the answer comes, if it is no error;  *)
(* the answers of overlapping polls come in any order.                     *)
Receive(c) ==
  /\ conn[c] = "writing"
  /\ view' = IF c \in Polls /\ answer[c].ok
             THEN [j \in JobIds |-> Row(answer[c].jobs[j])] ELSE view
  /\ Closed(c)
  /\ UNCHANGED <<ioVars, calling, server, failures>>

(* The timer of the page does not wait for earlier answers.                *)
Poll(c) == Connect(c, [kind |-> "list"])

ClickCancel(c, j) == view[j].button /\ Connect(c, [kind |-> "cancel", job |-> j])

OtherRequest(c) ==
  \/ \E kind \in {"other", "static", "upgrade", "bad"} : Connect(c, [kind |-> kind])
  \/ \E j \in JobIds : Connect(c, [kind |-> "submit", job |-> j])

-----------------------------------------------------------------------------
(* The io thread.                                                          *)
IoRuns(operation, c) ==
  /\ server = "running" /\ calling = {}
  /\ completed # <<>> /\ Head(completed) = <<operation, c>>

(* Faulty: do_accept is called for a good connection only.                 *)
RunAccept_StopsOnError(c) ==
  /\ IoRuns("accept", c)
  /\ completed' = Tail(completed)
  /\ accepting' = (conn[c] # "reset")
  /\ conn' = [conn EXCEPT ![c] = IF @ = "reset" THEN "closed" ELSE "reading"]
  /\ UNCHANGED <<request, answer, backlog, calling, server, view, failures>>

(* A connection that was reset before is dropped, or its read fails; the   *)
(* next one is accepted anyway.                                            *)
RunAccept(c) ==
  /\ IoRuns("accept", c)
  /\ accepting' = TRUE
  /\ \/ /\ completed' = Tail(completed)
        /\ conn' = [conn EXCEPT ![c] = IF @ = "reset" THEN "closed" ELSE "reading"]
     \/ /\ conn[c] = "reset"
        /\ completed' = Append(Tail(completed), <<"read", c>>)
        /\ UNCHANGED conn
  /\ UNCHANGED <<request, answer, backlog, calling, server, view, failures>>

(* A request that cannot be read is answered too.  If the peer has reset   *)
(* the connection, the write completes with an error.                      *)
RunFailedRead(c) ==
  /\ conn[c] = "reset" \/ request[c].kind = "bad"
  /\ completed' = IF conn[c] = "reset"
                  THEN Append(Tail(completed), <<"write", c>>) ELSE Tail(completed)
  /\ conn' = [conn EXCEPT ![c] = IF @ = "reset" THEN @ ELSE "writing"]
  /\ UNCHANGED <<request, answer, calling>>

(* Faulty: the socket is kept and nobody reads from it.                    *)
RunUpgrade_Kept(c) ==
  /\ conn[c] = "sent" /\ request[c].kind = "upgrade"
  /\ completed' = Tail(completed)
  /\ UNCHANGED <<conn, request, answer, calling>>

(* The socket goes out of scope without an answer.                         *)
RunUpgrade(c) ==
  /\ conn[c] = "sent" /\ request[c].kind = "upgrade"
  /\ completed' = Tail(completed)
  /\ Closed(c)
  /\ UNCHANGED calling

(* A route asks the master; an unknown one and OPTIONS ask nobody, nor     *)
(* does a file, whose read may wait for ever.                              *)
RunRequest(c) ==
  /\ conn[c] = "sent" /\ request[c].kind \notin {"bad", "upgrade"}
  /\ completed' = Tail(completed)
  /\ \/ calling' = {c} /\ UNCHANGED conn
     \/ /\ request[c].kind \in {"other", "static"}
        /\ conn' = [conn EXCEPT ![c] = "writing"] /\ UNCHANGED calling
  /\ UNCHANGED <<request, answer>>

RunRead(c) ==
  /\ IoRuns("read", c)
  /\ RunFailedRead(c) \/ RunUpgrade(c) \/ RunRequest(c)
  /\ UNCHANGED <<backlog, accepting, server, view, failures>>

(* After an error answer the handler shuts the socket down by the overload *)
(* that throws, and nobody catches what leaves ioc_.run().                 *)
RunWrite(c) ==
  /\ IoRuns("write", c)
  /\ server' = "crashed"
  /\ UNCHANGED <<conn, request, answer, ioVars, calling, view, failures>>

(* The files are served before the try block begins: what the lookup of    *)
(* one throws leaves ioc_.run() too.                                       *)
LookupThrows(c) ==
  /\ IoRuns("read", c) /\ conn[c] = "sent" /\ request[c].kind = "static"
  /\ server' = "crashed"
  /\ UNCHANGED <<conn, request, answer, ioVars, calling, view, failures>>

IoThread ==
  \E c \in Conns : RunAccept(c) \/ RunRead(c) \/ RunWrite(c) \/ LookupThrows(c)

-----------------------------------------------------------------------------
(* The bridge: one call to the master, whose answer is written at once.    *)
Write(c, ans) ==
  /\ calling' = {}
  /\ conn' = [conn EXCEPT ![c] = "writing"]
  /\ answer' = [answer EXCEPT ![c] = ans]
  /\ UNCHANGED <<request, ioVars, server, view>>

Answered(c, ok) == Write(c, [NoAnswer EXCEPT !.ok = ok]) /\ UNCHANGED failures

list_jobs(c) ==
  /\ request[c].kind = "list"
  /\ Write(c, [ok |-> TRUE, jobs |-> [j \in JobIds |-> Code(status[j])]])
  /\ UNCHANGED <<failures, lifecycleVars>>

submit_job(c) ==
  /\ request[c].kind = "submit"
  /\ IF status[request[c].job] = "NONE"
     THEN Submit(request[c].job) /\ Answered(c, TRUE)
     ELSE Answered(c, FALSE) /\ UNCHANGED lifecycleVars

cancel_job(c) ==
  /\ request[c].kind = "cancel"
  /\ \/ Cancel(request[c].job) /\ Answered(c, TRUE)
     \/ /\ status[request[c].job] \notin {"QUEUED", "ASSIGNED", "RUNNING"}
        /\ Answered(c, FALSE) /\ UNCHANGED lifecycleVars

other_call(c) ==
  /\ request[c].kind = "other"
  /\ Answered(c, TRUE) /\ UNCHANGED lifecycleVars

CallFails(c) ==
  /\ request[c].kind # "static" /\ failures < MaxFailures
  /\ failures' = failures + 1
  /\ Write(c, NoAnswer)
  /\ UNCHANGED lifecycleVars

MasterAnswers(c) ==
  /\ c \in calling
  /\ list_jobs(c) \/ submit_job(c) \/ cancel_job(c) \/ other_call(c) \/ CallFails(c)

-----------------------------------------------------------------------------
(* HttpServer::stop, called by the signal handler: the handler that runs   *)
(* is finished, further ones are not started, and run returns.             *)
Stop ==
  /\ server = "running"
  /\ server' = "stopping"
  /\ UNCHANGED <<conn, request, answer, ioVars, calling, view, failures>>

(* Faulty: the connections are left to finish first.                       *)
Joined_Gracefully ==
  /\ server = "stopping" /\ \A c \in Conns : conn[c] = "closed"
  /\ server' = "stopped"
  /\ UNCHANGED <<conn, request, answer, ioVars, calling, view, failures>>

Joined ==
  /\ server = "stopping" /\ calling = {}
  /\ server' = "stopped"
  /\ UNCHANGED <<conn, request, answer, ioVars, calling, view, failures>>

PageStep(c) == Poll(c) \/ Send(c) \/ Receive(c)

OtherStep(c) ==
  \/ OtherRequest(c) \/ Send(c) \/ Receive(c) \/ Reset(c)
  \/ \E j \in JobIds : ClickCancel(c, j)

GatewayNext ==
  \/ /\ \/ \E c \in Polls : PageStep(c)
        \/ \E c \in Others : OtherStep(c)
        \/ KernelAccepts \/ IoThread \/ Stop \/ Joined
     /\ UNCHANGED lifecycleVars
  \/ \E c \in Conns : MasterAnswers(c)
  \/ Next /\ (\A j \in JobIds : status'[j] \in Visited) /\ UNCHANGED gatewayVars

(* Threads, the kernel, the page and the master go on; other clients need  *)
(* not send or take anything.                                              *)
GatewaySpec ==
  /\ GatewayInit /\ [][GatewayNext]_allVars
  /\ WF_allVars(KernelAccepts /\ UNCHANGED lifecycleVars)
  /\ WF_allVars((IoThread \/ Joined) /\ UNCHANGED lifecycleVars)
  /\ WF_allVars(\E c \in Conns : MasterAnswers(c))
  /\ \A c \in Polls : WF_allVars(PageStep(c) /\ UNCHANGED lifecycleVars)

-----------------------------------------------------------------------------
(* The types, and that a connection has one operation or handler at a      *)
(* time: its place tells which.  Exactly one accept is always under way,   *)
(* queued or being handled.                                                *)
GatewayTypeOK ==
  /\ conn \in [Conns -> {"closed", "connecting", "reading", "sent", "writing", "reset"}]
  /\ request \in [Conns -> Requests]
  /\ answer \in [Conns -> [ok: BOOLEAN, jobs: [JobIds -> Codes]]]
  /\ view \in [JobIds -> Rows]
  /\ server \in {"running", "stopping", "stopped", "crashed"}
  /\ calling \subseteq {c \in Conns : conn[c] = "sent"}
  /\ accepting <=> \A i \in DOMAIN completed : completed[i][1] # "accept"
  /\ \A i, k \in DOMAIN completed : completed[i][2] = completed[k][2] => i = k
  /\ \A c \in Conns : conn[c] = "sent" <=> c \in calling \/
                        \E i \in DOMAIN completed : completed[i] = <<"read", c>> /\ conn[c] # "reset"

(* The io thread reads a file that does not end.                           *)
Blocked == \E c \in calling : request[c].kind = "static"

Serving == server = "running" /\ ~Blocked

(* Whoever asks through the page gets an answer, whatever other clients do *)
(* on the same io thread: stall, reset, send garbage.  It ends with a stop *)
(* of the gateway, with its crash after a reset connection or a lookup of  *)
(* a file that throws, and with a file whose read does not return.         *)
EveryPollIsAnswered ==
  \A c \in Polls : conn[c] = "connecting" ~> (conn[c] = "closed" \/ ~Serving)

(* The page comes to show, in its own words, every status that lasts,      *)
(* although polls overlap and their answers come late or out of order.     *)
ViewConverges ==
  \A j \in JobIds : \A s \in {Code(v) : v \in Visited} :
    (<>[](Code(status[j]) = s) /\ []Serving) => <>[](view[j] = Row(s))

(* A stop of the gateway returns, a handler that waits for the master      *)
(* included, unless one reads a file that does not end.                    *)
StopReturns == server = "stopping" ~> (server = "stopped" \/ Blocked)
=============================================================================
