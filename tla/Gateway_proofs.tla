--------------------------- MODULE Gateway_proofs ---------------------------
(***************************************************************************)
(* For any number of pages, other clients and jobs: the gateway keeps its  *)
(* types, a connection is in one place at a time, there is always exactly  *)
(* one accept, and what reaches the master through the gateway is nothing  *)
(* but the lifecycle of jobs.                                              *)
(*                                                                         *)
(* The io queue and the backlog are sequences without repetition, so what  *)
(* matters of them is which operations of a connection they hold: PlaceOK  *)
(* says what that may be, for each place the connection can be in.  A step *)
(* moves one connection and leaves the places of the others.               *)
(***************************************************************************)
EXTENDS Gateway, TLAPS

Kinds == {"accept", "read", "write"}

Operations == Kinds \X Conns

(* Each operation in the queue is of another connection.                   *)
Separate(s) == \A i, k \in DOMAIN s : s[i][2] = s[k][2] => i = k

Holds(s, e) == \E i \in DOMAIN s : s[i] = e

Ops(c) == {kind \in Kinds : Holds(completed, <<kind, c>>)}

Unrepeated(s) == \A i, k \in DOMAIN s : s[i] = s[k] => i = k

QueuesInv ==
  /\ completed \in Seq(Operations) /\ Separate(completed)
  /\ backlog \in Seq(Conns) /\ Unrepeated(backlog)

PlaceOK(c) ==
  /\ Holds(backlog, c) => conn[c] \in {"connecting", "reset"} /\ Ops(c) = {}
  /\ "accept" \in Ops(c) => conn[c] \in {"connecting", "reset"} /\ Ops(c) = {"accept"}
  /\ "read" \in Ops(c) => conn[c] \in {"sent", "reset"} /\ Ops(c) = {"read"}
  /\ "write" \in Ops(c) => conn[c] = "reset" /\ Ops(c) = {"write"}
  /\ c \in calling => conn[c] = "sent" /\ Ops(c) = {}
  /\ conn[c] = "sent" => c \in calling \/ "read" \in Ops(c)

OneAccept ==
  /\ \A c, d \in Conns : "accept" \in Ops(c) /\ "accept" \in Ops(d) => c = d
  /\ accepting <=> \A c \in Conns : "accept" \notin Ops(c)

Statuses == {"NONE", "GONE", "QUEUED", "ASSIGNED", "RUNNING", "COMPLETED", "FAILED", "CANCELLED"}

ConnStates == {"closed", "connecting", "reading", "sent", "writing", "reset"}

Answers == [ok: BOOLEAN, jobs: [JobIds -> Codes]]

Typed ==
  /\ status \in [JobIds -> Statuses]
  /\ conn \in [Conns -> ConnStates]
  /\ request \in [Conns -> Requests]
  /\ answer \in [Conns -> Answers]
  /\ view \in [JobIds -> Rows]
  /\ server \in {"running", "stopping", "stopped", "crashed"}
  /\ calling \subseteq Conns

OneCall == \A c, d \in calling : c = d

GatewayInv ==
  Typed /\ QueuesInv /\ OneAccept /\ OneCall /\ \A c \in Conns : PlaceOK(c)

-----------------------------------------------------------------------------
(* The two queues.                                                         *)
LEMMA Appended ==
  ASSUME NEW S, NEW s \in Seq(S), NEW x \in S
  PROVE  /\ Append(s, x) \in Seq(S)
         /\ \A e : Holds(Append(s, x), e) <=> Holds(s, e) \/ e = x
<1>1. /\ Append(s, x) \in Seq(S) /\ Len(s) \in Nat
      /\ DOMAIN s = 1..Len(s) /\ DOMAIN Append(s, x) = 1..(Len(s) + 1)
      /\ \A i \in 1..Len(s) : Append(s, x)[i] = s[i]
      /\ Append(s, x)[Len(s) + 1] = x
  OBVIOUS
<1>2. \A i : i \in 1..(Len(s) + 1) <=> i \in 1..Len(s) \/ i = Len(s) + 1
  BY <1>1
<1> QED
  BY <1>1, <1>2 DEF Holds

LEMMA AppendedApart ==
  ASSUME NEW s \in Seq(Operations), NEW x \in Operations, Separate(s),
         \A i \in DOMAIN s : s[i][2] # x[2]
  PROVE  Separate(Append(s, x))
<1>1. /\ Len(s) \in Nat
      /\ DOMAIN s = 1..Len(s) /\ DOMAIN Append(s, x) = 1..(Len(s) + 1)
      /\ \A i \in 1..Len(s) : Append(s, x)[i] = s[i]
      /\ Append(s, x)[Len(s) + 1] = x
  OBVIOUS
<1>2. \A i : i \in 1..(Len(s) + 1) <=> i \in 1..Len(s) \/ i = Len(s) + 1
  BY <1>1
<1> QED
  BY <1>1, <1>2 DEF Separate

LEMMA AppendedNew ==
  ASSUME NEW S, NEW s \in Seq(S), NEW x \in S, Unrepeated(s), ~Holds(s, x)
  PROVE  Unrepeated(Append(s, x))
<1>1. /\ Len(s) \in Nat
      /\ DOMAIN s = 1..Len(s) /\ DOMAIN Append(s, x) = 1..(Len(s) + 1)
      /\ \A i \in 1..Len(s) : Append(s, x)[i] = s[i]
      /\ Append(s, x)[Len(s) + 1] = x
  OBVIOUS
<1>2. \A i : i \in 1..(Len(s) + 1) <=> i \in 1..Len(s) \/ i = Len(s) + 1
  BY <1>1
<1> QED
  BY <1>1, <1>2 DEF Unrepeated, Holds

LEMMA TailFacts ==
  ASSUME NEW S, NEW s \in Seq(S), s # <<>>
  PROVE  /\ Tail(s) \in Seq(S) /\ Head(s) = s[1] /\ 1 \in DOMAIN s /\ Head(s) \in S
         /\ \A i \in DOMAIN Tail(s) : i + 1 \in DOMAIN s /\ Tail(s)[i] = s[i + 1] /\ i \in Nat \ {0}
         /\ \A i \in DOMAIN s : i # 1 => i - 1 \in DOMAIN Tail(s) /\ s[i] = Tail(s)[i - 1]
<1>1. /\ Len(s) \in Nat \ {0} /\ DOMAIN s = 1..Len(s) /\ Head(s) = s[1]
      /\ Tail(s) \in Seq(S) /\ DOMAIN Tail(s) = 1..(Len(s) - 1)
      /\ \A i \in 1..(Len(s) - 1) : Tail(s)[i] = s[i + 1]
  OBVIOUS
<1>2. /\ \A i \in 1..(Len(s) - 1) : i + 1 \in 1..Len(s)
      /\ \A i \in 1..Len(s) : i # 1 => i - 1 \in 1..(Len(s) - 1) /\ (i - 1) + 1 = i
      /\ 1 \in 1..Len(s)
  BY <1>1
<1> QED
  BY <1>1, <1>2

LEMMA Removed ==
  ASSUME NEW S, NEW s \in Seq(S), s # <<>>, Unrepeated(s)
  PROVE  /\ Tail(s) \in Seq(S) /\ Unrepeated(Tail(s)) /\ Head(s) \in S /\ Holds(s, Head(s))
         /\ \A e : Holds(Tail(s), e) <=> Holds(s, e) /\ e # Head(s)
<1>1. /\ Tail(s) \in Seq(S) /\ Head(s) = s[1] /\ 1 \in DOMAIN s /\ Head(s) \in S
      /\ \A i \in DOMAIN Tail(s) : i + 1 \in DOMAIN s /\ Tail(s)[i] = s[i + 1] /\ i \in Nat \ {0}
      /\ \A i \in DOMAIN s : i # 1 => i - 1 \in DOMAIN Tail(s) /\ s[i] = Tail(s)[i - 1]
  BY TailFacts
<1>2. \A i \in Nat \ {0} : i + 1 # 1
  OBVIOUS
<1>3. \A i, k \in Nat : i + 1 = k + 1 => i = k
  OBVIOUS
<1>4. Unrepeated(Tail(s)) /\ Holds(s, Head(s))
  BY <1>1, <1>2, <1>3 DEF Unrepeated, Holds
<1>5. ASSUME NEW e, Holds(Tail(s), e) PROVE Holds(s, e) /\ e # Head(s)
  BY <1>1, <1>2, <1>5 DEF Unrepeated, Holds
<1>6. ASSUME NEW e, Holds(s, e), e # Head(s) PROVE Holds(Tail(s), e)
  <2>1. PICK i \in DOMAIN s : s[i] = e
    BY <1>6 DEF Holds
  <2>2. i # 1
    BY <1>1, <1>6, <2>1
  <2> QED
    BY <1>1, <2>1, <2>2 DEF Holds
<1> QED
  BY <1>1, <1>4, <1>5, <1>6

LEMMA SeparateIsUnrepeated ==
  ASSUME NEW s, Separate(s)
  PROVE  Unrepeated(s)
BY DEF Separate, Unrepeated

LEMMA RemovedApart ==
  ASSUME NEW s \in Seq(Operations), s # <<>>, Separate(s)
  PROVE  Separate(Tail(s)) /\ \A i \in DOMAIN Tail(s) : Tail(s)[i][2] # Head(s)[2]
<1>1. /\ Tail(s) \in Seq(Operations) /\ Head(s) = s[1] /\ 1 \in DOMAIN s
      /\ \A i \in DOMAIN Tail(s) : i + 1 \in DOMAIN s /\ Tail(s)[i] = s[i + 1] /\ i \in Nat \ {0}
  BY TailFacts
<1>2. \A i \in Nat \ {0} : i + 1 # 1
  OBVIOUS
<1>3. \A i, k \in Nat : i + 1 = k + 1 => i = k
  OBVIOUS
<1> QED
  BY <1>1, <1>2, <1>3 DEF Separate

-----------------------------------------------------------------------------
(* What the moves of the io queue do to the operations of a connection.    *)
LEMMA OpsAppended ==
  ASSUME QueuesInv, NEW kind \in Kinds, NEW c \in Conns, Ops(c) = {},
         completed' = Append(completed, <<kind, c>>)
  PROVE  /\ completed' \in Seq(Operations) /\ Separate(completed')
         /\ Ops(c)' = {kind} /\ \A d \in Conns \ {c} : Ops(d)' = Ops(d)
<1>1. <<kind, c>> \in Operations /\ completed \in Seq(Operations)
  BY DEF QueuesInv, Operations
<1>2. \A i \in DOMAIN completed : completed[i][2] # c
  <2>1. SUFFICES ASSUME NEW i \in DOMAIN completed, completed[i][2] = c PROVE FALSE
    OBVIOUS
  <2>2. completed[i] \in Kinds \X Conns
    BY <1>1 DEF Operations
  <2>3. completed[i] = <<completed[i][1], c>> /\ completed[i][1] \in Kinds
    BY <2>1, <2>2
  <2> QED
    BY <2>3 DEF Ops, Holds
<1>3. completed' \in Seq(Operations) /\ Separate(completed')
  BY <1>1, <1>2, Appended, AppendedApart DEF QueuesInv
<1>4. \A e : Holds(completed', e) <=> Holds(completed, e) \/ e = <<kind, c>>
  BY <1>1, Appended
<1> QED
  BY <1>3, <1>4 DEF Ops

LEMMA OpsRemoved ==
  ASSUME QueuesInv, NEW kind \in Kinds, NEW c \in Conns, completed # <<>>,
         Head(completed) = <<kind, c>>, completed' = Tail(completed),
         Ops(c) = {kind}
  PROVE  /\ completed' \in Seq(Operations) /\ Separate(completed')
         /\ Ops(c)' = {} /\ \A d \in Conns \ {c} : Ops(d)' = Ops(d)
<1>1. /\ completed' \in Seq(Operations)
      /\ \A e : Holds(completed', e) <=> Holds(completed, e) /\ e # <<kind, c>>
  BY Removed, SeparateIsUnrepeated DEF QueuesInv
<1>2. Separate(completed')
  BY RemovedApart DEF QueuesInv
<1> QED
  BY <1>1, <1>2 DEF Ops

(* The connection is put back at the end for another operation.            *)
LEMMA OpsReplaced ==
  ASSUME QueuesInv, NEW kind \in Kinds, NEW c \in Conns, completed # <<>>,
         Head(completed) = <<kind, c>>, Ops(c) = {kind},
         NEW next \in Kinds, completed' = Append(Tail(completed), <<next, c>>)
  PROVE  /\ completed' \in Seq(Operations) /\ Separate(completed')
         /\ Ops(c)' = {next} /\ \A d \in Conns \ {c} : Ops(d)' = Ops(d)
<1>1. <<next, c>> \in Operations
  BY DEF Operations
<1>2. /\ Tail(completed) \in Seq(Operations)
      /\ \A e : Holds(Tail(completed), e) <=> Holds(completed, e) /\ e # <<kind, c>>
  BY Removed, SeparateIsUnrepeated DEF QueuesInv
<1>3. /\ Separate(Tail(completed))
      /\ \A i \in DOMAIN Tail(completed) : Tail(completed)[i][2] # <<kind, c>>[2]
  BY RemovedApart DEF QueuesInv
<1>4. Separate(completed')
  BY <1>1, <1>2, <1>3, AppendedApart
<1>5. /\ completed' \in Seq(Operations)
      /\ \A e : Holds(completed', e) <=> Holds(Tail(completed), e) \/ e = <<next, c>>
  <2>1. PICK rest \in Seq(Operations) : rest = Tail(completed)
    BY <1>2
  <2>2. /\ Append(rest, <<next, c>>) \in Seq(Operations)
        /\ \A e : Holds(Append(rest, <<next, c>>), e) <=> Holds(rest, e) \/ e = <<next, c>>
    BY <1>1, Appended
  <2> QED
    BY <2>1, <2>2
<1> QED
  BY <1>2, <1>4, <1>5 DEF Ops

-----------------------------------------------------------------------------
(* A step moves the connection c and leaves the others where they are.     *)
OthersStay(c) ==
  \A d \in Conns \ {c} :
    /\ conn'[d] = conn[d] /\ Ops(d)' = Ops(d)
    /\ Holds(backlog, d)' <=> Holds(backlog, d)
    /\ (d \in calling)' <=> d \in calling

LEMMA OthersKeepPlace ==
  ASSUME \A d \in Conns : PlaceOK(d), NEW c \in Conns, OthersStay(c), PlaceOK(c)'
  PROVE  \A d \in Conns : PlaceOK(d)'
<1>1. ASSUME NEW d \in Conns \ {c} PROVE PlaceOK(d)'
  <2>1. PlaceOK(d)
    OBVIOUS
  <2> QED
    BY <2>1 DEF PlaceOK, OthersStay
<1> QED
  BY <1>1

(* What the steps of clients and of the io thread do to c.                 *)
Moves(c, place, ops, waits) ==
  /\ OthersStay(c)
  /\ conn'[c] = place /\ Ops(c)' = ops /\ (Holds(backlog, c)' <=> waits)
  /\ c \notin calling'

LEMMA MovesKeep ==
  ASSUME \A d \in Conns : PlaceOK(d), NEW c \in Conns, NEW place, NEW ops, NEW waits \in BOOLEAN,
         Moves(c, place, ops, waits),
         \/ place \in {"closed", "reading", "writing"} /\ ops = {} /\ ~waits
         \/ place \in {"connecting", "reset"} /\ ops = {"accept"} /\ ~waits
         \/ place \in {"connecting", "reset"} /\ ops = {} /\ waits
         \/ place \in {"sent", "reset"} /\ ops = {"read"} /\ ~waits
         \/ place = "reset" /\ ops = {"write"} /\ ~waits
  PROVE  \A d \in Conns : PlaceOK(d)'
<1>1. PlaceOK(c)'
  BY DEF Moves, PlaceOK
<1> QED
  BY <1>1, OthersKeepPlace DEF Moves

(* The accept.                                                             *)
LEMMA AcceptStands ==
  ASSUME OneAccept, NEW c \in Conns, OthersStay(c), accepting' = accepting,
         "accept" \in Ops(c)' <=> "accept" \in Ops(c)
  PROVE  OneAccept'
<1>1. \A d \in Conns : "accept" \in Ops(d)' <=> "accept" \in Ops(d)
  BY DEF OthersStay
<1> QED
  BY <1>1 DEF OneAccept

LEMMA AcceptTaken ==
  ASSUME OneAccept, NEW c \in Conns, OthersStay(c), accepting, ~accepting',
         "accept" \in Ops(c)'
  PROVE  OneAccept'
<1>1. \A d \in Conns \ {c} : "accept" \notin Ops(d)'
  BY DEF OthersStay, OneAccept
<1> QED
  BY <1>1 DEF OneAccept

LEMMA AcceptFreed ==
  ASSUME OneAccept, NEW c \in Conns, OthersStay(c), "accept" \in Ops(c), accepting',
         "accept" \notin Ops(c)'
  PROVE  OneAccept'
<1>1. \A d \in Conns : "accept" \notin Ops(d)'
  BY DEF OthersStay, OneAccept
<1> QED
  BY <1>1 DEF OneAccept
-----------------------------------------------------------------------------
(* A connection that waits for its peer is in no queue and in no call.     *)
LEMMA Idle ==
  ASSUME GatewayInv, NEW c \in Conns, conn[c] \in {"closed", "reading", "writing"}
  PROVE  Ops(c) = {} /\ ~Holds(backlog, c) /\ c \notin calling
<1>1. PlaceOK(c)
  BY DEF GatewayInv
<1>2. Ops(c) \subseteq Kinds /\ "accept" \notin Ops(c) /\ "read" \notin Ops(c) /\ "write" \notin Ops(c)
  BY <1>1 DEF PlaceOK, Ops
<1> QED
  BY <1>1, <1>2 DEF PlaceOK, Kinds

LEMMA QueueSame ==
  ASSUME completed' = completed
  PROVE  \A c : Ops(c)' = Ops(c)
BY DEF Ops

(* Clients and the kernel.                                                 *)
LEMMA ConnectStep ==
  ASSUME GatewayInv, NEW c \in Conns, NEW req \in Requests, Connect(c, req),
         UNCHANGED lifecycleVars
  PROVE  GatewayInv'
<1>1. Typed'
  BY DEF GatewayInv, Typed, Connect, ConnStates, lifecycleVars
<1>2. Ops(c) = {} /\ ~Holds(backlog, c) /\ c \notin calling
  BY Idle DEF Connect
<1>3. \A d : Ops(d)' = Ops(d)
  BY QueueSame DEF Connect
<1>4. /\ backlog' \in Seq(Conns) /\ Unrepeated(backlog')
      /\ \A e : Holds(backlog', e) <=> Holds(backlog, e) \/ e = c
  <2>1. backlog \in Seq(Conns) /\ Unrepeated(backlog) /\ backlog' = Append(backlog, c)
    BY DEF GatewayInv, QueuesInv, Connect
  <2> QED
    BY <1>2, <2>1, Appended, AppendedNew
<1>5. Moves(c, "connecting", {}, TRUE)
  BY <1>2, <1>3, <1>4 DEF Moves, OthersStay, Connect, GatewayInv, Typed
<1>6. \A d \in Conns : PlaceOK(d)'
  BY <1>5, MovesKeep DEF GatewayInv
<1>7. OneAccept'
  BY <1>3, <1>5, AcceptStands DEF GatewayInv, Moves, Connect
<1> QED
  BY <1>1, <1>4, <1>6, <1>7 DEF GatewayInv, QueuesInv, OneCall, Connect

LEMMA KernelStep ==
  ASSUME GatewayInv, KernelAccepts, UNCHANGED lifecycleVars
  PROVE  GatewayInv'
<1>1. Typed'
  BY DEF GatewayInv, Typed, KernelAccepts, lifecycleVars
<1>2. PICK c : c = Head(backlog)
  OBVIOUS
<1>3. /\ backlog' \in Seq(Conns) /\ Unrepeated(backlog') /\ c \in Conns /\ Holds(backlog, c)
      /\ \A e : Holds(backlog', e) <=> Holds(backlog, e) /\ e # c
  <2>1. backlog \in Seq(Conns) /\ Unrepeated(backlog) /\ backlog # <<>> /\ backlog' = Tail(backlog)
    BY DEF GatewayInv, QueuesInv, KernelAccepts
  <2> QED
    BY <1>2, <2>1, Removed
<1>4. conn[c] \in {"connecting", "reset"} /\ Ops(c) = {} /\ c \notin calling
  BY <1>3 DEF GatewayInv, PlaceOK
<1>5. /\ completed' \in Seq(Operations) /\ Separate(completed')
      /\ Ops(c)' = {"accept"} /\ \A d \in Conns \ {c} : Ops(d)' = Ops(d)
  <2>1. QueuesInv /\ "accept" \in Kinds /\ completed' = Append(completed, <<"accept", c>>)
    BY <1>2 DEF GatewayInv, KernelAccepts, Kinds
  <2> QED
    BY <1>3, <1>4, <2>1, OpsAppended
<1>6. Moves(c, conn[c], {"accept"}, FALSE)
  BY <1>3, <1>4, <1>5 DEF Moves, OthersStay, KernelAccepts
<1>7. \A d \in Conns : PlaceOK(d)'
  BY <1>3, <1>4, <1>6, MovesKeep DEF GatewayInv
<1>8. OneAccept'
  BY <1>3, <1>5, <1>6, AcceptTaken DEF GatewayInv, Moves, KernelAccepts
<1> QED
  BY <1>1, <1>3, <1>5, <1>7, <1>8 DEF GatewayInv, QueuesInv, OneCall, KernelAccepts

LEMMA SendStep ==
  ASSUME GatewayInv, NEW c \in Conns, Send(c), UNCHANGED lifecycleVars
  PROVE  GatewayInv'
<1>1. Typed'
  BY DEF GatewayInv, Typed, Send, ConnStates, lifecycleVars
<1>2. Ops(c) = {} /\ ~Holds(backlog, c) /\ c \notin calling
  BY Idle DEF Send
<1>3. /\ completed' \in Seq(Operations) /\ Separate(completed')
      /\ Ops(c)' = {"read"} /\ \A d \in Conns \ {c} : Ops(d)' = Ops(d)
  <2>1. QueuesInv /\ "read" \in Kinds /\ completed' = Append(completed, <<"read", c>>)
    BY DEF GatewayInv, Send, Kinds
  <2> QED
    BY <1>2, <2>1, OpsAppended
<1>4. Moves(c, "sent", {"read"}, FALSE)
  BY <1>2, <1>3 DEF Moves, OthersStay, Send, GatewayInv, Typed
<1>5. \A d \in Conns : PlaceOK(d)'
  BY <1>4, MovesKeep DEF GatewayInv
<1>6. OneAccept'
  BY <1>2, <1>3, <1>4, AcceptStands DEF GatewayInv, Moves, Send
<1> QED
  BY <1>1, <1>3, <1>5, <1>6 DEF GatewayInv, QueuesInv, OneCall, Send

LEMMA ResetStep ==
  ASSUME GatewayInv, NEW c \in Conns, Reset(c), UNCHANGED lifecycleVars
  PROVE  GatewayInv'
<1>1. Typed' /\ OneCall'
  BY DEF GatewayInv, Typed, OneCall, Reset, ConnStates, lifecycleVars
<1>2. CASE conn[c] = "reading"
  <2>1. Ops(c) = {} /\ ~Holds(backlog, c) /\ c \notin calling
    BY <1>2, Idle
  <2>2. /\ completed' \in Seq(Operations) /\ Separate(completed')
        /\ Ops(c)' = {"read"} /\ \A d \in Conns \ {c} : Ops(d)' = Ops(d)
    <3>1. QueuesInv /\ "read" \in Kinds /\ completed' = Append(completed, <<"read", c>>)
      BY <1>2 DEF GatewayInv, Reset, Kinds
    <3> QED
      BY <2>1, <3>1, OpsAppended
  <2>3. Moves(c, "reset", {"read"}, FALSE)
    BY <2>1, <2>2 DEF Moves, OthersStay, Reset, GatewayInv, Typed
  <2>4. \A d \in Conns : PlaceOK(d)'
    BY <2>3, MovesKeep DEF GatewayInv
  <2>5. OneAccept'
    BY <2>1, <2>2, <2>3, AcceptStands DEF GatewayInv, Moves, Reset
  <2> QED
    BY <1>1, <2>2, <2>4, <2>5 DEF GatewayInv, QueuesInv, Reset
<1>3. CASE conn[c] = "connecting"
  <2>1. completed' = completed /\ \A d : Ops(d)' = Ops(d)
    BY <1>3, QueueSame DEF Reset
  <2>2. OthersStay(c)
    BY <2>1 DEF OthersStay, Reset, GatewayInv, Typed
  <2>3. PlaceOK(c)'
    <3>1. PlaceOK(c) /\ conn'[c] = "reset"
      BY DEF GatewayInv, Typed, Reset
    <3> QED
      BY <1>3, <2>1, <3>1 DEF PlaceOK, Reset
  <2>4. \A d \in Conns : PlaceOK(d)'
    BY <2>2, <2>3, OthersKeepPlace DEF GatewayInv
  <2>5. OneAccept'
    BY <2>1, <2>2, AcceptStands DEF GatewayInv, Reset
  <2> QED
    BY <1>1, <2>1, <2>4, <2>5 DEF GatewayInv, QueuesInv, Reset
<1> QED
  BY <1>2, <1>3 DEF Reset

(* An answer that is taken becomes rows; the connection closes.            *)
LEMMA NewRows ==
  ASSUME Typed, NEW c \in Conns
  PROVE  [j \in JobIds |-> Row(answer[c].jobs[j])] \in [JobIds -> Rows]
BY DEF Typed, Answers, Rows

LEMMA ClosedTyped ==
  ASSUME Typed, NEW c \in Conns, Closed(c)
  PROVE  conn' \in [Conns -> ConnStates] /\ request' \in [Conns -> Requests] /\ answer' \in [Conns -> Answers]
<1>1. [kind |-> "list"] \in Requests /\ "closed" \in ConnStates
  BY DEF Requests, ConnStates
<1>2. NoAnswer \in Answers
  BY DEF NoAnswer, Answers, Codes
<1> QED
  BY <1>1, <1>2 DEF Typed, Closed

LEMMA ReceiveStep ==
  ASSUME GatewayInv, NEW c \in Conns, Receive(c), UNCHANGED lifecycleVars
  PROVE  GatewayInv'
<1>1. Typed'
  <2>1. /\ Closed(c) /\ Typed
        /\ view' = [j \in JobIds |-> Row(answer[c].jobs[j])] \/ view' = view
        /\ UNCHANGED <<calling, server, status>>
    BY DEF GatewayInv, Receive, lifecycleVars
  <2>2. view' \in [JobIds -> Rows]
    BY <2>1, NewRows DEF Typed
  <2>3. conn' \in [Conns -> ConnStates] /\ request' \in [Conns -> Requests] /\ answer' \in [Conns -> Answers]
    BY <2>1, ClosedTyped
  <2> QED
    BY <2>1, <2>2, <2>3 DEF Typed
<1>2. Ops(c) = {} /\ ~Holds(backlog, c) /\ c \notin calling
  BY Idle DEF Receive
<1>3. \A d : Ops(d)' = Ops(d)
  BY QueueSame DEF Receive, ioVars
<1>4. Moves(c, "closed", {}, FALSE)
  BY <1>2, <1>3 DEF Moves, OthersStay, Receive, Closed, GatewayInv, Typed, ioVars
<1>5. \A d \in Conns : PlaceOK(d)'
  BY <1>4, MovesKeep DEF GatewayInv
<1>6. OneAccept'
  BY <1>3, <1>4, AcceptStands DEF GatewayInv, Moves, Receive, ioVars
<1> QED
  BY <1>1, <1>5, <1>6 DEF GatewayInv, QueuesInv, OneCall, Receive, ioVars

-----------------------------------------------------------------------------
(* The io thread.                                                          *)
LEMMA Running ==
  ASSUME GatewayInv, NEW kind \in Kinds, NEW c \in Conns, IoRuns(kind, c)
  PROVE  /\ Ops(c) = {kind} /\ completed # <<>> /\ Head(completed) = <<kind, c>>
         /\ ~Holds(backlog, c) /\ calling = {}
<1>1. QueuesInv /\ completed # <<>> /\ Head(completed) = <<kind, c>> /\ calling = {}
  BY DEF GatewayInv, IoRuns
<1>2. Holds(completed, <<kind, c>>)
  BY <1>1, Removed, SeparateIsUnrepeated DEF QueuesInv
<1>3. kind \in Ops(c) /\ PlaceOK(c)
  BY <1>2 DEF Ops, GatewayInv
<1> QED
  BY <1>1, <1>3 DEF PlaceOK, Kinds

LEMMA AcceptStep ==
  ASSUME GatewayInv, NEW c \in Conns, RunAccept(c), UNCHANGED lifecycleVars
  PROVE  GatewayInv'
<1>1. Typed'
  BY DEF GatewayInv, Typed, RunAccept, ConnStates, lifecycleVars
<1>2. /\ Ops(c) = {"accept"} /\ completed # <<>> /\ Head(completed) = <<"accept", c>>
      /\ ~Holds(backlog, c) /\ calling = {} /\ QueuesInv /\ "accept" \in Kinds /\ "read" \in Kinds
  BY Running DEF RunAccept, Kinds, GatewayInv
<1>3. CASE /\ completed' = Tail(completed)
           /\ conn' = [conn EXCEPT ![c] = IF @ = "reset" THEN "closed" ELSE "reading"]
  <2>1. /\ completed' \in Seq(Operations) /\ Separate(completed')
        /\ Ops(c)' = {} /\ \A d \in Conns \ {c} : Ops(d)' = Ops(d)
    BY <1>2, <1>3, OpsRemoved
  <2>2. PICK place \in {"closed", "reading"} : conn'[c] = place
    BY <1>3 DEF GatewayInv, Typed
  <2>3. Moves(c, place, {}, FALSE)
    BY <1>2, <1>3, <2>1, <2>2 DEF Moves, OthersStay, RunAccept, GatewayInv, Typed
  <2>4. \A d \in Conns : PlaceOK(d)'
    BY <2>3, MovesKeep DEF GatewayInv
  <2>5. OneAccept'
    BY <1>2, <2>1, <2>3, AcceptFreed DEF GatewayInv, Moves, RunAccept
  <2> QED
    BY <1>1, <2>1, <2>4, <2>5 DEF GatewayInv, QueuesInv, OneCall, RunAccept
<1>4. CASE /\ conn[c] = "reset"
           /\ completed' = Append(Tail(completed), <<"read", c>>)
           /\ UNCHANGED conn
  <2>1. /\ completed' \in Seq(Operations) /\ Separate(completed')
        /\ Ops(c)' = {"read"} /\ \A d \in Conns \ {c} : Ops(d)' = Ops(d)
    BY <1>2, <1>4, OpsReplaced
  <2>2. Moves(c, "reset", {"read"}, FALSE)
    BY <1>2, <1>4, <2>1 DEF Moves, OthersStay, RunAccept
  <2>3. \A d \in Conns : PlaceOK(d)'
    BY <2>2, MovesKeep DEF GatewayInv
  <2>4. OneAccept'
    BY <1>2, <2>1, <2>2, AcceptFreed DEF GatewayInv, Moves, RunAccept
  <2> QED
    BY <1>1, <2>1, <2>3, <2>4 DEF GatewayInv, QueuesInv, OneCall, RunAccept
<1> QED
  BY <1>3, <1>4 DEF RunAccept

(* A read that leaves the queue empty-handed, answers or starts a call.    *)
LEMMA ReadStep ==
  ASSUME GatewayInv, NEW c \in Conns, RunRead(c), UNCHANGED lifecycleVars
  PROVE  GatewayInv'
<1>1. /\ Ops(c) = {"read"} /\ completed # <<>> /\ Head(completed) = <<"read", c>>
      /\ ~Holds(backlog, c) /\ calling = {} /\ QueuesInv /\ "write" \in Kinds /\ "read" \in Kinds
  BY Running DEF RunRead, Kinds, GatewayInv
<1>2. UNCHANGED <<backlog, accepting, server, view, status>> /\ Typed
  BY DEF RunRead, lifecycleVars, GatewayInv
<1>3. ASSUME completed' = Tail(completed)
      PROVE  /\ completed' \in Seq(Operations) /\ Separate(completed')
             /\ Ops(c)' = {} /\ \A d \in Conns \ {c} : Ops(d)' = Ops(d)
  BY <1>1, <1>3, OpsRemoved
<1>4. CASE RunFailedRead(c) /\ conn[c] = "reset"
  <2>1. /\ completed' \in Seq(Operations) /\ Separate(completed')
        /\ Ops(c)' = {"write"} /\ \A d \in Conns \ {c} : Ops(d)' = Ops(d)
    <3>1. completed' = Append(Tail(completed), <<"write", c>>)
      BY <1>4 DEF RunFailedRead
    <3> QED
      BY <1>1, <3>1, OpsReplaced
  <2>2. Typed'
    BY <1>2, <1>4 DEF Typed, RunFailedRead
  <2>3. Moves(c, "reset", {"write"}, FALSE)
    BY <1>1, <1>2, <1>4, <2>1 DEF Moves, OthersStay, RunFailedRead, Typed
  <2>4. \A d \in Conns : PlaceOK(d)'
    BY <2>3, MovesKeep DEF GatewayInv
  <2>5. OneAccept'
    BY <1>1, <1>2, <2>1, <2>3, AcceptStands DEF GatewayInv, Moves
  <2> QED
    BY <1>2, <1>4, <2>1, <2>2, <2>4, <2>5 DEF GatewayInv, QueuesInv, OneCall, RunFailedRead
<1>5. CASE \/ RunFailedRead(c) /\ conn[c] # "reset"
           \/ RunUpgrade(c)
           \/ RunRequest(c) /\ calling' = calling /\ conn' = [conn EXCEPT ![c] = "writing"]
  <2>1. completed' = Tail(completed) /\ calling' = calling
    BY <1>5 DEF RunFailedRead, RunUpgrade, RunRequest
  <2>2. PICK place \in {"closed", "writing"} :
          conn'[c] = place /\ conn' = [conn EXCEPT ![c] = place]
    BY <1>2, <1>5 DEF RunFailedRead, RunUpgrade, RunRequest, Closed, Typed
  <2>3. Typed'
    <3>1. CASE RunUpgrade(c)
      <4>1. Closed(c)
        BY <3>1 DEF RunUpgrade
      <4> QED
        BY <1>2, <2>1, <4>1, ClosedTyped DEF Typed
    <3>2. CASE UNCHANGED <<request, answer>>
      BY <1>2, <2>1, <2>2, <3>2 DEF Typed, ConnStates
    <3> QED
      BY <1>5, <3>1, <3>2 DEF RunFailedRead, RunRequest
  <2>4. Moves(c, place, {}, FALSE)
    BY <1>1, <1>2, <1>3, <2>1, <2>2 DEF Moves, OthersStay, Typed
  <2>5. \A d \in Conns : PlaceOK(d)'
    BY <2>4, MovesKeep DEF GatewayInv
  <2>6. OneAccept'
    BY <1>1, <1>2, <1>3, <2>1, <2>4, AcceptStands DEF GatewayInv, Moves
  <2> QED
    BY <1>2, <1>3, <2>1, <2>3, <2>5, <2>6 DEF GatewayInv, QueuesInv, OneCall
<1>6. CASE RunRequest(c) /\ calling' = {c} /\ UNCHANGED conn
  <2>1. completed' = Tail(completed) /\ calling' = {c} /\ conn[c] = "sent"
        /\ UNCHANGED <<conn, request, answer>>
    BY <1>6 DEF RunRequest
  <2>2. Typed' /\ OneCall'
    BY <1>2, <2>1 DEF Typed, OneCall
  <2>3. OthersStay(c)
    BY <1>1, <1>2, <1>3, <2>1 DEF OthersStay
  <2>4. PlaceOK(c)'
    BY <1>1, <1>2, <1>3, <2>1 DEF PlaceOK
  <2>5. \A d \in Conns : PlaceOK(d)'
    BY <2>3, <2>4, OthersKeepPlace DEF GatewayInv
  <2>6. OneAccept'
    BY <1>1, <1>2, <1>3, <2>1, <2>3, AcceptStands DEF GatewayInv
  <2> QED
    BY <1>2, <1>3, <2>1, <2>2, <2>5, <2>6 DEF GatewayInv, QueuesInv
<1> QED
  BY <1>4, <1>5, <1>6 DEF RunRead, RunRequest

(* Only the state of the server changes.                                   *)
LEMMA ServerStep ==
  ASSUME GatewayInv, server' \in {"running", "stopping", "stopped", "crashed"},
         UNCHANGED <<conn, request, answer, ioVars, calling, view, status>>
  PROVE  GatewayInv'
<1>1. \A d : Ops(d)' = Ops(d)
  BY QueueSame DEF ioVars
<1>2. Typed' /\ QueuesInv' /\ OneCall'
  BY DEF GatewayInv, Typed, QueuesInv, OneCall, ioVars
<1>3. OneAccept'
  BY <1>1 DEF GatewayInv, OneAccept, ioVars
<1>4. \A d \in Conns : PlaceOK(d)'
  BY <1>1 DEF GatewayInv, PlaceOK, ioVars
<1> QED
  BY <1>2, <1>3, <1>4 DEF GatewayInv

-----------------------------------------------------------------------------
(* The master answers.                                                     *)
LEMMA StatusTyped ==
  ASSUME status \in [JobIds -> Statuses], Next
  PROVE  status' \in [JobIds -> Statuses]
BY DEF Statuses, Next, LoseAll, Submit, Assign, NodeReports, Cancel, Move

LEMMA CodeTyped ==
  ASSUME NEW s \in Statuses
  PROVE  Code(s) \in Codes
BY DEF Statuses, Code, Codes

(* What the gateway asks of the master is a step of the lifecycle.         *)
LEMMA CallsFollowLifecycle ==
  ASSUME Typed, NEW c \in Conns, MasterAnswers(c)
  PROVE  Next \/ UNCHANGED lifecycleVars
<1>1. request[c] \in Requests
  BY DEF Typed
<1>2. CASE request[c].kind \in {"submit", "cancel"}
  <2>1. request[c].job \in JobIds
    BY <1>1, <1>2 DEF Requests
  <2> QED
    BY <2>1 DEF MasterAnswers, list_jobs, submit_job, cancel_job, other_call, CallFails, Next
<1>3. CASE request[c].kind \notin {"submit", "cancel"}
  BY <1>3 DEF MasterAnswers, list_jobs, submit_job, cancel_job, other_call, CallFails
<1> QED
  BY <1>2, <1>3

LEMMA MasterStep ==
  ASSUME GatewayInv, NEW c \in Conns, MasterAnswers(c)
  PROVE  GatewayInv'
<1>1. c \in calling /\ Typed /\ OneCall /\ QueuesInv /\ PlaceOK(c)
  BY DEF MasterAnswers, GatewayInv
<1>2. PICK ans \in Answers : Write(c, ans)
  <2>1. NoAnswer \in Answers /\ \A ok \in BOOLEAN : [NoAnswer EXCEPT !.ok = ok] \in Answers
    BY DEF NoAnswer, Answers, Codes
  <2>2. [ok |-> TRUE, jobs |-> [j \in JobIds |-> Code(status[j])]] \in Answers
    BY <1>1, CodeTyped DEF Typed, Answers
  <2> QED
    BY <2>1, <2>2 DEF MasterAnswers, list_jobs, submit_job, cancel_job, other_call, CallFails, Answered
<1>3. /\ calling' = {} /\ conn' = [conn EXCEPT ![c] = "writing"]
      /\ answer' = [answer EXCEPT ![c] = ans]
      /\ UNCHANGED <<request, backlog, accepting, completed, server, view>>
  BY <1>2 DEF Write, ioVars
<1>4. status' \in [JobIds -> Statuses]
  BY <1>1, CallsFollowLifecycle, StatusTyped DEF Typed, lifecycleVars
<1>5. Typed' /\ OneCall'
  BY <1>1, <1>3, <1>4 DEF Typed, OneCall, ConnStates
<1>6. conn[c] = "sent" /\ Ops(c) = {} /\ ~Holds(backlog, c)
  BY <1>1 DEF PlaceOK
<1>7. \A d : Ops(d)' = Ops(d)
  BY <1>3, QueueSame
<1>8. Moves(c, "writing", {}, FALSE)
  BY <1>1, <1>3, <1>6, <1>7 DEF Moves, OthersStay, Typed, OneCall
<1>9. \A d \in Conns : PlaceOK(d)'
  BY <1>8, MovesKeep DEF GatewayInv
<1>10. OneAccept'
  BY <1>3, <1>7, <1>8, AcceptStands DEF GatewayInv, Moves
<1> QED
  BY <1>1, <1>3, <1>5, <1>9, <1>10 DEF GatewayInv, QueuesInv

LEMMA LifecycleStep ==
  ASSUME GatewayInv, Next \/ UNCHANGED lifecycleVars, UNCHANGED gatewayVars
  PROVE  GatewayInv'
<1>1. UNCHANGED <<conn, request, answer, backlog, accepting, completed, calling, server, view>>
  BY DEF gatewayVars, ioVars
<1>2. status' \in [JobIds -> Statuses]
  BY StatusTyped DEF GatewayInv, Typed, lifecycleVars
<1>3. \A d : Ops(d)' = Ops(d)
  BY <1>1, QueueSame
<1>4. Typed' /\ QueuesInv' /\ OneCall'
  BY <1>1, <1>2 DEF GatewayInv, Typed, QueuesInv, OneCall
<1>5. OneAccept'
  BY <1>1, <1>3 DEF GatewayInv, OneAccept
<1>6. \A d \in Conns : PlaceOK(d)'
  BY <1>1, <1>3 DEF GatewayInv, PlaceOK
<1> QED
  BY <1>4, <1>5, <1>6 DEF GatewayInv

-----------------------------------------------------------------------------
LEMMA InitPlaces ==
  GatewayInit => GatewayInv
<1> SUFFICES ASSUME GatewayInit PROVE GatewayInv
  OBVIOUS
<1>1. NoAnswer \in Answers /\ Row("absent") \in Rows /\ [kind |-> "list"] \in Requests
  BY DEF NoAnswer, Answers, Codes, Rows, Requests
<1>2. Typed
  BY <1>1 DEF GatewayInit, Init, Typed, Statuses, ConnStates, NoRows
<1>3. completed = <<>> /\ backlog = <<>> /\ \A e : ~Holds(completed, e) /\ ~Holds(backlog, e)
  BY DEF GatewayInit, Holds
<1>4. QueuesInv
  BY <1>3 DEF QueuesInv, Separate, Unrepeated
<1>5. OneAccept /\ OneCall
  BY <1>3 DEF OneAccept, OneCall, Ops, GatewayInit
<1>6. \A c \in Conns : PlaceOK(c)
  BY <1>3 DEF PlaceOK, Ops, GatewayInit
<1> QED
  BY <1>2, <1>4, <1>5, <1>6 DEF GatewayInv

LEMMA ConnectSteps ==
  ASSUME GatewayInv, NEW c \in Conns, UNCHANGED lifecycleVars,
         Poll(c) \/ OtherRequest(c) \/ \E j \in JobIds : ClickCancel(c, j)
  PROVE  GatewayInv'
<1>1. PICK req \in Requests : Connect(c, req)
  BY DEF Poll, OtherRequest, ClickCancel, Requests
<1> QED
  BY <1>1, ConnectStep

LEMMA NextKeepsPlaces ==
  ASSUME GatewayInv, [GatewayNext]_allVars
  PROVE  GatewayInv'
<1>1. ASSUME NEW c \in Conns, UNCHANGED lifecycleVars, PageStep(c) \/ OtherStep(c)
      PROVE  GatewayInv'
  BY <1>1, ConnectSteps, SendStep, ReceiveStep, ResetStep DEF PageStep, OtherStep
<1>2. CASE UNCHANGED lifecycleVars /\ KernelAccepts
  BY <1>2, KernelStep
<1>3. ASSUME NEW c \in Conns, UNCHANGED lifecycleVars, RunAccept(c) PROVE GatewayInv'
  BY <1>3, AcceptStep
<1>4. ASSUME NEW c \in Conns, UNCHANGED lifecycleVars, RunRead(c) PROVE GatewayInv'
  BY <1>4, ReadStep
<1>5. CASE UNCHANGED lifecycleVars /\ \E c \in Conns : RunWrite(c) \/ LookupThrows(c)
  BY <1>5, ServerStep DEF RunWrite, LookupThrows, lifecycleVars
<1>6. CASE UNCHANGED lifecycleVars /\ (Stop \/ Joined)
  BY <1>6, ServerStep DEF Stop, Joined, lifecycleVars
<1>7. ASSUME NEW c \in Conns, MasterAnswers(c) PROVE GatewayInv'
  BY <1>7, MasterStep
<1>8. CASE (Next \/ UNCHANGED lifecycleVars) /\ UNCHANGED gatewayVars
  BY <1>8, LifecycleStep
<1> QED
  BY <1>1, <1>2, <1>3, <1>4, <1>5, <1>6, <1>7, <1>8 DEF GatewayNext, IoThread, Conns, allVars

(* In every state of the gateway the types hold, the queues repeat         *)
(* nothing, one accept is under way and at most one handler is in a call,  *)
(* and each connection is where the queues and the handler have it.        *)
THEOREM GatewayInvariant == GatewaySpec => []GatewayInv
<1>1. GatewayInit => GatewayInv
  BY InitPlaces
<1>2. GatewayInv /\ [GatewayNext]_allVars => GatewayInv'
  BY NextKeepsPlaces
<1> QED
  BY <1>1, <1>2, PTL DEF GatewaySpec

LEMMA PlacesImplyTypes ==
  GatewayInv => GatewayTypeOK
<1> SUFFICES ASSUME GatewayInv PROVE GatewayTypeOK
  OBVIOUS
<1>1. completed \in Seq(Kinds \X Conns) /\ Separate(completed) /\ Typed
  BY DEF GatewayInv, QueuesInv, Operations
<1>2. \A i \in DOMAIN completed :
        /\ completed[i] = <<completed[i][1], completed[i][2]>>
        /\ completed[i][1] \in Kinds /\ completed[i][2] \in Conns
  BY <1>1
<1>3. accepting <=> \A i \in DOMAIN completed : completed[i][1] # "accept"
  <2>1. "accept" \in Kinds
    BY DEF Kinds
  <2>2. (\E c \in Conns : "accept" \in Ops(c)) <=> \E i \in DOMAIN completed : completed[i][1] = "accept"
    BY <1>2, <2>1 DEF Ops, Holds
  <2>3. accepting <=> \A c \in Conns : "accept" \notin Ops(c)
    BY DEF GatewayInv, OneAccept
  <2> QED
    BY <2>2, <2>3
<1>4. ASSUME NEW c \in Conns
      PROVE  conn[c] = "sent" <=> c \in calling \/
               \E i \in DOMAIN completed : completed[i] = <<"read", c>> /\ conn[c] # "reset"
  <2>1. PlaceOK(c)
    BY DEF GatewayInv
  <2>2. "read" \in Ops(c) <=> \E i \in DOMAIN completed : completed[i] = <<"read", c>>
    BY DEF Ops, Holds, Kinds
  <2> QED
    BY <2>1, <2>2 DEF PlaceOK
<1>5. calling \subseteq {c \in Conns : conn[c] = "sent"}
  BY <1>1 DEF GatewayInv, PlaceOK, Typed
<1> QED
  BY <1>1, <1>3, <1>4, <1>5 DEF GatewayTypeOK, Typed, Separate, ConnStates, Answers

(* For any number of pages, clients and jobs: the types hold, exactly one  *)
(* accept is under way, queued or being handled, and a connection never    *)
(* has two operations, or an operation beside the handler it is served by, *)
(* whatever resets, stops and failed calls come between.                   *)
THEOREM GatewayTyped == GatewaySpec => []GatewayTypeOK
BY GatewayInvariant, PlacesImplyTypes, PTL

(* Jobs move through the gateway only as the lifecycle allows: a submit of *)
(* a job the master knows, a cancel of a job that has ended, a failed call *)
(* and everything the page shows of stale rows change no job.              *)
THEOREM GatewayFollowsLifecycle == GatewaySpec => Spec
<1>1. GatewayInit => Init
  BY DEF GatewayInit
<1>2. GatewayInv /\ [GatewayNext]_allVars => [Next]_lifecycleVars
  <2> SUFFICES ASSUME GatewayInv, [GatewayNext]_allVars PROVE [Next]_lifecycleVars
    OBVIOUS
  <2>1. ASSUME NEW c \in Conns, MasterAnswers(c) PROVE [Next]_lifecycleVars
    BY <2>1, CallsFollowLifecycle DEF GatewayInv
  <2> QED
    BY <2>1 DEF GatewayNext, allVars
<1> QED
  BY <1>1, <1>2, GatewayInvariant, PTL DEF GatewaySpec, Spec
=============================================================================
