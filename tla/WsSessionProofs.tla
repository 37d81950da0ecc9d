--------------------------- MODULE WsSessionProofs ---------------------------
(***************************************************************************)
(* Proofs about WsSession for every set of connections, every assignment   *)
(* of shards and sessions, and every channel capacity.                     *)
(***************************************************************************)
EXTENDS WsSession, TLAPS

-----------------------------------------------------------------------------
(* Queues.                                                                 *)

(* What is taken from a queue of messages and what it leaves.              *)
LEMMA TakeInSeq ==
  ASSUME NEW S, NEW s \in Seq(S), s # <<>>
  PROVE  Head(s) \in S /\ Tail(s) \in Seq(S)
OBVIOUS

(* A message sent on a queue of messages.                                  *)
LEMMA AppendInSeq ==
  ASSUME NEW S, NEW s \in Seq(S), NEW e \in S
  PROVE  /\ Append(s, e) \in Seq(S)
         /\ s # <<>> => Append(s, e) # <<>> /\ Head(Append(s, e)) = Head(s)
OBVIOUS

(* The short sequences of messages that the router sends at once ...       *)
LEMMA BatchInSeq ==
  ASSUME NEW S, NEW e \in S, NEW f \in S
  PROVE  <<e>> \in Seq(S) /\ <<e, f>> \in Seq(S)
OBVIOUS

(* ... behind what it has sent before.                                     *)
LEMMA ConcatInSeq ==
  ASSUME NEW S, NEW s \in Seq(S), NEW t \in Seq(S)
  PROVE  /\ s \o t \in Seq(S)
         /\ s # <<>> => s \o t # <<>> /\ Head(s \o t) = Head(s)
OBVIOUS

-----------------------------------------------------------------------------
(* Type correctness.                                                       *)

(* The initial state of the server is well typed.                          *)
LEMMA TypeInit == Init => TypeOK
<1> SUFFICES ASSUME Init PROVE TypeOK
  OBVIOUS
<1>1. TypeOK!1 /\ TypeOK!2 /\ TypeOK!3 /\ TypeOK!4 /\ TypeOK!5 /\ TypeOK!6
  BY DEF Init, ConnStates, TimerStates, NoConn
<1>2. TypeOK!7 /\ TypeOK!8 /\ TypeOK!9 /\ TypeOK!10 /\ TypeOK!11 /\ TypeOK!12
  BY DEF Init
<1>3. TypeOK!13
  BY DEF Init
<1>4. TypeOK!15
  BY DEF Init
<1>5. TypeOK!14
  BY DEF Init
<1>6. TypeOK!16 /\ TypeOK!17 /\ TypeOK!19
  BY DEF Init, NoConn
<1>7. TypeOK!18
  BY DEF Init
<1> QED BY <1>1, <1>2, <1>3, <1>6, <1>7, <1>5, <1>4 DEF TypeOK

(* Steps of ClientSocket, connect_user and send_comm_msg keep the types.   *)
LEMMA TypeConn ==
  ASSUME TypeOK, NEW w \in Conns, ConnStep(w)
  PROVE  TypeOK'
<1>1. up \in Seq(Up) /\ chan[w] \in Seq(Item)
  BY DEF TypeOK
<1>2. ASSUME SetupTake(w) PROVE chan' \in [Conns -> Seq(Item)]
  <2>1. Tail(chan[w]) \in Seq(Item)
    BY <1>1, <1>2, TakeInSeq DEF SetupTake
  <2> QED BY <1>2, <2>1 DEF SetupTake, TypeOK
<1>3. CASE AuthOk(w)
  BY <1>3 DEF AuthOk, TypeOK, ConnStates, NoConn
<1>4. CASE AuthFail(w)
  BY <1>4 DEF AuthFail, TypeOK, ConnStates
<1>5. CASE Register(w)
  <2>1. /\ ToRouter("add", w, None, TRUE) \in Up
        /\ prev[w] # None => ToRouter("recover", w, prev[w], TRUE) \in Up
    BY DEF ToRouter, Up, TypeOK, NoConn
  <2>2. up' \in Seq(Up)
    BY <1>1, <1>5, <2>1, AppendInSeq DEF Register
  <2> QED BY <1>5, <2>2 DEF Register, TypeOK, ConnStates
<1>6. CASE AwaitReply(w)
  BY <1>6, <1>2 DEF AwaitReply, SetupGo, TypeOK, ConnStates
<1>7. CASE AwaitState(w)
  BY <1>7, <1>2 DEF AwaitState, SetupGo, TypeOK, ConnStates
<1>8. CASE Start(w)
  BY <1>8 DEF Start, TypeOK, ConnStates
<1>9. CASE Hello(w)
  BY <1>9 DEF Hello, TypeOK, ConnStates
<1>10. CASE EndByTimer(w)
  BY <1>10 DEF EndByTimer, TypeOK, ConnStates, Commands
<1>11. CASE EndByRemoval(w)
  BY <1>11 DEF EndByRemoval, TypeOK, ConnStates
<1>12. CASE SendComm(w)
  <2>1. CASE closed[w]
    BY <1>12, <2>1 DEF SendComm, TypeOK, NoConn
  <2>2. CASE ~closed[w]
    <3>1. ItemOf(conn[w]) \in Item
      BY <1>12 DEF SendComm, ItemOf, Item, Commands, NoConn
    <3>2. Append(chan[w], ItemOf(conn[w])) \in Seq(Item)
      BY <1>1, <3>1, AppendInSeq
    <3>3. chan' \in [Conns -> Seq(Item)]
      BY <1>12, <2>2, <3>2 DEF SendComm, TypeOK
    <3> QED BY <1>12, <2>2, <3>3 DEF SendComm, TypeOK, ConnStates
  <2> QED BY <2>1, <2>2
<1>13. CASE ConnDelete(w)
  BY <1>13 DEF ConnDelete, DeleteConnection, AfterDelete, TypeOK, ConnStates
<1>14. CASE ConnClose(w)
  BY <1>14 DEF ConnClose, CloseChannel, TypeOK, ConnStates
<1>15. CASE ConnUnregister(w)
  <2>1. ToRouter("remove", w, None, TRUE) \in Up
    BY DEF ToRouter, Up
  <2>2. up' \in Seq(Up)
    BY <1>1, <1>15, <2>1, AppendInSeq DEF ConnUnregister, Unregister
  <2> QED BY <1>15, <2>2 DEF ConnUnregister, TypeOK, ConnStates
<1> QED
  BY <1>3, <1>4, <1>5, <1>6, <1>7, <1>8, <1>9, <1>10, <1>11, <1>12, <1>13, <1>14,
     <1>15 DEF ConnStep

(* Steps of the removal timer keep the types.                              *)
LEMMA TypeTimer ==
  ASSUME TypeOK, NEW w \in Conns, TimerStep(w)
  PROVE  TypeOK'
<1>1. CASE TimerFire(w)
  BY <1>1 DEF TimerFire, TypeOK, TimerStates
<1>2. CASE TimerDelete(w)
  BY <1>2 DEF TimerDelete, DeleteConnection, AfterDelete, TypeOK, TimerStates
<1>3. CASE TimerClose(w)
  BY <1>3 DEF TimerClose, CloseChannel, TypeOK, TimerStates
<1>4. CASE TimerUnregister(w)
  <2>1. ToRouter("remove", w, None, TRUE) \in Up /\ up \in Seq(Up)
    BY DEF ToRouter, Up, TypeOK
  <2>2. up' \in Seq(Up)
    BY <1>4, <2>1, AppendInSeq DEF TimerUnregister, Unregister
  <2> QED BY <1>4, <2>2 DEF TimerUnregister, TypeOK, TimerStates
<1> QED BY <1>1, <1>2, <1>3, <1>4 DEF TimerStep

(* Steps of msg_chan_recv keep the types.                                  *)
LEMMA TypeRecv ==
  ASSUME TypeOK, NEW w \in Conns, RecvStep(w)
  PROVE  TypeOK'
<1>1. chan[w] \in Seq(Item) /\ up \in Seq(Up)
  BY DEF TypeOK
<1>2. ASSUME NEW op, RecvTake(w, op)
      PROVE  Head(chan[w]) \in Item /\ chan' \in [Conns -> Seq(Item)]
  <2>1. Head(chan[w]) \in Item /\ Tail(chan[w]) \in Seq(Item)
    BY <1>1, <1>2, TakeInSeq DEF RecvTake
  <2> QED BY <1>2, <2>1 DEF RecvTake, TypeOK
<1>3. CASE RecvFlush(w)
  BY <1>3, <1>2 DEF RecvFlush, TypeOK, NoConn
<1>4. CASE RecvSetTimer(w)
  BY <1>4, <1>2 DEF RecvSetTimer, TypeOK, TimerStates
<1>5. CASE RecvGiveState(w)
  <2>1. Head(chan[w]) \in Item
    BY <1>5, <1>2 DEF RecvGiveState
  <2>2. ToRouter("state", w, Head(chan[w]).who, TRUE) \in Up
    BY <2>1 DEF ToRouter, Up, Item, NoConn
  <2>3. up' \in Seq(Up)
    BY <1>1, <1>5, <2>2, AppendInSeq DEF RecvGiveState
  <2> QED BY <1>5, <1>2, <2>3 DEF RecvGiveState, TypeOK
<1>10. CASE RecvClose(w)
  BY <1>10 DEF RecvClose, TypeOK
<1>6. CASE RecvReplaced(w)
  BY <1>6, <1>2 DEF RecvReplaced, TypeOK
<1>7. CASE RecvPayload(w)
  BY <1>7, <1>2 DEF RecvPayload, TypeOK, NoConn
<1>8. CASE RecvIgnored(w)
  BY <1>8, <1>2 DEF RecvIgnored, TypeOK
<1>9. CASE RecvClosed(w)
  BY <1>9 DEF RecvClosed, TypeOK
<1> QED BY <1>3, <1>4, <1>5, <1>6, <1>7, <1>8, <1>9, <1>10 DEF RecvStep

(* Steps of socket_op keep the types.                                      *)
LEMMA TypeReader ==
  ASSUME TypeOK, ReaderStep
  PROVE  TypeOK'
<1>1. ASSUME down # <<>>
      PROVE  Head(down) \in Down /\ Tail(down) \in Seq(Down)
  BY <1>1, TakeInSeq DEF TypeOK
<1>2. CASE ReaderLock
  BY <1>2 DEF ReaderLock, TypeOK
<1>3. CASE ReaderSend
  <2>1. Head(down) \in Down /\ Tail(down) \in Seq(Down)
    BY <1>3, <1>1 DEF ReaderSend, TypeOK
  <2>2. /\ Head(down).to \in Conns
        /\ Head(down).m \in Item
        /\ chan[Head(down).to] \in Seq(Item)
    BY <2>1 DEF Down, Item, TypeOK
  <2>3. Append(chan[Head(down).to], Head(down).m) \in Seq(Item)
    BY <2>2, AppendInSeq
  <2>4. chan' \in [Conns -> Seq(Item)]
    BY <1>3, <2>2, <2>3 DEF ReaderSend, TypeOK
  <2> QED BY <1>3, <2>1, <2>4 DEF ReaderSend, TypeOK
<1>4. CASE ReaderDrop
  <2>1. ToRouter("state", None, None, FALSE) \in Up /\ up \in Seq(Up)
    BY DEF ToRouter, Up, NoConn, TypeOK
  <2>2. up' \in Seq(Up)
    BY <1>4, <2>1, AppendInSeq DEF ReaderDrop
  <2> QED BY <1>4, <1>1, <2>2 DEF ReaderDrop, TypeOK
<1> QED BY <1>2, <1>3, <1>4 DEF ReaderStep

(* The answers of the router are addressed to connections.                 *)
LEMMA RouterBatch ==
  ASSUME TypeOK, NEW c \in NoConn, NEW w \in Conns, NEW op \in RouterOps,
         NEW ok \in BOOLEAN, NEW who \in NoConn
  PROVE  Replace(c) \in Seq(Down) /\ To(w, op, ok, who) \in Down
<1>1. CASE c = None
  <2>1. Replace(c) \in Seq(Down)
    BY <1>1 DEF Replace
  <2> QED BY <2>1 DEF To, Down
<1>2. CASE c # None
  <2>1. To(c, "replaced", TRUE, None) \in Down
    BY <1>2 DEF To, Down, RouterOps, NoConn
  <2>2. Replace(c) \in Seq(Down)
    BY <1>2, <2>1, BatchInSeq DEF Replace
  <2> QED BY <2>2 DEF To, Down
<1> QED BY <1>1, <1>2

(* The head of the router's stream is not overtaken.                       *)
KeepsHead == down # <<>> => down' # <<>> /\ Head(down') = Head(down)

(* Steps of the router keep the types; it sends behind what it has sent.   *)
LEMMA TypeRouter ==
  ASSUME TypeOK, RouterReply \/ \E s \in Sessions : RouterPayload(s)
  PROVE  TypeOK' /\ KeepsHead
<1>1. down \in Seq(Down) /\ up \in Seq(Up) /\ (holding => down # <<>>)
  BY DEF TypeOK
<1>2. ASSUME up # <<>> PROVE Head(up) \in Up /\ Tail(up) \in Seq(Up)
  BY <1>1, <1>2, TakeInSeq
<1>3. CASE RouterAdd
  <2> DEFINE w == Head(up).id
             s == SessionOf[w]
  <2>1. Head(up) \in Up /\ Tail(up) \in Seq(Up) /\ Head(up).op = "add"
    BY <1>2, <1>3 DEF RouterAdd
  <2>2. w \in Conns /\ s \in Sessions
    BY <2>1, ConstantsAssumption DEF Up
  <2>3. current[s] \in NoConn
    BY <2>2 DEF TypeOK
  <2>4. /\ Replace(current[s]) \in Seq(Down)
        /\ To(w, "add", TRUE, None) \in Down
        /\ To(w, "add", FALSE, None) \in Down
    BY <2>2, <2>3, RouterBatch DEF RouterOps, NoConn
  <2>5. Replace(current[s]) \o <<To(w, "add", TRUE, None)>> \in Seq(Down)
    BY <2>4, BatchInSeq, ConcatInSeq
  <2>6. \/ down' = down \o (Replace(current[s]) \o <<To(w, "add", TRUE, None)>>)
        \/ down' = Append(down, To(w, "add", FALSE, None))
    BY <1>1, <1>3, <2>4, BatchInSeq DEF RouterAdd
  <2>7. down' \in Seq(Down) /\ KeepsHead
    <3>1. CASE down' = down \o (Replace(current[s]) \o <<To(w, "add", TRUE, None)>>)
      BY <1>1, <2>5, <3>1, ConcatInSeq DEF KeepsHead
    <3>2. CASE down' = Append(down, To(w, "add", FALSE, None))
      BY <1>1, <2>4, <3>2, AppendInSeq DEF KeepsHead
    <3> QED BY <2>6, <3>1, <3>2
  <2>8. current' \in [Sessions -> NoConn]
    BY <1>3, <2>2 DEF RouterAdd, TypeOK, NoConn
  <2> QED BY <1>3, <2>1, <2>7, <2>8 DEF RouterAdd, TypeOK, KeepsHead
<1>4. CASE RouterRecover
  <2> DEFINE w == Head(up).id
             p == Head(up).who
             s == SessionOf[w]
  <2>1. Head(up) \in Up /\ Tail(up) \in Seq(Up) /\ Head(up).op = "recover"
    BY <1>2, <1>4 DEF RouterRecover
  <2>2. w \in Conns /\ p \in Conns /\ s \in Sessions
    BY <2>1, ConstantsAssumption DEF Up
  <2>3. current[s] \in NoConn
    BY <2>2 DEF TypeOK
  <2>4. /\ Replace(current[s]) \in Seq(Down)
        /\ To(w, "recover", TRUE, None) \in Down
        /\ To(w, "recover", FALSE, None) \in Down
        /\ To(p, "giveState", TRUE, w) \in Down
    BY <2>2, <2>3, RouterBatch DEF RouterOps, NoConn
  <2>5. /\ <<To(w, "recover", TRUE, None), To(p, "giveState", TRUE, w)>> \in Seq(Down)
        /\ Replace(current[s]) \o <<To(w, "recover", FALSE, None)>> \in Seq(Down)
    BY <2>4, BatchInSeq, ConcatInSeq
  <2>6. down' \in Seq(Down) /\ KeepsHead
    BY <1>1, <1>4, <2>5, ConcatInSeq DEF RouterRecover, KeepsHead
  <2>7. current' \in [Sessions -> NoConn]
    BY <1>4, <2>2 DEF RouterRecover, TypeOK, NoConn
  <2> QED BY <1>4, <2>1, <2>6, <2>7 DEF RouterRecover, TypeOK, KeepsHead
<1>5. CASE RouterRemove
  BY <1>5, <1>2 DEF RouterRemove, TypeOK, NoConn, KeepsHead
<1>6. CASE RouterState
  <2>1. Head(up) \in Up /\ Tail(up) \in Seq(Up) /\ Head(up).op = "state"
    BY <1>2, <1>6 DEF RouterState
  <2>2. Head(up).who # None =>
          To(Head(up).who, "prevState", Head(up).ok, Head(up).id) \in Down
    BY <2>1, RouterBatch DEF RouterOps, Up, NoConn
  <2>3. down' \in Seq(Down) /\ KeepsHead
    BY <1>1, <1>6, <2>2, AppendInSeq DEF RouterState, KeepsHead
  <2> QED BY <1>6, <2>1, <2>3 DEF RouterState, TypeOK, KeepsHead
<1>7. ASSUME NEW s \in Sessions, RouterPayload(s) PROVE TypeOK' /\ KeepsHead
  <2>1. current[s] \in Conns
    BY <1>7 DEF RouterPayload, TypeOK, NoConn
  <2>2. To(current[s], "payload", TRUE, None) \in Down
    BY <2>1, RouterBatch DEF RouterOps, NoConn
  <2>3. down' \in Seq(Down) /\ KeepsHead
    BY <1>1, <1>7, <2>2, AppendInSeq DEF RouterPayload, KeepsHead
  <2>4. sent' \in Nat
    BY <1>7 DEF RouterPayload, TypeOK
  <2> QED BY <1>7, <2>3, <2>4 DEF RouterPayload, TypeOK, KeepsHead
<1> QED BY <1>3, <1>4, <1>5, <1>6, <1>7 DEF RouterReply

(* Every step keeps the types.                                             *)
LEMMA TypeNext == TypeOK /\ [Next]_vars => TypeOK'
<1> SUFFICES ASSUME TypeOK, [Next]_vars PROVE TypeOK'
  OBVIOUS
<1>1. CASE UNCHANGED vars
  BY <1>1 DEF vars, TypeOK
<1>2. ASSUME NEW w \in Conns, ClientStep(w) PROVE TypeOK'
  <2>1. CASE Connect(w)
    BY <2>1 DEF Connect, TypeOK, ConnStates
  <2>2. CASE Leave(w)
    BY <2>2 DEF Leave, TypeOK
  <2>3. ASSUME NEW cmd \in Commands, ReadFrame(w, cmd) PROVE TypeOK'
    <3>1. frames' \in [Conns -> Nat]
      BY <2>3 DEF ReadFrame, TypeOK
    <3> QED BY <2>3, <3>1 DEF ReadFrame, TypeOK, ConnStates
  <2> QED BY <1>2, <2>1, <2>2, <2>3 DEF ClientStep, Commands
<1> QED
  BY <1>1, <1>2, TypeConn, TypeTimer, TypeRecv, TypeReader, TypeRouter DEF Next

(* Every variable keeps its type; in particular only a router operation    *)
(* travels to a WSID, and every op 20, 21 and 22 names a WSID.             *)
THEOREM TypeCorrect == Spec => []TypeOK
<1>1. Init => TypeOK
  BY TypeInit
<1>2. TypeOK /\ [Next]_vars => TypeOK'
  BY TypeNext
<1> QED BY <1>1, <1>2, PTL DEF Spec
-----------------------------------------------------------------------------
(* The life of a session: the inductive invariant behind the theorems      *)
(* below. Each conjunct is about one connection.                           *)

SettingUp == {"await", "awaitState", "start"}
Serving == {"hello", "read"} \cup Commands
Removing == {"delete", "close", "unregister"}

(* The WSID is in the table, on its way out of it, or closed.              *)
Registered(w) == w \in table \/ closed[w] \/ conn[w] = "close" \/ timer[w] = "close"

(* Nothing exists before create_connection.                                *)
Unborn(w) ==
  conn[w] \in {"off", "auth", "register"} =>
    ~Registered(w) /\ recv[w] = "none" /\ w \notin failed

(* A WSID leaves the table before its channel is closed; whoever is going  *)
(* to close the channel finds it open, whoever has done so leaves it       *)
(* closed.                                                                 *)
ClosedOnce(w) ==
  /\ closed[w] \/ conn[w] = "close" \/ timer[w] = "close" => w \notin table
  /\ conn[w] = "close" \/ timer[w] = "close" => ~closed[w]
  /\ conn[w] = "unregister" \/ timer[w] = "unregister" => closed[w]

(* The removal timer belongs to a connection that has ended, the receiver  *)
(* to one that has been set up.                                            *)
Goroutines(w) ==
  /\ timer[w] # "off" => conn[w] = "done" /\ recv[w] # "none"
  /\ recv[w] # "none" => Registered(w)
  /\ conn[w] \in SettingUp \cup Removing => Registered(w)
  /\ conn[w] \in Serving => recv[w] # "none"
  /\ conn[w] \in SettingUp => recv[w] = "none"

(* A connection that is set up or served has an open channel, unless its   *)
(* set-up failed: then the channel is closed.                              *)
Served(w) ==
  /\ w \notin failed /\ conn[w] \in SettingUp \cup Serving => w \in table
  /\ w \notin failed /\ conn[w] \in Removing => recv[w] # "none"
  /\ w \in failed /\ conn[w] \in SettingUp \cup Serving => closed[w] /\ conn[w] \notin {"await", "awaitState"}

(* ClientSocket queues SET_TIMER once, as the last thing it does.          *)
OneSetTimer(w) ==
  \A i \in DOMAIN chan[w] : chan[w][i].op = "SET_TIMER" =>
    /\ conn[w] = "done" /\ timer[w] = "off"
    /\ \A j \in DOMAIN chan[w] : chan[w][j].op = "SET_TIMER" => i = j

Life == \A w \in Conns :
  Unborn(w) /\ ClosedOnce(w) /\ Goroutines(w) /\ Served(w) /\ OneSetTimer(w)

IInv == TypeOK /\ Life /\ ReaderNeverSendsOnClosed /\ NoPanicWhileServing
Control(w) == Unborn(w) /\ ClosedOnce(w) /\ Goroutines(w) /\ Served(w)

(* A step that leaves every connection but w as it is.                     *)
Others(w) ==
  \A v \in Conns \ {w} :
    /\ conn'[v] = conn[v] /\ recv'[v] = recv[v] /\ timer'[v] = timer[v]
    /\ closed'[v] = closed[v] /\ chan'[v] = chan[v]
    /\ v \in table' <=> v \in table
    /\ v \in failed' <=> v \in failed

(* Such a step keeps the invariant of the other connections.               *)
LEMMA LifeFrame ==
  ASSUME Life, NEW w \in Conns, Others(w), Control(w)', OneSetTimer(w)'
  PROVE  Life'
<1> SUFFICES ASSUME NEW v \in Conns PROVE Control(v)' /\ OneSetTimer(v)'
  BY DEF Life, Control
<1>1. CASE v = w
  BY <1>1
<1>2. CASE v # w
  <2>1. Control(v) /\ OneSetTimer(v)
    BY DEF Life, Control
  <2>2. Control(v)'
    BY <1>2, <2>1 DEF Others, Control, Unborn, ClosedOnce, Goroutines, Served, Registered
  <2>3. OneSetTimer(v)'
    BY <1>2, <2>1 DEF Others, OneSetTimer
  <2> QED BY <2>2, <2>3
<1> QED BY <1>1, <1>2

(* What the receiver or connect_user takes from a channel was in it.       *)
LEMMA TakeKeepsSetTimer ==
  ASSUME TypeOK, NEW w \in Conns, OneSetTimer(w), chan[w] # <<>>,
         chan'[w] = Tail(chan[w])
  PROVE  /\ \A i \in DOMAIN chan'[w] : i + 1 \in DOMAIN chan[w] /\ chan'[w][i] = chan[w][i + 1]
         /\ conn'[w] = conn[w] /\ timer'[w] = timer[w] => OneSetTimer(w)'
         /\ conn[w] # "done" => OneSetTimer(w)'
         /\ Head(chan[w]).op = "SET_TIMER" => OneSetTimer(w)'
<1>1. chan[w] \in Seq(Item)
  BY DEF TypeOK
<1>2. \A i \in DOMAIN chan'[w] : i + 1 \in DOMAIN chan[w] /\ chan'[w][i] = chan[w][i + 1]
  BY <1>1
<1>3. DOMAIN chan'[w] \subseteq Nat \ {0} /\ 1 \in DOMAIN chan[w] /\ Head(chan[w]) = chan[w][1]
  BY <1>1
<1>4. \A i, j \in DOMAIN chan'[w] :
        chan'[w][i].op = "SET_TIMER" /\ chan'[w][j].op = "SET_TIMER" => i = j
  BY <1>2, <1>3 DEF OneSetTimer
<1>5. conn'[w] = conn[w] /\ timer'[w] = timer[w] => OneSetTimer(w)'
  BY <1>2, <1>4 DEF OneSetTimer
<1>6. conn[w] # "done" => OneSetTimer(w)'
  BY <1>2 DEF OneSetTimer
<1>7. Head(chan[w]).op = "SET_TIMER" => OneSetTimer(w)'
  <2> SUFFICES ASSUME Head(chan[w]).op = "SET_TIMER", NEW i \in DOMAIN chan'[w]
               PROVE  chan'[w][i].op # "SET_TIMER"
    BY DEF OneSetTimer
  <2>1. i + 1 # 1
    BY <1>3
  <2> QED BY <1>2, <1>3, <2>1 DEF OneSetTimer
<1> QED BY <1>2, <1>5, <1>6, <1>7

(* When the receiver takes SET_TIMER there is no removal timer yet.        *)
LEMMA SetTimerTaken ==
  ASSUME TypeOK, NEW w \in Conns, OneSetTimer(w), RecvSetTimer(w)
  PROVE  conn[w] = "done" /\ timer[w] = "off"
<1>1. chan[w] \in Seq(Item) /\ chan[w] # <<>> /\ Head(chan[w]).op = "SET_TIMER"
  BY DEF RecvSetTimer, RecvTake, TypeOK
<1>2. 1 \in DOMAIN chan[w] /\ chan[w][1].op = "SET_TIMER"
  BY <1>1
<1> QED BY <1>2 DEF OneSetTimer

(* A message that is not SET_TIMER may be put into a channel.              *)
LEMMA PutKeepsSetTimer ==
  ASSUME TypeOK, NEW w \in Conns, OneSetTimer(w), NEW m \in Item,
         chan'[w] = Append(chan[w], m), conn'[w] = conn[w] \/ conn[w] # "done",
         timer'[w] = timer[w], m.op # "SET_TIMER"
  PROVE  OneSetTimer(w)'
<1>1. chan[w] \in Seq(Item)
  BY DEF TypeOK
<1>2. \A i \in DOMAIN chan'[w] :
        chan'[w][i] = m \/ (i \in DOMAIN chan[w] /\ chan'[w][i] = chan[w][i])
  BY <1>1
<1> QED BY <1>2 DEF OneSetTimer

(* Steps of the client and of a connection's goroutines are local to it.   *)
LEMMA LocalStep ==
  ASSUME TypeOK, NEW w \in Conns, ClientStep(w) \/ ConnStep(w) \/ TimerStep(w) \/ RecvStep(w)
  PROVE  Others(w)
<1>1. CASE ClientStep(w)
  BY <1>1 DEF ClientStep, Connect, Leave, ReadFrame, Others, TypeOK
<1>2. CASE ConnStep(w)
  <2>1. CASE AuthOk(w)
    BY <2>1 DEF AuthOk, Others, TypeOK
  <2>2. CASE AuthFail(w)
    BY <2>2 DEF AuthFail, Others, TypeOK
  <2>3. CASE Register(w)
    BY <2>3 DEF Register, Others, TypeOK
  <2>4. CASE AwaitReply(w)
    BY <2>4 DEF AwaitReply, SetupTake, SetupGo, Others, TypeOK
  <2>5. CASE AwaitState(w)
    BY <2>5 DEF AwaitState, SetupTake, SetupGo, Others, TypeOK
  <2>6. CASE Start(w)
    BY <2>6 DEF Start, Others, TypeOK
  <2>7. CASE Hello(w)
    BY <2>7 DEF Hello, Others, TypeOK
  <2>8. CASE EndByTimer(w)
    BY <2>8 DEF EndByTimer, Others, TypeOK
  <2>9. CASE EndByRemoval(w)
    BY <2>9 DEF EndByRemoval, Others, TypeOK
  <2>10. CASE SendComm(w)
    BY <2>10 DEF SendComm, Others, TypeOK
  <2>11. CASE ConnDelete(w)
    BY <2>11 DEF ConnDelete, DeleteConnection, Others, TypeOK
  <2>12. CASE ConnClose(w)
    BY <2>12 DEF ConnClose, CloseChannel, Others, TypeOK
  <2>13. CASE ConnUnregister(w)
    BY <2>13 DEF ConnUnregister, Others, TypeOK
  <2> QED
    BY <1>2, <2>1, <2>2, <2>3, <2>4, <2>5, <2>6, <2>7, <2>8, <2>9, <2>10, <2>11, <2>12, <2>13
       DEF ConnStep
<1>3. CASE TimerStep(w)
  <2>1. CASE TimerFire(w)
    BY <2>1 DEF TimerFire, Others, TypeOK
  <2>2. CASE TimerDelete(w)
    BY <2>2 DEF TimerDelete, DeleteConnection, Others, TypeOK
  <2>3. CASE TimerClose(w)
    BY <2>3 DEF TimerClose, CloseChannel, Others, TypeOK
  <2>4. CASE TimerUnregister(w)
    BY <2>4 DEF TimerUnregister, Others, TypeOK
  <2> QED BY <1>3, <2>1, <2>2, <2>3, <2>4 DEF TimerStep
<1>4. CASE RecvStep(w)
  <2>1. CASE RecvFlush(w)
    BY <2>1 DEF RecvFlush, RecvTake, Others, TypeOK
  <2>2. CASE RecvSetTimer(w)
    BY <2>2 DEF RecvSetTimer, RecvTake, Others, TypeOK
  <2>3. CASE RecvGiveState(w)
    BY <2>3 DEF RecvGiveState, RecvTake, Others, TypeOK
  <2>4. CASE RecvReplaced(w)
    BY <2>4 DEF RecvReplaced, RecvTake, Others, TypeOK
  <2>5. CASE RecvPayload(w)
    BY <2>5 DEF RecvPayload, RecvTake, Others, TypeOK
  <2>6. CASE RecvIgnored(w)
    BY <2>6 DEF RecvIgnored, RecvTake, Others, TypeOK
  <2>7. CASE RecvClosed(w)
    BY <2>7 DEF RecvClosed, Others, TypeOK
  <2>8. CASE RecvClose(w)
    BY <2>8 DEF RecvClose, Others, TypeOK
  <2> QED BY <1>4, <2>1, <2>2, <2>3, <2>4, <2>5, <2>6, <2>7, <2>8 DEF RecvStep
<1> QED BY <1>1, <1>2, <1>3, <1>4

(* Steps of the client keep the invariant.                                 *)
LEMMA LifeClient ==
  ASSUME TypeOK, Life, NEW w \in Conns, ClientStep(w)
  PROVE  Life'
<1>1. Control(w) /\ OneSetTimer(w) /\ Others(w)
  BY LocalStep DEF Life, Control
<1>2. CASE Connect(w)
  <2>1. Control(w)'
    BY <1>1, <1>2 DEF Connect, TypeOK, Control, Unborn, ClosedOnce, Goroutines,
       Served, Registered, SettingUp, Serving, Removing, Commands
  <2>2. OneSetTimer(w)'
    BY <1>1, <1>2 DEF Connect, OneSetTimer
  <2> QED BY <1>1, <2>1, <2>2, LifeFrame
<1>3. CASE Leave(w)
  <2>1. Control(w)' /\ OneSetTimer(w)'
    BY <1>1, <1>3 DEF Leave, Control, Unborn, ClosedOnce, Goroutines,
       Served, Registered, OneSetTimer
  <2> QED BY <1>1, <2>1, LifeFrame
<1>4. ASSUME NEW cmd \in {"FLUSH", "ACK"}, ReadFrame(w, cmd) PROVE Life'
  <2>2. Control(w)'
    BY <1>1, <1>4 DEF ReadFrame, TypeOK, Control, Unborn, ClosedOnce, Goroutines,
       Served, Registered, SettingUp, Serving, Removing, Commands
  <2>3. OneSetTimer(w)'
    BY <1>1, <1>4 DEF ReadFrame, OneSetTimer
  <2> QED BY <1>1, <2>2, <2>3, LifeFrame
<1> QED BY <1>2, <1>3, <1>4 DEF ClientStep

(* Steps of ClientSocket, connect_user and send_comm_msg keep it.          *)
LEMMA LifeConn ==
  ASSUME TypeOK, Life, NEW w \in Conns, ConnStep(w)
  PROVE  Life'
<1>1. Control(w) /\ OneSetTimer(w) /\ Others(w)
  BY LocalStep DEF Life, Control
<1>2. CASE AuthOk(w)
  <2>2. Control(w)'
    BY <1>1, <1>2 DEF AuthOk, TypeOK, Control, Unborn, ClosedOnce, Goroutines, Served,
       Registered, SettingUp, Serving, Removing, Commands
  <2>3. OneSetTimer(w)'
    BY <1>1, <1>2 DEF AuthOk, OneSetTimer, TypeOK
  <2> QED BY <1>1, <2>2, <2>3, LifeFrame
<1>3. CASE AuthFail(w)
  <2>2. Control(w)'
    BY <1>1, <1>3 DEF AuthFail, TypeOK, Control, Unborn, ClosedOnce, Goroutines, Served,
       Registered, SettingUp, Serving, Removing, Commands
  <2>3. OneSetTimer(w)'
    BY <1>1, <1>3 DEF AuthFail, OneSetTimer, TypeOK
  <2> QED BY <1>1, <2>2, <2>3, LifeFrame
<1>4. CASE Register(w)
  <2>2. Control(w)'
    BY <1>1, <1>4 DEF Register, TypeOK, Control, Unborn, ClosedOnce, Goroutines, Served,
       Registered, SettingUp, Serving, Removing, Commands
  <2>3. OneSetTimer(w)'
    BY <1>1, <1>4 DEF Register, OneSetTimer, TypeOK
  <2> QED BY <1>1, <2>2, <2>3, LifeFrame
<1>5. CASE AwaitReply(w)
  <2>2. Control(w)'
    BY <1>1, <1>5 DEF AwaitReply, SetupTake, SetupGo, TypeOK, Control, Unborn, ClosedOnce, Goroutines, Served,
       Registered, SettingUp, Serving, Removing, Commands
  <2>3. OneSetTimer(w)'
    BY <1>1, <1>5, TakeKeepsSetTimer DEF AwaitReply, SetupTake, SetupGo, TypeOK
  <2> QED BY <1>1, <2>2, <2>3, LifeFrame
<1>6. CASE AwaitState(w)
  <2>2. Control(w)'
    BY <1>1, <1>6 DEF AwaitState, SetupTake, SetupGo, TypeOK, Control, Unborn, ClosedOnce, Goroutines, Served,
       Registered, SettingUp, Serving, Removing, Commands
  <2>3. OneSetTimer(w)'
    BY <1>1, <1>6, TakeKeepsSetTimer DEF AwaitState, SetupTake, SetupGo, TypeOK
  <2> QED BY <1>1, <2>2, <2>3, LifeFrame
<1>7. CASE Start(w)
  <2>2. Control(w)'
    BY <1>1, <1>7 DEF Start, TypeOK, Control, Unborn, ClosedOnce, Goroutines, Served,
       Registered, SettingUp, Serving, Removing, Commands
  <2>3. OneSetTimer(w)'
    BY <1>1, <1>7 DEF Start, OneSetTimer, TypeOK
  <2> QED BY <1>1, <2>2, <2>3, LifeFrame
<1>8. CASE Hello(w)
  <2>2. Control(w)'
    BY <1>1, <1>8 DEF Hello, TypeOK, Control, Unborn, ClosedOnce, Goroutines, Served,
       Registered, SettingUp, Serving, Removing, Commands
  <2>3. OneSetTimer(w)'
    BY <1>1, <1>8 DEF Hello, OneSetTimer, TypeOK
  <2> QED BY <1>1, <2>2, <2>3, LifeFrame
<1>9. CASE EndByTimer(w)
  <2>2. Control(w)'
    BY <1>1, <1>9 DEF EndByTimer, TypeOK, Control, Unborn, ClosedOnce, Goroutines, Served,
       Registered, SettingUp, Serving, Removing, Commands
  <2>3. OneSetTimer(w)'
    BY <1>1, <1>9 DEF EndByTimer, OneSetTimer, TypeOK
  <2> QED BY <1>1, <2>2, <2>3, LifeFrame
<1>10. CASE EndByRemoval(w)
  <2>2. Control(w)'
    BY <1>1, <1>10 DEF EndByRemoval, TypeOK, Control, Unborn, ClosedOnce, Goroutines, Served,
       Registered, SettingUp, Serving, Removing, Commands
  <2>3. OneSetTimer(w)'
    BY <1>1, <1>10 DEF EndByRemoval, OneSetTimer, TypeOK
  <2> QED BY <1>1, <2>2, <2>3, LifeFrame
<1>11. CASE SendComm(w)
  <2>2. Control(w)'
    BY <1>1, <1>11 DEF SendComm, TypeOK, Control, Unborn, ClosedOnce, Goroutines, Served,
       Registered, SettingUp, Serving, Removing, Commands
  <2>3. CASE closed[w]
    <3>1. OneSetTimer(w)'
      BY <1>1, <1>11, <2>3 DEF SendComm, OneSetTimer
    <3> QED BY <1>1, <2>2, <3>1, LifeFrame
  <2>4. CASE ~closed[w]
    <3>1. /\ ItemOf(conn[w]) \in Item /\ ItemOf(conn[w]).op = conn[w]
          /\ chan[w] \in Seq(Item)
      BY <1>11 DEF SendComm, ItemOf, Item, Commands, NoConn, TypeOK
    <3>2. chan'[w] = Append(chan[w], ItemOf(conn[w])) /\ timer' = timer
      BY <1>11, <2>4 DEF SendComm, TypeOK
    <3>3. conn[w] # "done" /\ timer[w] = "off"
      BY <1>1, <1>11 DEF SendComm, Commands, Control, Goroutines
    <3>4. CASE conn[w] # "SET_TIMER"
      BY <1>1, <3>1, <3>2, <3>3, <3>4, <2>2, PutKeepsSetTimer, LifeFrame
    <3>5. CASE conn[w] = "SET_TIMER"
      <4>1. conn'[w] = "done"
        BY <1>11, <2>4, <3>5 DEF SendComm, TypeOK
      <4>2. \A i \in DOMAIN chan[w] : chan[w][i].op # "SET_TIMER"
        BY <1>1, <3>3 DEF OneSetTimer
      <4>3. \A i \in DOMAIN chan'[w] :
              i = Len(chan[w]) + 1 \/ (i \in DOMAIN chan[w] /\ chan'[w][i] = chan[w][i])
        BY <3>1, <3>2
      <4>4. OneSetTimer(w)'
        BY <3>2, <3>3, <4>1, <4>2, <4>3 DEF OneSetTimer
      <4> QED BY <1>1, <2>2, <4>4, LifeFrame
    <3> QED BY <3>4, <3>5
  <2> QED BY <2>3, <2>4
<1>12. CASE ConnDelete(w)
  <2>2. Control(w)'
    BY <1>1, <1>12 DEF ConnDelete, DeleteConnection, AfterDelete, TypeOK, Control, Unborn, ClosedOnce, Goroutines, Served,
       Registered, SettingUp, Serving, Removing, Commands
  <2>3. OneSetTimer(w)'
    BY <1>1, <1>12 DEF ConnDelete, DeleteConnection, AfterDelete, OneSetTimer, TypeOK
  <2> QED BY <1>1, <2>2, <2>3, LifeFrame
<1>13. CASE ConnClose(w)
  <2>2. Control(w)'
    BY <1>1, <1>13 DEF ConnClose, CloseChannel, TypeOK, Control, Unborn, ClosedOnce, Goroutines, Served,
       Registered, SettingUp, Serving, Removing, Commands
  <2>3. OneSetTimer(w)'
    BY <1>1, <1>13 DEF ConnClose, CloseChannel, OneSetTimer, TypeOK
  <2> QED BY <1>1, <2>2, <2>3, LifeFrame
<1>14. CASE ConnUnregister(w)
  <2>2. Control(w)'
    BY <1>1, <1>14 DEF ConnUnregister, TypeOK, Control, Unborn, ClosedOnce, Goroutines, Served,
       Registered, SettingUp, Serving, Removing, Commands
  <2>3. OneSetTimer(w)'
    BY <1>1, <1>14 DEF ConnUnregister, OneSetTimer, TypeOK
  <2> QED BY <1>1, <2>2, <2>3, LifeFrame
<1> QED
  BY <1>2, <1>3, <1>4, <1>5, <1>6, <1>7, <1>8, <1>9, <1>10, <1>11, <1>12, <1>13, <1>14
     DEF ConnStep

(* Steps of the removal timer keep it.                                     *)
LEMMA LifeTimer ==
  ASSUME TypeOK, Life, NEW w \in Conns, TimerStep(w)
  PROVE  Life'
<1>1. Control(w) /\ OneSetTimer(w) /\ Others(w)
  BY LocalStep DEF Life, Control
<1>2. CASE TimerFire(w)
  <2>2. Control(w)'
    BY <1>1, <1>2 DEF TimerFire, TypeOK, Control, Unborn, ClosedOnce, Goroutines, Served,
       Registered, SettingUp, Serving, Removing, Commands
  <2>3. OneSetTimer(w)'
    BY <1>1, <1>2 DEF TimerFire, OneSetTimer, TypeOK
  <2> QED BY <1>1, <2>2, <2>3, LifeFrame
<1>3. CASE TimerDelete(w)
  <2>2. Control(w)'
    BY <1>1, <1>3 DEF TimerDelete, DeleteConnection, AfterDelete, TypeOK, Control, Unborn, ClosedOnce, Goroutines, Served,
       Registered, SettingUp, Serving, Removing, Commands
  <2>3. OneSetTimer(w)'
    BY <1>1, <1>3 DEF TimerDelete, DeleteConnection, AfterDelete, OneSetTimer, TypeOK
  <2> QED BY <1>1, <2>2, <2>3, LifeFrame
<1>4. CASE TimerClose(w)
  <2>2. Control(w)'
    BY <1>1, <1>4 DEF TimerClose, CloseChannel, TypeOK, Control, Unborn, ClosedOnce, Goroutines, Served,
       Registered, SettingUp, Serving, Removing, Commands
  <2>3. OneSetTimer(w)'
    BY <1>1, <1>4 DEF TimerClose, CloseChannel, OneSetTimer, TypeOK
  <2> QED BY <1>1, <2>2, <2>3, LifeFrame
<1>5. CASE TimerUnregister(w)
  <2>2. Control(w)'
    BY <1>1, <1>5 DEF TimerUnregister, TypeOK, Control, Unborn, ClosedOnce, Goroutines, Served,
       Registered, SettingUp, Serving, Removing, Commands
  <2>3. OneSetTimer(w)'
    BY <1>1, <1>5 DEF TimerUnregister, OneSetTimer, TypeOK
  <2> QED BY <1>1, <2>2, <2>3, LifeFrame
<1> QED BY <1>2, <1>3, <1>4, <1>5 DEF TimerStep

(* Steps of msg_chan_recv keep it.                                         *)
LEMMA LifeRecv ==
  ASSUME TypeOK, Life, NEW w \in Conns, RecvStep(w)
  PROVE  Life'
<1>1. Control(w) /\ OneSetTimer(w) /\ Others(w)
  BY LocalStep DEF Life, Control
<1>2. CASE RecvFlush(w)
  <2>2. Control(w)'
    BY <1>1, <1>2 DEF RecvFlush, RecvTake, TypeOK, Control, Unborn, ClosedOnce, Goroutines, Served,
       Registered, SettingUp, Serving, Removing, Commands
  <2>3. OneSetTimer(w)'
    BY <1>1, <1>2, TakeKeepsSetTimer DEF RecvFlush, RecvTake, TypeOK
  <2> QED BY <1>1, <2>2, <2>3, LifeFrame
<1>3. CASE RecvSetTimer(w)
  <2>2. Control(w)'
    BY <1>1, <1>3, SetTimerTaken DEF RecvSetTimer, RecvTake, TypeOK, Control, Unborn,
       ClosedOnce, Goroutines, Served, Registered, SettingUp, Serving, Removing, Commands
  <2>3. OneSetTimer(w)'
    BY <1>1, <1>3, TakeKeepsSetTimer DEF RecvSetTimer, RecvTake, TypeOK
  <2> QED BY <1>1, <2>2, <2>3, LifeFrame
<1>4. CASE RecvGiveState(w)
  <2>2. Control(w)'
    BY <1>1, <1>4 DEF RecvGiveState, RecvTake, TypeOK, Control, Unborn, ClosedOnce, Goroutines, Served,
       Registered, SettingUp, Serving, Removing, Commands
  <2>3. OneSetTimer(w)'
    BY <1>1, <1>4, TakeKeepsSetTimer DEF RecvGiveState, RecvTake, TypeOK
  <2> QED BY <1>1, <2>2, <2>3, LifeFrame
<1>5. CASE RecvReplaced(w)
  <2>2. Control(w)'
    BY <1>1, <1>5 DEF RecvReplaced, RecvTake, TypeOK, Control, Unborn, ClosedOnce, Goroutines, Served,
       Registered, SettingUp, Serving, Removing, Commands
  <2>3. OneSetTimer(w)'
    BY <1>1, <1>5, TakeKeepsSetTimer DEF RecvReplaced, RecvTake, TypeOK
  <2> QED BY <1>1, <2>2, <2>3, LifeFrame
<1>6. CASE RecvPayload(w)
  <2>2. Control(w)'
    BY <1>1, <1>6 DEF RecvPayload, RecvTake, TypeOK, Control, Unborn, ClosedOnce, Goroutines, Served,
       Registered, SettingUp, Serving, Removing, Commands
  <2>3. OneSetTimer(w)'
    BY <1>1, <1>6, TakeKeepsSetTimer DEF RecvPayload, RecvTake, TypeOK
  <2> QED BY <1>1, <2>2, <2>3, LifeFrame
<1>7. CASE RecvIgnored(w)
  <2>2. Control(w)'
    BY <1>1, <1>7 DEF RecvIgnored, RecvTake, TypeOK, Control, Unborn, ClosedOnce, Goroutines, Served,
       Registered, SettingUp, Serving, Removing, Commands
  <2>3. OneSetTimer(w)'
    BY <1>1, <1>7, TakeKeepsSetTimer DEF RecvIgnored, RecvTake, TypeOK
  <2> QED BY <1>1, <2>2, <2>3, LifeFrame
<1>8. CASE RecvClosed(w)
  <2>2. Control(w)'
    BY <1>1, <1>8 DEF RecvClosed, TypeOK, Control, Unborn, ClosedOnce, Goroutines, Served,
       Registered, SettingUp, Serving, Removing, Commands
  <2>3. OneSetTimer(w)'
    BY <1>1, <1>8 DEF RecvClosed, OneSetTimer, TypeOK
  <2> QED BY <1>1, <2>2, <2>3, LifeFrame
<1>9. CASE RecvClose(w)
  <2>2. Control(w)'
    BY <1>1, <1>9 DEF RecvClose, TypeOK, Control, Unborn, ClosedOnce, Goroutines, Served,
       Registered, SettingUp, Serving, Removing, Commands
  <2>3. OneSetTimer(w)'
    BY <1>1, <1>9 DEF RecvClose, OneSetTimer, TypeOK
  <2> QED BY <1>1, <2>2, <2>3, LifeFrame
<1> QED BY <1>2, <1>3, <1>4, <1>5, <1>6, <1>7, <1>8, <1>9 DEF RecvStep

(* Steps of socket_op keep it: what it sends is never SET_TIMER.           *)
LEMMA LifeReader ==
  ASSUME TypeOK, Life, ReaderStep
  PROVE  Life'
<1>1. CASE ReaderLock
  BY <1>1 DEF ReaderLock, Life, Unborn, ClosedOnce, Goroutines, Served, Registered,
     OneSetTimer
<1>2. CASE ReaderDrop
  BY <1>2 DEF ReaderDrop, Life, Unborn, ClosedOnce, Goroutines, Served, Registered,
     OneSetTimer
<1>3. CASE ReaderSend
  <2>1. Head(down) \in Down
    BY <1>3, TakeInSeq DEF ReaderSend, TypeOK
  <2>2. Head(down).to \in Conns /\ Head(down).m \in Item /\ Head(down).m.op # "SET_TIMER"
    BY <2>1 DEF Down, Item, RouterOps
  <2>3. PICK w \in Conns : w = Head(down).to
    BY <2>2
  <2>4. Control(w) /\ OneSetTimer(w)
    BY DEF Life, Control
  <2>5. Others(w)
    BY <1>3, <2>3 DEF ReaderSend, Others, TypeOK
  <2>6. Control(w)'
    BY <1>3, <2>4 DEF ReaderSend, Control, Unborn, ClosedOnce, Goroutines, Served,
       Registered
  <2>7. /\ chan'[w] = Append(chan[w], Head(down).m)
        /\ conn'[w] = conn[w] /\ timer'[w] = timer[w]
    BY <1>3, <2>3 DEF ReaderSend, TypeOK
  <2>8. OneSetTimer(w)'
    BY <2>2, <2>4, <2>7, PutKeepsSetTimer
  <2> QED BY <2>5, <2>6, <2>8, LifeFrame
<1> QED BY <1>1, <1>2, <1>3 DEF ReaderStep

(* Steps of the router do not touch what the invariant is about.           *)
LEMMA LifeRouter ==
  ASSUME Life, UNCHANGED <<conn, recv, timer, closed, table, failed, chan>>
  PROVE  Life'
BY DEF Life, Unborn, ClosedOnce, Goroutines, Served, Registered, OneSetTimer

(* Every step keeps the invariant of the sessions.                         *)
LEMMA LifeNext == TypeOK /\ Life /\ [Next]_vars => Life'
<1> SUFFICES ASSUME TypeOK, Life, [Next]_vars PROVE Life'
  OBVIOUS
<1>1. CASE UNCHANGED vars
  BY <1>1, LifeRouter DEF vars
<1>2. CASE RouterReply
  BY <1>2, LifeRouter
     DEF RouterReply, RouterAdd, RouterRecover, RouterRemove, RouterState
<1>3. ASSUME NEW s \in Sessions, RouterPayload(s) PROVE Life'
  BY <1>3, LifeRouter DEF RouterPayload
<1> QED
  BY <1>1, <1>2, <1>3, LifeClient, LifeConn, LifeTimer, LifeRecv, LifeReader DEF Next

(* While the reader sends, the WSID stays in the table and its channel     *)
(* open: delete_connection waits for the shard's lock, and nobody else     *)
(* moves the head of the router's stream.                                  *)
LEMMA ReaderNext ==
  TypeOK /\ TypeOK' /\ Life' /\ ReaderNeverSendsOnClosed /\ [Next]_vars
    => ReaderNeverSendsOnClosed'
<1> SUFFICES ASSUME TypeOK, TypeOK', Life', ReaderNeverSendsOnClosed, [Next]_vars, holding'
             PROVE  Head(down').to \in table' /\ ~closed'[Head(down').to]
  BY DEF ReaderNeverSendsOnClosed
<1>1. /\ down \in Seq(Down) /\ (holding => down # <<>> /\ Head(down).to \in table)
      /\ table \in SUBSET Conns /\ table' \in SUBSET Conns
  BY DEF TypeOK, ReaderNeverSendsOnClosed
<1>2. Head(down').to \in table' => ~closed'[Head(down').to]
  BY <1>1 DEF Life, ClosedOnce
<1>3. CASE UNCHANGED <<down, holding, table>>
  BY <1>1, <1>2, <1>3
<1>4. ASSUME NEW w \in Conns, table' = table \ {w}, ~Locked(w), UNCHANGED <<down, holding>>
      PROVE  Head(down').to \in table'
  BY <1>1, <1>4 DEF Locked
<1>5. CASE RouterReply \/ \E s \in Sessions : RouterPayload(s)
  <2>1. UNCHANGED <<table, holding>>
    BY <1>5 DEF RouterReply, RouterAdd, RouterRecover, RouterRemove, RouterState,
       RouterPayload
  <2> QED BY <1>1, <1>2, <1>5, <2>1, TypeRouter DEF KeepsHead
<1>6. CASE ReaderStep
  BY <1>1, <1>2, <1>6 DEF ReaderStep, ReaderLock, ReaderSend, ReaderDrop
<1>7. ASSUME NEW w \in Conns, ConnStep(w) PROVE Head(down').to \in table'
  <2>1. CASE Register(w)
    BY <1>1, <2>1 DEF Register
  <2>2. CASE ConnDelete(w)
    BY <1>4, <2>2 DEF ConnDelete, DeleteConnection
  <2>3. ASSUME UNCHANGED <<down, holding, table>> PROVE Head(down').to \in table'
    BY <1>1, <2>3
  <2> QED
    BY <1>7, <2>1, <2>2, <2>3 DEF ConnStep, AuthOk, AuthFail, AwaitReply, AwaitState,
       Start, Hello, EndByTimer, EndByRemoval, SendComm, ConnClose, ConnUnregister
<1>8. ASSUME NEW w \in Conns, TimerStep(w) PROVE Head(down').to \in table'
  <2>1. CASE TimerDelete(w)
    BY <1>4, <2>1 DEF TimerDelete, DeleteConnection
  <2>2. ASSUME UNCHANGED <<down, holding, table>> PROVE Head(down').to \in table'
    BY <1>1, <2>2
  <2> QED
    BY <1>8, <2>1, <2>2 DEF TimerStep, TimerFire, TimerClose, TimerUnregister
<1>9. ASSUME NEW w \in Conns, ClientStep(w) \/ RecvStep(w) PROVE UNCHANGED <<down, holding, table>>
  BY <1>9 DEF ClientStep, Connect, Leave, ReadFrame, RecvStep, RecvFlush, RecvSetTimer,
     RecvGiveState, RecvClose, RecvReplaced, RecvPayload, RecvIgnored, RecvClosed
<1>10. CASE UNCHANGED vars
  BY <1>3, <1>10 DEF vars
<1> QED
  BY <1>2, <1>3, <1>5, <1>6, <1>7, <1>8, <1>9, <1>10 DEF Next

(* A panic ends the process, and the goroutine that panicked was not       *)
(* serving a session that was set up.                                      *)
LEMMA PanicNext ==
  TypeOK /\ Life /\ NoPanicWhileServing /\ [Next]_vars => NoPanicWhileServing'
<1> SUFFICES ASSUME TypeOK, Life, NoPanicWhileServing, [Next]_vars PROVE NoPanicWhileServing'
  OBVIOUS
<1>1. CASE UNCHANGED vars
  BY <1>1 DEF vars, NoPanicWhileServing
<1>2. ASSUME Next PROVE crashed = None
  BY <1>2 DEF Next
<1>3. ASSUME Next, crashed' = crashed PROVE NoPanicWhileServing'
  BY <1>2, <1>3 DEF NoPanicWhileServing
<1>4. ASSUME Next, NEW w \in Conns, ConnStep(w) PROVE NoPanicWhileServing'
  <2>1. CASE SendComm(w) /\ closed[w]
    <3>1. w \in failed
      BY <2>1 DEF SendComm, Life, Served, Serving, ClosedOnce
    <3> QED BY <2>1, <3>1 DEF SendComm, NoPanicWhileServing
  <2>2. CASE ~(SendComm(w) /\ closed[w])
    <3>1. crashed' = crashed
      BY <1>4, <2>2 DEF ConnStep, AuthOk, AuthFail, Register, AwaitReply, AwaitState,
         Start, Hello, EndByTimer, EndByRemoval, SendComm, ConnDelete, ConnClose,
         ConnUnregister
    <3> QED BY <1>3, <1>4, <3>1
  <2> QED BY <2>1, <2>2
<1>5. ASSUME Next, NEW w \in Conns, RecvStep(w) PROVE NoPanicWhileServing'
  <2>1. CASE RecvFlush(w) \/ RecvPayload(w)
    BY <1>2, <1>5, <2>1 DEF RecvFlush, RecvPayload, CanPanic, NoPanicWhileServing
  <2>2. CASE ~(RecvFlush(w) \/ RecvPayload(w))
    BY <1>3, <1>5, <2>2
       DEF RecvStep, RecvSetTimer, RecvGiveState, RecvClose, RecvReplaced, RecvIgnored, RecvClosed
  <2> QED BY <2>1, <2>2
<1>6. ASSUME Next, NEW w \in Conns, ClientStep(w) \/ TimerStep(w)
      PROVE  NoPanicWhileServing'
  BY <1>3, <1>6 DEF ClientStep, Connect, Leave, ReadFrame, TimerStep, TimerFire,
     TimerDelete, TimerClose, TimerUnregister
<1>7. ASSUME Next, ReaderStep \/ RouterReply \/ \E s \in Sessions : RouterPayload(s)
      PROVE  NoPanicWhileServing'
  BY <1>3, <1>7 DEF ReaderStep, ReaderLock, ReaderSend, ReaderDrop, RouterReply,
     RouterAdd, RouterRecover, RouterRemove, RouterState, RouterPayload
<1> QED
  BY <1>1, <1>4, <1>5, <1>6, <1>7 DEF Next

(* The inductive invariant.                                                *)
LEMMA Inductive == Spec => []IInv
<1>1. Init => IInv
  <2> SUFFICES ASSUME Init PROVE Life /\ ReaderNeverSendsOnClosed /\ NoPanicWhileServing
    BY TypeInit DEF IInv
  <2>1. Life
    BY DEF Init, Life, Unborn, ClosedOnce, Goroutines, Served, Registered, OneSetTimer,
       SettingUp, Serving, Removing, Commands
  <2>2. ReaderNeverSendsOnClosed /\ NoPanicWhileServing
    BY DEF Init, ReaderNeverSendsOnClosed, NoPanicWhileServing
  <2> QED BY <2>1, <2>2
<1>2. IInv /\ [Next]_vars => IInv'
  BY TypeNext, LifeNext, ReaderNext, PanicNext DEF IInv
<1> QED BY <1>1, <1>2, PTL DEF Spec

(* socket_op sends only on the channel of a WSID that is in the table and  *)
(* open, whoever removes it meanwhile.                                     *)
THEOREM ReaderSafe == Spec => []ReaderNeverSendsOnClosed
<1>1. IInv => ReaderNeverSendsOnClosed
  BY DEF IInv
<1> QED BY <1>1, Inductive, PTL

(* No goroutine panics for a connection that was set up and is still       *)
(* served.                                                                 *)
THEOREM PanicSafe == Spec => []NoPanicWhileServing
<1>1. IInv => NoPanicWhileServing
  BY DEF IInv
<1> QED BY <1>1, Inductive, PTL

-----------------------------------------------------------------------------
(* The table and its channels implement the abstract mailboxes.            *)

Boxes == [w \in Conns |-> Phase(w)]

(* What a step of w may do to its mailbox.                                 *)
BoxMove(w, from, to) == Phase(w) = from /\ Phase(w)' = to /\ chan'[w] = chan[w]
BoxKept(w) == Phase(w)' = Phase(w) /\ chan'[w] = chan[w]
BoxTake(w) == Phase(w)' = Phase(w) /\ chan[w] # <<>> /\ chan'[w] = Tail(chan[w])
BoxPut(w) ==
  /\ Phase(w)' = Phase(w) /\ Phase(w) = "open" /\ Len(chan[w]) < ChanCap
  /\ \E m \in Item : chan'[w] = Append(chan[w], m)

(* A local step that does one of these is a step of the mailboxes.         *)
LEMMA LocalBoxStep ==
  ASSUME TypeOK, TypeOK', NEW w \in Conns, Others(w),
         \/ BoxKept(w) \/ BoxTake(w) \/ BoxPut(w)
         \/ BoxMove(w, "new", "open") \/ BoxMove(w, "open", "removed")
         \/ BoxMove(w, "removed", "closed")
  PROVE  [Box!Next]_(Box!mailboxVars)
<1>1. \A v \in Conns \ {w} : Phase(v)' = Phase(v) /\ chan'[v] = chan[v]
  BY DEF Others, Phase
<1>2. chan \in [Conns -> Seq(Item)] /\ chan' \in [Conns -> Seq(Item)]
  BY DEF TypeOK
<1>3. Boxes' = [Boxes EXCEPT ![w] = Phase(w)']
  BY <1>1 DEF Boxes
<1>4. chan' = [chan EXCEPT ![w] = chan'[w]]
  BY <1>1, <1>2
<1>5. Boxes[w] = Phase(w)
  BY DEF Boxes
<1>6. Phase(w)' = Phase(w) => Boxes' = Boxes
  BY <1>1 DEF Boxes
<1>7. chan'[w] = chan[w] => chan' = chan
  BY <1>1, <1>2
<1>8. CASE BoxKept(w)
  BY <1>6, <1>7, <1>8 DEF BoxKept, Box!mailboxVars, Boxes
<1>9. CASE BoxTake(w)
  <2>1. Box!Take(w)
    BY <1>4, <1>6, <1>9 DEF BoxTake, Box!Take, Boxes
  <2> QED BY <2>1 DEF Box!Next
<1>10. CASE BoxPut(w)
  <2>1. PICK m \in Item : chan'[w] = Append(chan[w], m)
    BY <1>10 DEF BoxPut
  <2>2. Box!Put(w, m)
    BY <1>4, <1>5, <1>6, <1>10, <2>1 DEF BoxPut, Box!Put, Boxes
  <2> QED BY <2>2 DEF Box!Next
<1>11. ASSUME NEW from, NEW to, BoxMove(w, from, to)
       PROVE  Box!Move(w, from, to) /\ UNCHANGED chan
  BY <1>3, <1>5, <1>7, <1>11 DEF BoxMove, Box!Move, Boxes
<1>12. CASE BoxMove(w, "new", "open")
  BY <1>11, <1>12 DEF Box!Open, Box!Next
<1>13. CASE BoxMove(w, "open", "removed")
  BY <1>11, <1>13 DEF Box!Remove, Box!Next
<1>14. CASE BoxMove(w, "removed", "closed")
  BY <1>11, <1>14 DEF Box!Close, Box!Next
<1> QED BY <1>8, <1>9, <1>10, <1>12, <1>13, <1>14

(* Steps of ClientSocket and connect_user open, use and remove a mailbox.  *)
LEMMA BoxConn ==
  ASSUME IInv, IInv', NEW w \in Conns, ConnStep(w)
  PROVE  [Box!Next]_(Box!mailboxVars)
<1> DEFINE Steps ==
      \/ BoxKept(w) \/ BoxTake(w) \/ BoxPut(w)
      \/ BoxMove(w, "new", "open") \/ BoxMove(w, "open", "removed")
      \/ BoxMove(w, "removed", "closed")
<1>1. Control(w) /\ TypeOK /\ Others(w)
  BY LocalStep DEF IInv, Life, Control
<1>2. CASE Register(w)
  <2>1. BoxMove(w, "new", "open")
    BY <1>1, <1>2 DEF Register, TypeOK, Control, Unborn, Registered, BoxMove, Phase
  <2> QED BY <2>1, <1>1, LocalBoxStep DEF IInv
<1>3. CASE AwaitReply(w) \/ AwaitState(w)
  <2>1. BoxTake(w)
    BY <1>1, <1>3 DEF AwaitReply, AwaitState, SetupTake, SetupGo, TypeOK, Control,
       Served, SettingUp, ClosedOnce, Goroutines, BoxTake, Phase
  <2> QED BY <2>1, <1>1, LocalBoxStep DEF IInv
<1>4. CASE SendComm(w)
  <2>1. CASE closed[w]
    <3>1. BoxKept(w)
      BY <1>4, <2>1 DEF SendComm, BoxKept, Phase
    <3> QED BY <3>1, <1>1, LocalBoxStep DEF IInv
  <2>2. CASE ~closed[w]
    <3>1. /\ w \in table /\ w \in table' /\ ~closed[w] /\ ~closed'[w]
          /\ timer[w] # "close" /\ timer'[w] # "close"
      BY <1>1, <1>4, <2>2 DEF SendComm, Control, Served, Serving, ClosedOnce
    <3>2. conn[w] # "close" /\ conn'[w] # "close"
      BY <1>1, <1>4, <2>2 DEF SendComm, Commands, TypeOK
    <3>3. Phase(w) = "open" /\ Phase(w)' = "open"
      BY <3>1, <3>2 DEF Phase
    <3>4. ItemOf(conn[w]) \in Item
      BY <1>4 DEF SendComm, ItemOf, Item, Commands, NoConn
    <3>5. Len(chan[w]) < ChanCap /\ chan'[w] = Append(chan[w], ItemOf(conn[w]))
      BY <1>1, <1>4, <2>2 DEF SendComm, TypeOK
    <3>6. BoxPut(w)
      BY <3>3, <3>4, <3>5 DEF BoxPut
    <3> QED BY <3>6, <1>1, LocalBoxStep DEF IInv
  <2> QED BY <2>1, <2>2
<1>5. CASE ConnDelete(w)
  <2>1. BoxMove(w, "open", "removed") \/ BoxKept(w)
    BY <1>1, <1>5 DEF ConnDelete, DeleteConnection, AfterDelete, TypeOK, Control,
       ClosedOnce, Goroutines, BoxMove, BoxKept, Phase
  <2> QED BY <2>1, <1>1, LocalBoxStep DEF IInv
<1>6. CASE ConnClose(w)
  <2>1. BoxMove(w, "removed", "closed")
    BY <1>1, <1>6 DEF ConnClose, CloseChannel, TypeOK, Control, ClosedOnce,
       Goroutines, BoxMove, Phase
  <2> QED BY <2>1, <1>1, LocalBoxStep DEF IInv
<1>7. CASE \/ AuthOk(w) \/ AuthFail(w) \/ Start(w) \/ Hello(w) \/ EndByTimer(w)
           \/ EndByRemoval(w) \/ ConnUnregister(w)
  <2>1. /\ UNCHANGED <<closed, table, timer, chan>>
        /\ conn[w] # "close" /\ conn'[w] # "close"
    BY <1>1, <1>7 DEF AuthOk, AuthFail, Start, Hello, EndByTimer, EndByRemoval,
       ConnUnregister, TypeOK
  <2>2. BoxKept(w)
    BY <2>1 DEF BoxKept, Phase
  <2> QED BY <2>2, <1>1, LocalBoxStep DEF IInv
<1> QED BY <1>2, <1>3, <1>4, <1>5, <1>6, <1>7 DEF ConnStep

(* Steps of the removal timer remove and close a mailbox.                  *)
LEMMA BoxTimer ==
  ASSUME IInv, IInv', NEW w \in Conns, TimerStep(w)
  PROVE  [Box!Next]_(Box!mailboxVars)
<1>1. Control(w) /\ TypeOK /\ Others(w)
  BY LocalStep DEF IInv, Life, Control
<1>2. CASE TimerDelete(w)
  <2>1. BoxMove(w, "open", "removed") \/ BoxKept(w)
    BY <1>1, <1>2 DEF TimerDelete, DeleteConnection, AfterDelete, TypeOK, Control,
       ClosedOnce, Goroutines, BoxMove, BoxKept, Phase
  <2> QED BY <2>1, <1>1, LocalBoxStep DEF IInv
<1>3. CASE TimerClose(w)
  <2>1. BoxMove(w, "removed", "closed")
    BY <1>1, <1>3 DEF TimerClose, CloseChannel, TypeOK, Control, ClosedOnce,
       Goroutines, BoxMove, Phase
  <2> QED BY <2>1, <1>1, LocalBoxStep DEF IInv
<1>4. CASE TimerFire(w) \/ TimerUnregister(w)
  <2>1. BoxKept(w)
    BY <1>1, <1>4 DEF TimerFire, TimerUnregister, TypeOK, BoxKept, Phase
  <2> QED BY <2>1, <1>1, LocalBoxStep DEF IInv
<1> QED BY <1>2, <1>3, <1>4 DEF TimerStep

(* The receiver takes from its mailbox.                                    *)
LEMMA BoxRecv ==
  ASSUME IInv, IInv', NEW w \in Conns, RecvStep(w)
  PROVE  [Box!Next]_(Box!mailboxVars)
<1>1. Control(w) /\ TypeOK /\ Others(w)
  BY LocalStep DEF IInv, Life, Control
<1>2. CASE RecvClosed(w) \/ RecvClose(w)
  <2>1. BoxKept(w)
    BY <1>2 DEF RecvClosed, RecvClose, BoxKept, Phase
  <2> QED BY <2>1, <1>1, LocalBoxStep DEF IInv
<1>3. CASE RecvSetTimer(w)
  <2>1. timer[w] = "off" /\ timer'[w] = "sleep"
    BY <1>1, <1>3, SetTimerTaken DEF RecvSetTimer, IInv, Life, TypeOK
  <2>2. /\ UNCHANGED <<conn, closed, table>>
        /\ chan[w] # <<>> /\ chan'[w] = Tail(chan[w])
    BY <1>1, <1>3 DEF RecvSetTimer, RecvTake, TypeOK
  <2>3. BoxTake(w)
    BY <2>1, <2>2 DEF BoxTake, Phase
  <2> QED BY <2>3, <1>1, LocalBoxStep DEF IInv
<1>4. CASE \/ RecvFlush(w) \/ RecvGiveState(w) \/ RecvReplaced(w) \/ RecvPayload(w)
           \/ RecvIgnored(w)
  <2>1. /\ UNCHANGED <<conn, closed, table, timer>>
        /\ chan[w] # <<>> /\ chan'[w] = Tail(chan[w])
    BY <1>1, <1>4 DEF RecvFlush, RecvGiveState, RecvReplaced, RecvPayload, RecvIgnored,
       RecvTake, TypeOK
  <2>2. BoxTake(w)
    BY <2>1 DEF BoxTake, Phase
  <2> QED BY <2>2, <1>1, LocalBoxStep DEF IInv
<1> QED BY <1>2, <1>3, <1>4 DEF RecvStep

(* The reader puts into an open mailbox.                                   *)
LEMMA BoxReader ==
  ASSUME IInv, IInv', ReaderSend
  PROVE  [Box!Next]_(Box!mailboxVars)
<1>1. Head(down) \in Down
  BY TakeInSeq DEF ReaderSend, IInv, TypeOK
<1>2. PICK w \in Conns : w = Head(down).to
  BY <1>1 DEF Down
<1>3. Head(down).m \in Item
  BY <1>1 DEF Down, Item
<1>4. Others(w)
  BY <1>2 DEF ReaderSend, Others, IInv, TypeOK
<1>5. Phase(w) = "open" /\ Phase(w)' = Phase(w)
  <2>1. w \in table /\ ~closed[w] /\ UNCHANGED <<table, closed, conn, timer>>
    BY <1>2 DEF ReaderSend, IInv, ReaderNeverSendsOnClosed
  <2>2. conn[w] # "close" /\ timer[w] # "close"
    BY <2>1 DEF IInv, Life, ClosedOnce
  <2> QED BY <2>1, <2>2 DEF Phase
<1>6. Len(chan[w]) < ChanCap /\ chan'[w] = Append(chan[w], Head(down).m)
  BY <1>2 DEF ReaderSend, IInv, TypeOK
<1>7. BoxPut(w)
  BY <1>3, <1>5, <1>6 DEF BoxPut
<1> QED BY <1>4, <1>7, LocalBoxStep DEF IInv

(* All other steps leave the mailboxes alone.                              *)
LEMMA BoxFrame ==
  ASSUME UNCHANGED <<conn, timer, closed, table, chan>>
  PROVE  UNCHANGED Box!mailboxVars
BY DEF Box!mailboxVars, Phase

(* A client does not touch its mailbox.                                    *)
LEMMA BoxClient ==
  ASSUME IInv, IInv', NEW w \in Conns, ClientStep(w)
  PROVE  [Box!Next]_(Box!mailboxVars)
<1>1. Control(w) /\ TypeOK /\ Others(w)
  BY LocalStep DEF IInv, Life, Control
<1>2. BoxKept(w)
  BY <1>1 DEF ClientStep, Connect, Leave, ReadFrame, TypeOK, BoxKept, Phase
<1> QED BY <1>1, <1>2, LocalBoxStep DEF IInv

(* create_connection, delete_connection, send_comm_msg, socket_op and the  *)
(* receivers together implement one bounded FIFO mailbox for each          *)
(* connection: opened once, removed before it is closed, closed once, and  *)
(* never written to after its removal.                                     *)
THEOREM MailboxRefinement == Spec => ImplementsMailboxes
<1>1. Init => Box!Init
  BY DEF Init, Box!Init, Phase
<1>2. IInv /\ IInv' /\ [Next]_vars => [Box!Next]_(Box!mailboxVars)
  <2> SUFFICES ASSUME IInv, IInv', [Next]_vars PROVE [Box!Next]_(Box!mailboxVars)
    OBVIOUS
  <2>1. CASE UNCHANGED vars
    BY <2>1, BoxFrame DEF vars
  <2>2. CASE ReaderStep
    BY <2>2, BoxReader, BoxFrame DEF ReaderStep, ReaderLock, ReaderDrop
  <2>3. CASE RouterReply
    BY <2>3, BoxFrame
       DEF RouterReply, RouterAdd, RouterRecover, RouterRemove, RouterState
  <2>4. ASSUME NEW s \in Sessions, RouterPayload(s)
        PROVE  [Box!Next]_(Box!mailboxVars)
    BY <2>4, BoxFrame DEF RouterPayload
  <2> QED
    BY <2>1, <2>2, <2>3, <2>4, BoxClient, BoxConn, BoxTimer, BoxRecv DEF Next
<1> QED BY <1>1, <1>2, Inductive, PTL DEF Spec, Box!Spec, ImplementsMailboxes

-----------------------------------------------------------------------------
(* How a session ends, to which WSID the router sends, and what Refresh =  *)
(* false tells a client. First queues, again.                              *)

(* What stays in a queue whose first element is taken.                     *)
LEMMA TailKeeps ==
  ASSUME NEW S, NEW s \in Seq(S), s # <<>>
  PROVE  /\ Tail(s) \in Seq(S) /\ 1 \in DOMAIN s /\ Head(s) = s[1] /\ Head(s) \in S
         /\ \A i \in DOMAIN s : i \in Nat /\ (i # 1 => i - 1 \in DOMAIN Tail(s) /\ Tail(s)[i - 1] = s[i])
         /\ \A i \in DOMAIN Tail(s) : i \in Nat /\ i + 1 \in DOMAIN s /\ i + 1 # 1 /\ Tail(s)[i] = s[i + 1]
OBVIOUS

(* What stays in a queue to which an element is added.                     *)
LEMMA AppendKeeps ==
  ASSUME NEW S, NEW s \in Seq(S), NEW e \in S
  PROVE  LET t == Append(s, e) IN
         /\ t \in Seq(S) /\ Len(s) \in Nat /\ Len(s) + 1 \in DOMAIN t /\ t[Len(s) + 1] = e
         /\ \A i \in DOMAIN s : i \in Nat /\ i \in DOMAIN t /\ t[i] = s[i] /\ i < Len(s) + 1
         /\ \A i \in DOMAIN t : i \in Nat /\ (i = Len(s) + 1 \/ i \in DOMAIN s)
OBVIOUS

(* A queue of elements of a set is one of elements of a larger set.        *)
LEMMA SeqGrows ==
  ASSUME NEW S, NEW T, S \subseteq T
  PROVE  Seq(S) \subseteq Seq(T)
<1> SUFFICES ASSUME NEW s \in Seq(S) PROVE s \in Seq(T)
  OBVIOUS
<1>1. Len(s) \in Nat /\ s \in [1 .. Len(s) -> S]
  OBVIOUS
<1>2. s \in [1 .. Len(s) -> T]
  BY <1>1
<1> QED BY <1>1, <1>2

-----------------------------------------------------------------------------
(* No session is left behind.                                              *)

SetTimerQueued(w) == \E i \in DOMAIN chan[w] : chan[w][i].op = "SET_TIMER"

CaredFor(w) ==
  w \in table /\ conn[w] = "done" =>
    timer[w] \in {"sleep", "delete"} \/ recv[w] = "exit" \/ SetTimerQueued(w)

LEMMA CaredForAll == TypeOK => (NoOrphanSession <=> \A w \in Conns : CaredFor(w))
BY DEF NoOrphanSession, CaredFor, SetTimerQueued, TypeOK

(* A step of w leaves the others as they are.                              *)
LEMMA CaredFrame ==
  ASSUME \A v \in Conns : CaredFor(v), NEW w \in Conns, Others(w), CaredFor(w)'
  PROVE  (\A v \in Conns : CaredFor(v))'
<1> SUFFICES ASSUME NEW v \in Conns PROVE CaredFor(v)'
  OBVIOUS
<1>1. CASE v # w
  BY <1>1 DEF Others, CaredFor, SetTimerQueued
<1> QED BY <1>1

LEMMA CaredConn ==
  ASSUME TypeOK, Life, NEW w \in Conns, CaredFor(w), ConnStep(w)
  PROVE  CaredFor(w)'
<1>1. Control(w) /\ chan[w] \in Seq(Item)
  BY DEF Life, Control, TypeOK
<1>2. CASE AuthFail(w)
  BY <1>1, <1>2 DEF AuthFail, Control, Unborn, Registered, CaredFor
<1>3. CASE ConnUnregister(w)
  BY <1>1, <1>3 DEF ConnUnregister, Control, ClosedOnce, CaredFor
<1>4. CASE SendComm(w)
  <2>1. CASE closed[w]
    BY <1>4, <2>1 DEF SendComm, CaredFor, Commands
  <2>2. CASE ~closed[w] /\ conn[w] # "SET_TIMER"
    <3>1. conn'[w] = "read"
      BY <1>4, <2>2 DEF SendComm, TypeOK
    <3> QED BY <3>1 DEF CaredFor
  <2>3. CASE ~closed[w] /\ conn[w] = "SET_TIMER"
    <3>1. ItemOf("SET_TIMER") \in Item /\ ItemOf("SET_TIMER").op = "SET_TIMER"
      BY DEF ItemOf, Item, Commands, NoConn
    <3>2. chan'[w] = Append(chan[w], ItemOf("SET_TIMER"))
      BY <1>4, <2>3 DEF SendComm, TypeOK
    <3>3. SetTimerQueued(w)'
      BY <1>1, <3>1, <3>2, AppendKeeps DEF SetTimerQueued
    <3> QED BY <3>3 DEF CaredFor
  <2> QED BY <2>1, <2>2, <2>3
<1>5. CASE AwaitReply(w) \/ AwaitState(w)
  <2>1. conn'[w] # "done"
    BY <1>5 DEF AwaitReply, AwaitState, SetupGo, TypeOK
  <2> QED BY <2>1 DEF CaredFor
<1>6. CASE \/ AuthOk(w) \/ Register(w) \/ Start(w) \/ Hello(w) \/ EndByTimer(w)
           \/ EndByRemoval(w) \/ ConnDelete(w) \/ ConnClose(w)
  <2>1. conn'[w] # "done"
    BY <1>6 DEF AuthOk, Register, Start, Hello, EndByTimer, EndByRemoval, ConnDelete,
       AfterDelete, ConnClose, TypeOK
  <2> QED BY <2>1 DEF CaredFor
<1> QED BY <1>2, <1>3, <1>4, <1>5, <1>6 DEF ConnStep

LEMMA CaredTimer ==
  ASSUME TypeOK, Life, NEW w \in Conns, CaredFor(w), TimerStep(w)
  PROVE  CaredFor(w)'
<1>1. Control(w)
  BY DEF Life, Control
<1>2. CASE TimerFire(w)
  BY <1>2 DEF TimerFire, CaredFor, TypeOK
<1>3. CASE TimerDelete(w)
  BY <1>3 DEF TimerDelete, DeleteConnection, CaredFor
<1>4. CASE TimerClose(w) \/ TimerUnregister(w)
  BY <1>1, <1>4 DEF TimerClose, TimerUnregister, Control, ClosedOnce, CaredFor
<1> QED BY <1>2, <1>3, <1>4 DEF TimerStep

LEMMA CaredRecv ==
  ASSUME TypeOK, NEW w \in Conns, CaredFor(w), RecvStep(w)
  PROVE  CaredFor(w)'
<1>1. chan[w] \in Seq(Item)
  BY DEF TypeOK
<1>2. CASE RecvSetTimer(w)
  BY <1>2 DEF RecvSetTimer, CaredFor, TypeOK
<1>3. CASE RecvClosed(w)
  BY <1>3 DEF RecvClosed, CaredFor, TypeOK
<1>5. CASE RecvClose(w)
  BY <1>5 DEF RecvClose, CaredFor, SetTimerQueued, TypeOK
<1>4. CASE \/ RecvFlush(w) \/ RecvGiveState(w) \/ RecvReplaced(w) \/ RecvPayload(w)
           \/ RecvIgnored(w)
  <2>1. /\ chan[w] # <<>> /\ chan'[w] = Tail(chan[w]) /\ Head(chan[w]).op # "SET_TIMER"
        /\ conn' = conn /\ timer' = timer /\ table' = table
        /\ recv[w] = "run"
    BY <1>4 DEF RecvFlush, RecvGiveState, RecvReplaced, RecvPayload, RecvIgnored,
       RecvTake, TypeOK
  <2>2. SetTimerQueued(w) => SetTimerQueued(w)'
    <3> SUFFICES ASSUME NEW i \in DOMAIN chan[w], chan[w][i].op = "SET_TIMER"
                 PROVE  SetTimerQueued(w)'
      BY DEF SetTimerQueued
    <3>1. i # 1
      BY <1>1, <2>1, TailKeeps
    <3>2. i - 1 \in DOMAIN Tail(chan[w]) /\ Tail(chan[w])[i - 1] = chan[w][i]
      BY <1>1, <2>1, <3>1, TailKeeps
    <3> QED BY <2>1, <3>2 DEF SetTimerQueued
  <2> QED BY <2>1, <2>2 DEF CaredFor
<1> QED BY <1>2, <1>3, <1>4, <1>5 DEF RecvStep

LEMMA OrphanNext ==
  TypeOK /\ TypeOK' /\ Life /\ NoOrphanSession /\ [Next]_vars => NoOrphanSession'
<1> SUFFICES ASSUME TypeOK, TypeOK', Life, NoOrphanSession, [Next]_vars PROVE NoOrphanSession'
  OBVIOUS
<1> DEFINE All == \A v \in Conns : CaredFor(v)
<1>1. All
  BY CaredForAll
<1>2. ASSUME UNCHANGED <<table, conn, timer, recv, chan>> PROVE All'
  BY <1>1, <1>2 DEF CaredFor, SetTimerQueued
<1>3. ASSUME NEW w \in Conns, ClientStep(w) \/ ConnStep(w) \/ TimerStep(w) \/ RecvStep(w)
      PROVE  All'
  <2>1. Others(w)
    BY <1>3, LocalStep
  <2>2. CaredFor(w)'
    <3>1. CASE ClientStep(w)
      <4>1. CASE Leave(w)
        BY <1>1, <4>1 DEF Leave, CaredFor, SetTimerQueued
      <4>2. CASE ClientStep(w) /\ ~Leave(w)
        <5>1. conn'[w] # "done"
          BY <4>2 DEF ClientStep, Connect, ReadFrame, TypeOK
        <5> QED BY <5>1 DEF CaredFor
      <4> QED BY <3>1, <4>1, <4>2
    <3> QED BY <1>1, <1>3, <3>1, CaredConn, CaredTimer, CaredRecv
  <2> QED BY <1>1, <2>1, <2>2, CaredFrame
<1>4. ASSUME ReaderSend PROVE All'
  <2>1. Head(down) \in Down
    BY <1>4, TakeInSeq DEF ReaderSend, TypeOK
  <2>2. PICK w \in Conns : w = Head(down).to
    BY <2>1 DEF Down
  <2>3. Head(down).m \in Item /\ chan[w] \in Seq(Item)
    BY <2>1 DEF Down, Item, TypeOK
  <2>4. Others(w)
    BY <1>4, <2>2 DEF ReaderSend, Others, TypeOK
  <2>5. chan'[w] = Append(chan[w], Head(down).m) /\ UNCHANGED <<table, conn, timer, recv>>
    BY <1>4, <2>2 DEF ReaderSend, TypeOK
  <2>6. SetTimerQueued(w) => SetTimerQueued(w)'
    BY <2>3, <2>5, AppendKeeps DEF SetTimerQueued
  <2>7. CaredFor(w)'
    BY <1>1, <2>5, <2>6 DEF CaredFor
  <2> QED BY <1>1, <2>4, <2>7, CaredFrame
<1>5. ASSUME ReaderLock \/ ReaderDrop \/ RouterReply \/ \E s \in Sessions : RouterPayload(s)
      PROVE  All'
  BY <1>2, <1>5 DEF ReaderLock, ReaderDrop, RouterReply, RouterAdd, RouterRecover, RouterRemove,
     RouterState, RouterPayload
<1>6. All'
  BY <1>2, <1>3, <1>4, <1>5 DEF Next, vars, ReaderStep
<1> QED BY <1>6 DEF NoOrphanSession, CaredFor, SetTimerQueued, TypeOK

-----------------------------------------------------------------------------
(* Where the router sends.                                                 *)

(* The WSID is in the table, or somebody is about to report its removal.   *)
Kept(w) ==
  \/ w \in table
  \/ conn[w] \in {"close", "unregister"} \/ timer[w] \in {"close", "unregister"}

RemoveAfter(k, w) == \E i \in DOMAIN up : i > k /\ up[i].op = "remove" /\ up[i].id = w

RoutedTo(w) == current[SessionOf[w]] = w

(* What NoStaleRoute says of the router's table ...                        *)
RouteKept(w) == RoutedTo(w) => Kept(w) \/ RemoveAfter(0, w)

(* ... holds for what the registrations on the way will make of it.        *)
QueueKept ==
  \A i \in DOMAIN up : up[i].op \in {"add", "recover"} =>
    Kept(up[i].id) \/ RemoveAfter(i, up[i].id)

Routes == QueueKept /\ \A w \in Conns : RouteKept(w)

LEMMA RoutesMean == ASSUME TypeOK PROVE (\A w \in Conns : RouteKept(w)) <=> NoStaleRoute
<1>1. \A i \in DOMAIN up : i > 0
  BY DEF TypeOK
<1> QED BY <1>1 DEF NoStaleRoute, RouteKept, RoutedTo, Kept, RemoveAfter

(* Every queued registration and removal is about a connection.            *)
LEMMA UpNames ==
  ASSUME TypeOK, NEW i \in DOMAIN up
  PROVE  up[i] \in Up /\ i \in Nat /\ (up[i].op \in {"add", "recover", "remove"} => up[i].id \in Conns)
<1>1. up[i] \in Up /\ i \in Nat
  BY DEF TypeOK
<1> QED BY <1>1 DEF Up

(* A removal is reported last.                                             *)
LEMMA RemovalIsLast ==
  ASSUME TypeOK, NEW w \in Conns, up' = Append(up, ToRouter("remove", w, None, TRUE)),
         NEW k, k = 0 \/ k \in DOMAIN up
  PROVE  RemoveAfter(k, w)'
<1>1. up \in Seq(Up)
  BY DEF TypeOK
<1>2. PICK m \in Up : m = ToRouter("remove", w, None, TRUE)
  BY DEF ToRouter, Up
<1>3. m.op = "remove" /\ m.id = w
  BY <1>2 DEF ToRouter
<1>4. up' = Append(up, m)
  BY <1>2
<1>5. Len(up) \in Nat /\ Len(up) + 1 \in DOMAIN up' /\ up'[Len(up) + 1] = m
  <2>1. LET t == Append(up, m) IN
        Len(up) \in Nat /\ Len(up) + 1 \in DOMAIN t /\ t[Len(up) + 1] = m
    BY <1>1, AppendKeeps
  <2> QED BY <1>4, <2>1
<1>6. Len(up) + 1 > k
  BY <1>1, <1>5
<1> QED BY <1>3, <1>5, <1>6 DEF RemoveAfter

LEMMA RemoveStays ==
  ASSUME TypeOK, NEW m \in Up, up' = up \/ up' = Append(up, m), NEW k, NEW w, RemoveAfter(k, w)
  PROVE  RemoveAfter(k, w)'
<1>1. up \in Seq(Up)
  BY DEF TypeOK
<1>2. \A i \in DOMAIN up : i \in DOMAIN up' /\ up'[i] = up[i]
  BY <1>1, AppendKeeps
<1> QED BY <1>2 DEF RemoveAfter

(* The server's own steps: a WSID that is no longer kept was reported.     *)
LEMMA RoutesGrow ==
  ASSUME TypeOK, Routes, current' = current,
         NEW m \in Up, up' = up \/ up' = Append(up, m),
         m.op \in {"add", "recover"} => Kept(m.id)',
         \A w \in Conns : Kept(w) =>
           Kept(w)' \/ up' = Append(up, ToRouter("remove", w, None, TRUE))
  PROVE  Routes'
<1>1. up \in Seq(Up)
  BY DEF TypeOK
<1>2. ASSUME NEW w \in Conns, NEW k, k = 0 \/ k \in DOMAIN up, Kept(w) \/ RemoveAfter(k, w)
      PROVE  Kept(w)' \/ RemoveAfter(k, w)'
  BY <1>2, RemovalIsLast, RemoveStays
<1>3. ASSUME NEW w \in Conns PROVE RouteKept(w)'
  <2>1. RoutedTo(w)' <=> RoutedTo(w)
    BY DEF RoutedTo
  <2>2. RouteKept(w)
    BY DEF Routes
  <2> QED BY <1>2, <2>1, <2>2 DEF RouteKept
<1>4. ASSUME NEW i \in DOMAIN up', up'[i].op \in {"add", "recover"}
      PROVE  Kept(up[i].id)' \/ RemoveAfter(i, up[i].id)'
  <2>1. CASE i \in DOMAIN up /\ up'[i] = up[i]
    <3>1. up[i].id \in Conns
      BY <1>4, <2>1, UpNames
    <3>2. Kept(up[i].id) \/ RemoveAfter(i, up[i].id)
      BY <1>4, <2>1 DEF Routes, QueueKept
    <3>3. Kept(up[i].id)' \/ RemoveAfter(i, up[i].id)'
      <4> DEFINE v == up[i].id
      <4>1. PICK x \in Conns : x = up[i].id
        BY <3>1
      <4>2. Kept(x)' \/ RemoveAfter(i, x)'
        BY <1>2, <2>1, <3>2, <4>1
      <4>3. x = (up[i].id)'
        BY <2>1, <4>1
      <4> QED BY <4>2, <4>3 DEF Kept, RemoveAfter
    <3> QED BY <3>3
  <2>2. CASE up'[i] = m
    BY <1>4, <2>2 DEF Kept
  <2>3. (i \in DOMAIN up /\ up'[i] = up[i]) \/ up'[i] = m
    BY <1>1, <1>4, AppendKeeps
  <2> QED BY <2>1, <2>2, <2>3
<1>5. QueueKept'
  BY <1>4 DEF QueueKept
<1> QED BY <1>3, <1>5 DEF Routes

(* The router handles the oldest message. It turns to a WSID only because  *)
(* that is registered, and away from one that is removed.                  *)
LEMMA RoutesPop ==
  ASSUME TypeOK, Routes, up # <<>>, up' = Tail(up), UNCHANGED <<table, conn, timer>>,
         \A w \in Conns : RoutedTo(w)' =>
           \/ RoutedTo(w) /\ ~(Head(up).op = "remove" /\ Head(up).id = w)
           \/ Head(up).op \in {"add", "recover"} /\ Head(up).id = w
  PROVE  Routes'
<1>1. up \in Seq(Up)
  BY DEF TypeOK
<1>2. 1 \in DOMAIN up /\ Head(up) = up[1]
  BY <1>1, TailKeeps
<1>3. \A w : Kept(w)' <=> Kept(w)
  BY DEF Kept
<1>4. ASSUME NEW w, NEW k \in Nat, RemoveAfter(k, w), k # 0 \/ ~(Head(up).op = "remove" /\ Head(up).id = w)
      PROVE  /\ k # 0 => RemoveAfter(k - 1, w)'
             /\ k = 0 => RemoveAfter(0, w)'
  <2>1. PICK i \in DOMAIN up : i > k /\ up[i].op = "remove" /\ up[i].id = w
    BY <1>4 DEF RemoveAfter
  <2>2. i \in Nat /\ i # 1
    BY <1>2, <1>4, <2>1, UpNames
  <2>3. i - 1 \in DOMAIN up' /\ up'[i - 1] = up[i]
    BY <1>1, <2>1, <2>2, TailKeeps
  <2>4. i - 1 > 0 /\ i - 1 > k - 1
    BY <2>1, <2>2, <1>4
  <2> QED BY <2>1, <2>3, <2>4 DEF RemoveAfter
<1>5. ASSUME NEW w \in Conns PROVE RouteKept(w)'
  <2> SUFFICES ASSUME RoutedTo(w)', ~Kept(w)' PROVE RemoveAfter(0, w)'
    BY DEF RouteKept
  <2>1. CASE RoutedTo(w) /\ ~(Head(up).op = "remove" /\ Head(up).id = w)
    <3>1. RemoveAfter(0, w)
      BY <1>3, <2>1 DEF Routes, RouteKept
    <3> QED BY <1>4, <2>1, <3>1
  <2>2. CASE Head(up).op \in {"add", "recover"} /\ Head(up).id = w
    <3>1. RemoveAfter(1, w)
      BY <1>2, <1>3, <2>2 DEF Routes, QueueKept
    <3>2. RemoveAfter(1 - 1, w)'
      BY <1>4, <3>1
    <3> QED BY <3>2
  <2> QED BY <2>1, <2>2
<1>6. ASSUME NEW i \in DOMAIN up', up'[i].op \in {"add", "recover"}
      PROVE  Kept(up[i].id)' \/ RemoveAfter(i, up[i].id)'
  <2>1. i \in Nat /\ i + 1 \in DOMAIN up /\ up'[i] = up[i + 1]
    BY <1>1, <1>6, TailKeeps
  <2>2. PICK x : x = up'[i].id
    OBVIOUS
  <2>3. Kept(x) \/ RemoveAfter(i + 1, x)
    BY <1>6, <2>1, <2>2 DEF Routes, QueueKept
  <2>4. Kept(x)' \/ RemoveAfter(i, x)'
    <3>1. i + 1 \in Nat /\ i + 1 # 0 /\ i + 1 - 1 = i
      BY <2>1
    <3>2. RemoveAfter(i + 1, x) => RemoveAfter(i + 1 - 1, x)'
      BY <1>4, <3>1
    <3> QED BY <1>3, <2>3, <3>1, <3>2
  <2> QED BY <2>2, <2>4 DEF Kept, RemoveAfter
<1>7. QueueKept'
  BY <1>6 DEF QueueKept
<1> QED BY <1>5, <1>7 DEF Routes

LEMMA KeptFrame ==
  ASSUME NEW w \in Conns, Others(w), Kept(w) => Kept(w)'
  PROVE  \A v \in Conns : Kept(v) => Kept(v)'
BY DEF Others, Kept

(* A step that sends nothing to the router.                                *)
LEMMA RoutesSilent ==
  ASSUME TypeOK, Routes, UNCHANGED <<up, current>>, \A v \in Conns : Kept(v) => Kept(v)'
  PROVE  Routes'
<1>1. PICK m : m = ToRouter("state", None, None, TRUE)
  OBVIOUS
<1>2. m \in Up /\ m.op = "state"
  BY <1>1 DEF ToRouter, Up, NoConn
<1> QED BY <1>2, RoutesGrow

(* A step that reports a removal.                                          *)
LEMMA RoutesRemoval ==
  ASSUME TypeOK, Routes, NEW w \in Conns, Others(w), current' = current, Unregister(w)
  PROVE  Routes'
<1>1. PICK m : m = ToRouter("remove", w, None, TRUE)
  OBVIOUS
<1>2. m \in Up /\ m.op = "remove"
  BY <1>1 DEF ToRouter, Up
<1>3. up' = Append(up, m)
  BY <1>1 DEF Unregister
<1>4. \A v \in Conns : Kept(v) => Kept(v)' \/ up' = Append(up, ToRouter("remove", v, None, TRUE))
  BY <1>1, <1>3 DEF Others, Kept
<1> QED BY <1>2, <1>3, <1>4, RoutesGrow

LEMMA RoutesConn ==
  ASSUME TypeOK, Routes, NEW w \in Conns, ConnStep(w)
  PROVE  Routes'
<1>1. Others(w)
  BY LocalStep
<1>2. CASE ConnUnregister(w)
  BY <1>1, <1>2, RoutesRemoval DEF ConnUnregister
<1>3. CASE Register(w)
  <2>1. PICK m : m = IF prev[w] = None THEN ToRouter("add", w, None, TRUE)
                                       ELSE ToRouter("recover", w, prev[w], TRUE)
    OBVIOUS
  <2>2. m \in Up /\ m.id = w
    BY <2>1 DEF ToRouter, Up, TypeOK, NoConn
  <2>3. up' = Append(up, m) /\ current' = current
    BY <1>3, <2>1 DEF Register
  <2>4. Kept(w)'
    BY <1>3 DEF Register, Kept
  <2>5. \A v \in Conns : Kept(v) => Kept(v)'
    BY <1>1, <2>4, KeptFrame
  <2>6. Kept(m.id)'
    BY <2>2, <2>4 DEF Kept
  <2> QED BY <2>2, <2>3, <2>5, <2>6, RoutesGrow
<1>4. CASE ConnDelete(w) \/ ConnClose(w)
  <2>1. Kept(w)'
    BY <1>4 DEF ConnDelete, AfterDelete, ConnClose, Kept, TypeOK
  <2>2. UNCHANGED <<up, current>>
    BY <1>4 DEF ConnDelete, ConnClose
  <2> QED BY <1>1, <2>1, <2>2, KeptFrame, RoutesSilent
<1>5. CASE \/ AuthOk(w) \/ AuthFail(w) \/ AwaitReply(w) \/ AwaitState(w) \/ Start(w)
           \/ Hello(w) \/ EndByTimer(w) \/ EndByRemoval(w) \/ SendComm(w)
  <2>1. conn[w] \notin {"close", "unregister"} /\ UNCHANGED <<table, timer, up, current>>
    BY <1>5 DEF AuthOk, AuthFail, AwaitReply, AwaitState, Start, Hello, EndByTimer,
       EndByRemoval, SendComm, Commands
  <2>2. Kept(w) => Kept(w)'
    BY <2>1 DEF Kept
  <2> QED BY <1>1, <2>1, <2>2, KeptFrame, RoutesSilent
<1> QED BY <1>2, <1>3, <1>4, <1>5 DEF ConnStep

LEMMA RoutesTimer ==
  ASSUME TypeOK, Routes, NEW w \in Conns, TimerStep(w)
  PROVE  Routes'
<1>1. Others(w)
  BY LocalStep
<1>2. CASE TimerUnregister(w)
  BY <1>1, <1>2, RoutesRemoval DEF TimerUnregister
<1>3. CASE TimerDelete(w) \/ TimerClose(w)
  <2>1. Kept(w)'
    BY <1>3 DEF TimerDelete, AfterDelete, TimerClose, Kept, TypeOK
  <2>2. UNCHANGED <<up, current>>
    BY <1>3 DEF TimerDelete, TimerClose
  <2> QED BY <1>1, <2>1, <2>2, KeptFrame, RoutesSilent
<1>4. CASE TimerFire(w)
  <2>1. Kept(w) => Kept(w)'
    BY <1>4 DEF TimerFire, Kept
  <2>2. UNCHANGED <<up, current>>
    BY <1>4 DEF TimerFire
  <2> QED BY <1>1, <2>1, <2>2, KeptFrame, RoutesSilent
<1> QED BY <1>2, <1>3, <1>4 DEF TimerStep

LEMMA RoutesRecv ==
  ASSUME TypeOK, Life, Routes, NEW w \in Conns, RecvStep(w)
  PROVE  Routes'
<1>1. Others(w)
  BY LocalStep
<1>2. Kept(w) => Kept(w)'
  <2>1. CASE RecvSetTimer(w)
    <3>1. timer[w] = "off"
      BY <2>1, SetTimerTaken DEF Life
    <3> QED BY <2>1, <3>1 DEF RecvSetTimer, Kept
  <2>2. CASE ~RecvSetTimer(w)
    <3>1. UNCHANGED <<table, conn, timer>>
      BY <2>2 DEF RecvStep, RecvFlush, RecvGiveState, RecvClose, RecvReplaced, RecvPayload,
         RecvIgnored, RecvClosed
    <3> QED BY <3>1 DEF Kept
  <2> QED BY <2>1, <2>2
<1>3. current' = current
  BY DEF RecvStep, RecvFlush, RecvSetTimer, RecvGiveState, RecvClose, RecvReplaced, RecvPayload,
     RecvIgnored, RecvClosed
<1>4. CASE RecvGiveState(w)
  <2>1. Head(chan[w]) \in Item
    BY <1>4, TakeInSeq DEF RecvGiveState, RecvTake, TypeOK
  <2>2. PICK m : m = ToRouter("state", w, Head(chan[w]).who, TRUE)
    OBVIOUS
  <2>3. m \in Up /\ m.op = "state"
    BY <2>1, <2>2 DEF ToRouter, Up, Item, NoConn
  <2>4. up' = Append(up, m)
    BY <1>4, <2>2 DEF RecvGiveState
  <2> QED BY <1>1, <1>2, <1>3, <2>3, <2>4, KeptFrame, RoutesGrow
<1>5. CASE ~RecvGiveState(w)
  <2>1. up' = up
    BY <1>5 DEF RecvStep, RecvFlush, RecvSetTimer, RecvClose, RecvReplaced, RecvPayload,
       RecvIgnored, RecvClosed
  <2> QED BY <1>1, <1>2, <1>3, <2>1, KeptFrame, RoutesSilent
<1> QED BY <1>4, <1>5

LEMMA RoutesRouter ==
  ASSUME TypeOK, Routes, RouterReply
  PROVE  Routes'
<1>1. up \in Seq(Up) /\ up # <<>> /\ up' = Tail(up) /\ UNCHANGED <<table, conn, timer>>
  BY DEF RouterReply, RouterAdd, RouterRecover, RouterRemove, RouterState, TypeOK
<1>2. Head(up) \in Up
  BY <1>1, TakeInSeq
<1>3. CASE RouterAdd \/ RouterRecover
  <2> DEFINE r == Head(up).id
  <2>1. r \in Conns /\ SessionOf[r] \in Sessions /\ Head(up).op \in {"add", "recover"}
    BY <1>2, <1>3, ConstantsAssumption DEF RouterAdd, RouterRecover, Up
  <2>2. current' = current \/ current' = [current EXCEPT ![SessionOf[r]] = r]
    BY <1>3 DEF RouterAdd, RouterRecover
  <2>3. ASSUME NEW w \in Conns, RoutedTo(w)' PROVE RoutedTo(w) \/ r = w
    <3>1. SessionOf[w] \in Sessions /\ current \in [Sessions -> NoConn]
      BY ConstantsAssumption DEF TypeOK
    <3>2. current'[SessionOf[w]] = current[SessionOf[w]] \/ current'[SessionOf[w]] = r
      BY <2>1, <2>2, <3>1
    <3> QED BY <2>3, <3>2 DEF RoutedTo
  <2> QED BY <1>1, <2>1, <2>3, RoutesPop
<1>4. CASE RouterRemove
  <2> DEFINE r == Head(up).id
  <2>1. r \in Conns /\ SessionOf[r] \in Sessions /\ Head(up).op = "remove"
    BY <1>2, <1>4, ConstantsAssumption DEF RouterRemove, Up
  <2>2. current' = [current EXCEPT ![SessionOf[r]] = IF @ = r THEN None ELSE @]
    BY <1>4 DEF RouterRemove
  <2>3. ASSUME NEW w \in Conns, RoutedTo(w)' PROVE RoutedTo(w) /\ r # w
    <3>1. CASE SessionOf[w] = SessionOf[r]
      BY <2>1, <2>2, <2>3, <3>1, ConstantsAssumption DEF RoutedTo, TypeOK
    <3>2. CASE SessionOf[w] # SessionOf[r]
      BY <2>1, <2>2, <2>3, <3>2 DEF RoutedTo, TypeOK
    <3> QED BY <3>1, <3>2
  <2> QED BY <1>1, <2>3, RoutesPop
<1>5. CASE RouterState
  <2>1. current' = current /\ Head(up).op = "state"
    BY <1>5 DEF RouterState
  <2>2. \A w \in Conns : RoutedTo(w)' => RoutedTo(w)
    BY <2>1 DEF RoutedTo
  <2> QED BY <1>1, <2>1, <2>2, RoutesPop
<1> QED BY <1>3, <1>4, <1>5 DEF RouterReply

LEMMA RoutesNext == TypeOK /\ Life /\ Routes /\ [Next]_vars => Routes'
<1> SUFFICES ASSUME TypeOK, Life, Routes, [Next]_vars PROVE Routes'
  OBVIOUS
<1>1. ASSUME UNCHANGED <<table, conn, timer, up, current>> PROVE Routes'
  <2>1. \A v \in Conns : Kept(v) => Kept(v)'
    BY <1>1 DEF Kept
  <2> QED BY <1>1, <2>1, RoutesSilent
<1>2. ASSUME NEW w \in Conns, ClientStep(w) PROVE Routes'
  <2>1. Others(w)
    BY <1>2, LocalStep
  <2>2. conn[w] \notin {"close", "unregister"} \/ conn'[w] = conn[w]
    BY <1>2 DEF ClientStep, Connect, Leave, ReadFrame
  <2>3. UNCHANGED <<table, timer, up, current>>
    BY <1>2 DEF ClientStep, Connect, Leave, ReadFrame
  <2>4. Kept(w) => Kept(w)'
    BY <2>2, <2>3 DEF Kept
  <2> QED BY <2>1, <2>3, <2>4, KeptFrame, RoutesSilent
<1>3. CASE ReaderDrop
  <2>1. PICK m : m = ToRouter("state", None, None, FALSE)
    OBVIOUS
  <2>2. m \in Up /\ m.op = "state"
    BY <2>1 DEF ToRouter, Up, NoConn
  <2>3. (up' = up \/ up' = Append(up, m)) /\ UNCHANGED <<table, conn, timer, current>>
    BY <1>3, <2>1 DEF ReaderDrop
  <2>4. \A v \in Conns : Kept(v) => Kept(v)'
    BY <2>3 DEF Kept
  <2> QED BY <2>2, <2>3, <2>4, RoutesGrow
<1>4. CASE ReaderLock \/ ReaderSend \/ \E s \in Sessions : RouterPayload(s)
  BY <1>1, <1>4 DEF ReaderLock, ReaderSend, RouterPayload
<1>5. CASE UNCHANGED vars
  BY <1>1, <1>5 DEF vars
<1> QED BY <1>2, <1>3, <1>4, <1>5, RoutesConn, RoutesTimer, RoutesRecv, RoutesRouter
        DEF Next, ReaderStep

-----------------------------------------------------------------------------
(* Recovered sessions.                                                     *)

(* The receiver of p has closed its websocket or is about to.              *)
Ended(p) == recv[p] # "none" /\ (ws[p] = "closed" \/ recv[p] = "answered")

(* What travels about a recovery: the WSID that a client presented is the  *)
(* one that is asked, and a state that is given comes from that WSID after *)
(* it has ended.                                                           *)
GoodUp == {m \in Up :
  /\ m.op = "recover" => prev[m.id] = m.who
  /\ m.op = "state" /\ m.ok /\ m.who # None =>
       m.id # None /\ prev[m.who] = m.id /\ Ended(m.id)}

GoodItem(w) == {m \in Item :
  /\ m.op = "giveState" => m.who # None /\ prev[m.who] = w
  /\ m.op = "prevState" /\ m.ok => prev[w] # None /\ Ended(prev[w])}

GoodDown == {d \in Down : d.m \in GoodItem(d.to)}

Recovery ==
  /\ \A w \in Conns : conn[w] \in {"off", "auth"} => prev[w] = None
  /\ up \in Seq(GoodUp)
  /\ down \in Seq(GoodDown)
  /\ \A w \in Conns : chan[w] \in Seq(GoodItem(w))
  /\ RecoveredFromEndingPredecessor

(* A WSID that was presented stays so, and what has ended stays ended.     *)
Settled ==
  /\ \A w \in Conns : prev[w] # None => prev'[w] = prev[w]
  /\ \A w \in Conns : Ended(w) => Ended(w)'

LEMMA GoodGrows ==
  ASSUME TypeOK, Settled
  PROVE  /\ GoodUp \subseteq GoodUp' /\ GoodDown \subseteq GoodDown'
         /\ \A w \in Conns : GoodItem(w) \subseteq GoodItem(w)'
<1>1. \A w \in Conns : prev[w] \in NoConn
  BY DEF TypeOK
<1>2. ASSUME NEW m \in GoodUp PROVE m \in GoodUp'
  <2>1. m \in Up /\ (m.op = "recover" => prev[m.id] = m.who)
        /\ (m.op = "state" /\ m.ok /\ m.who # None => m.id # None /\ prev[m.who] = m.id /\ Ended(m.id))
    BY <1>2 DEF GoodUp
  <2>2. m.op = "recover" => m.id \in Conns /\ m.who # None
    BY <2>1, ConstantsAssumption DEF Up
  <2>3. m.op = "recover" => prev'[m.id] = m.who
    BY <2>1, <2>2 DEF Settled
  <2>4. m.op = "state" /\ m.ok /\ m.who # None => m.who \in Conns /\ m.id \in Conns
    BY <2>1 DEF Up, NoConn
  <2>5. m.op = "state" /\ m.ok /\ m.who # None => prev'[m.who] = m.id /\ Ended(m.id)'
    BY <2>1, <2>4 DEF Settled, Ended
  <2> QED BY <2>1, <2>3, <2>5 DEF GoodUp, Ended
<1>3. ASSUME NEW w \in Conns, NEW m \in GoodItem(w) PROVE m \in GoodItem(w)'
  <2>1. m \in Item /\ (m.op = "giveState" => m.who # None /\ prev[m.who] = w)
        /\ (m.op = "prevState" /\ m.ok => prev[w] # None /\ Ended(prev[w]))
    BY <1>3 DEF GoodItem
  <2>2. m.op = "giveState" => prev'[m.who] = w
    <3>1. m.who # None => m.who \in Conns
      BY <2>1 DEF Item, NoConn
    <3> QED BY <2>1, <3>1, ConstantsAssumption DEF Settled
  <2>3. m.op = "prevState" /\ m.ok => prev'[w] # None /\ Ended(prev[w])'
    <3>1. ASSUME prev[w] # None, Ended(prev[w])
          PROVE  prev'[w] = prev[w] /\ Ended(prev[w])'
      <4>1. PICK x \in Conns : x = prev[w]
        BY <1>1, <3>1 DEF NoConn
      <4>2. Ended(x)' /\ prev'[w] = x
        BY <3>1, <4>1 DEF Settled
      <4> QED BY <4>1, <4>2 DEF Ended
    <3> QED BY <2>1, <3>1
  <2> QED BY <2>1, <2>2, <2>3 DEF GoodItem, Ended
<1>4. ASSUME NEW d \in GoodDown PROVE d \in GoodDown'
  <2>1. d \in Down /\ d.m \in GoodItem(d.to) /\ d.to \in Conns
    BY <1>4 DEF GoodDown, Down
  <2>2. d.m \in GoodItem(d.to)'
    <3>1. PICK x \in Conns : x = d.to
      BY <2>1
    <3> QED BY <1>3, <2>1, <3>1
  <2> QED BY <2>1, <2>2 DEF GoodDown
<1> QED BY <1>2, <1>3, <1>4

(* A step that sends and takes only good messages keeps the invariant.     *)
LEMMA RecoveryGrows ==
  ASSUME TypeOK, Recovery, Settled,
         \A w \in Conns : conn'[w] \in {"off", "auth"} => prev'[w] = None,
         up \in Seq(GoodUp') => up' \in Seq(GoodUp'),
         down \in Seq(GoodDown') => down' \in Seq(GoodDown'),
         \A w \in Conns : chan[w] \in Seq(GoodItem(w)') => chan'[w] \in Seq(GoodItem(w)'),
         \A w \in Conns : ~refresh'[w] => ~refresh[w] \/ (prev[w] # None /\ Ended(prev[w]))
  PROVE  Recovery'
<1>1. up' \in Seq(GoodUp')
  BY GoodGrows, SeqGrows DEF Recovery
<1>2. down' \in Seq(GoodDown')
  BY GoodGrows, SeqGrows DEF Recovery
<1>3. \A w \in Conns : chan'[w] \in Seq(GoodItem(w)')
  BY GoodGrows, SeqGrows DEF Recovery
<1>4. ASSUME NEW w \in Conns, ~refresh'[w]
      PROVE  prev'[w] # None /\ Ended(prev[w])' /\ prev'[w] = prev[w]
  <2>1. prev[w] # None /\ Ended(prev[w])
    BY <1>4 DEF Recovery, RecoveredFromEndingPredecessor, Ended
  <2>2. prev[w] \in Conns
    BY <2>1 DEF TypeOK, NoConn
  <2>3. prev'[w] = prev[w] /\ Ended(prev[w])'
    <3>1. PICK x \in Conns : x = prev[w]
      BY <2>2
    <3>2. prev'[w] = x /\ Ended(x)'
      BY <2>1, <3>1 DEF Settled
    <3> QED BY <2>1, <3>1, <3>2 DEF Settled, Ended
  <2> QED BY <2>1, <2>3
<1>5. RecoveredFromEndingPredecessor'
  BY <1>4 DEF RecoveredFromEndingPredecessor, Ended
<1> QED BY <1>1, <1>2, <1>3, <1>5 DEF Recovery

(* Nothing is sent but, perhaps, by w, and perhaps w takes a message.      *)
LEMMA RecoveryLocal ==
  ASSUME TypeOK, Life, Recovery, NEW w \in Conns, Others(w),
         \A v \in Conns \ {w} : ws'[v] = ws[v] /\ prev'[v] = prev[v] /\ refresh'[v] = refresh[v],
         prev'[w] = prev[w] \/ prev[w] = None,
         conn'[w] \in {"off", "auth"} => prev'[w] = None,
         Ended(w) => Ended(w)',
         down' = down,
         up \in Seq(GoodUp') => up' \in Seq(GoodUp'),
         chan[w] \in Seq(GoodItem(w)') => chan'[w] \in Seq(GoodItem(w)'),
         ~refresh'[w] => ~refresh[w] \/ (prev[w] # None /\ Ended(prev[w]))
  PROVE  Recovery'
<1>1. Settled
  BY DEF Settled, Others, Ended
<1>2. \A v \in Conns : conn'[v] \in {"off", "auth"} => prev'[v] = None
  BY DEF Others, Recovery
<1>3. \A v \in Conns : chan[v] \in Seq(GoodItem(v)') => chan'[v] \in Seq(GoodItem(v)')
  BY DEF Others
<1>4. \A v \in Conns : ~refresh'[v] => ~refresh[v] \/ (prev[v] # None /\ Ended(prev[v]))
  OBVIOUS
<1> QED BY <1>1, <1>2, <1>3, <1>4, RecoveryGrows

LEMMA RecoveryClient ==
  ASSUME TypeOK, Life, Recovery, NEW w \in Conns, ClientStep(w)
  PROVE  Recovery'
<1>1. Others(w)
  BY LocalStep
<1>2. /\ UNCHANGED <<prev, refresh, down, up, chan, recv>>
      /\ \A v \in Conns \ {w} : ws'[v] = ws[v]
  BY DEF ClientStep, Connect, Leave, ReadFrame, TypeOK
<1>3. Ended(w) => Ended(w)'
  <2>1. Connect(w) => recv[w] = "none"
    BY DEF Connect, Life, Unborn
  <2> QED BY <2>1 DEF ClientStep, Connect, Leave, ReadFrame, Ended
<1>4. conn'[w] \in {"off", "auth"} => prev'[w] = None
  <2>1. conn[w] \in {"off", "auth"} \/ conn'[w] \notin {"off", "auth"}
    BY DEF ClientStep, Connect, Leave, ReadFrame, TypeOK
  <2> QED BY <1>2, <2>1 DEF Recovery
<1> QED BY <1>1, <1>2, <1>3, <1>4, RecoveryLocal

LEMMA RecoveryTimer ==
  ASSUME TypeOK, Life, Recovery, NEW w \in Conns, TimerStep(w)
  PROVE  Recovery'
<1>1. Others(w)
  BY LocalStep
<1>2. UNCHANGED <<ws, conn, prev, refresh, down, chan, recv>>
  BY DEF TimerStep, TimerFire, TimerDelete, TimerClose, TimerUnregister
<1>3. up \in Seq(GoodUp') => up' \in Seq(GoodUp')
  <2>1. PICK m : m = ToRouter("remove", w, None, TRUE)
    OBVIOUS
  <2>2. m \in GoodUp'
    BY <2>1 DEF ToRouter, Up, GoodUp
  <2>3. up' = up \/ up' = Append(up, m)
    BY <2>1 DEF TimerStep, TimerFire, TimerDelete, TimerClose, TimerUnregister, Unregister
  <2> QED BY <2>2, <2>3, AppendInSeq
<1>4. (Ended(w) => Ended(w)') /\ (conn'[w] \in {"off", "auth"} => prev'[w] = None)
  BY <1>2 DEF Ended, Recovery
<1> QED BY <1>1, <1>2, <1>3, <1>4, RecoveryLocal

LEMMA RecoveryConn ==
  ASSUME TypeOK, Life, Recovery, NEW w \in Conns, ConnStep(w)
  PROVE  Recovery'
<1>1. Others(w)
  BY LocalStep
<1>2. CASE AuthOk(w)
  <2>1. /\ UNCHANGED <<ws, refresh, down, up, chan, recv>>
        /\ \A v \in Conns \ {w} : prev'[v] = prev[v]
        /\ prev[w] = None /\ conn'[w] = "register"
    BY <1>2 DEF AuthOk, TypeOK, Recovery
  <2>2. Ended(w) => Ended(w)'
    BY <2>1 DEF Ended
  <2> QED BY <1>1, <2>1, <2>2, RecoveryLocal
<1>3. CASE Register(w) \/ ConnUnregister(w)
  <2>1. PICK m : m = IF conn[w] = "unregister" THEN ToRouter("remove", w, None, TRUE)
                     ELSE IF prev[w] = None THEN ToRouter("add", w, None, TRUE)
                     ELSE ToRouter("recover", w, prev[w], TRUE)
    OBVIOUS
  <2>2. UNCHANGED <<prev, refresh, down, chan, recv>>
    BY <1>3 DEF Register, ConnUnregister
  <2>3. m \in GoodUp'
    <3>1. m \in Up /\ (m.op = "recover" => m.id = w /\ m.who = prev[w]) /\ m.op # "state"
      BY <2>1 DEF ToRouter, Up, TypeOK, NoConn
    <3> QED BY <2>2, <3>1 DEF GoodUp
  <2>4. up' = Append(up, m)
    BY <1>3, <2>1 DEF Register, ConnUnregister, Unregister
  <2>5. up \in Seq(GoodUp') => up' \in Seq(GoodUp')
    BY <2>3, <2>4, AppendInSeq
  <2>6. /\ \A v \in Conns \ {w} : ws'[v] = ws[v]
        /\ ws[w] = "closed" => ws'[w] = "closed"
        /\ conn'[w] \notin {"off", "auth"}
    BY <1>3 DEF Register, ConnUnregister, TypeOK
  <2>7. Ended(w) => Ended(w)'
    BY <2>2, <2>6 DEF Ended
  <2> QED BY <1>1, <2>2, <2>5, <2>6, <2>7, RecoveryLocal
<1>4. CASE AwaitReply(w) \/ AwaitState(w)
  <2>1. /\ UNCHANGED <<ws, prev, down, up, recv>>
        /\ chan[w] # <<>> /\ chan'[w] = Tail(chan[w])
        /\ \A v \in Conns \ {w} : refresh'[v] = refresh[v]
        /\ conn'[w] \notin {"off", "auth"}
    BY <1>4 DEF AwaitReply, AwaitState, SetupTake, SetupGo, TypeOK
  <2>2. chan[w] \in Seq(GoodItem(w)') => chan'[w] \in Seq(GoodItem(w)')
    BY <2>1, TakeInSeq
  <2>3. Head(chan[w]) \in GoodItem(w)
    BY <2>1, TakeInSeq DEF Recovery
  <2>4. ~refresh'[w] => ~refresh[w] \/ (prev[w] # None /\ Ended(prev[w]))
    <3>1. CASE AwaitReply(w)
      BY <3>1 DEF AwaitReply
    <3>2. CASE AwaitState(w)
      <4>1. ~refresh'[w] => Head(chan[w]).op = "prevState" /\ Head(chan[w]).ok
        BY <3>2 DEF AwaitState, TypeOK
      <4> QED BY <2>3, <4>1 DEF GoodItem
    <3> QED BY <1>4, <3>1, <3>2
  <2>5. Ended(w) => Ended(w)'
    BY <2>1 DEF Ended
  <2> QED BY <1>1, <2>1, <2>2, <2>4, <2>5, RecoveryLocal
<1>5. CASE SendComm(w)
  <2>1. /\ UNCHANGED <<prev, refresh, down, up, recv>>
        /\ \A v \in Conns \ {w} : ws'[v] = ws[v]
        /\ ws[w] = "closed" => ws'[w] = "closed"
        /\ conn'[w] \notin {"off", "auth"}
    BY <1>5 DEF SendComm, Commands, TypeOK
  <2>2. PICK m : m = ItemOf(conn[w])
    OBVIOUS
  <2>3. m \in GoodItem(w)'
    BY <1>5, <2>2 DEF SendComm, Commands, ItemOf, Item, NoConn, GoodItem
  <2>4. chan'[w] = chan[w] \/ chan'[w] = Append(chan[w], m)
    BY <1>5, <2>2 DEF SendComm, TypeOK
  <2>5. chan[w] \in Seq(GoodItem(w)') => chan'[w] \in Seq(GoodItem(w)')
    BY <2>3, <2>4, AppendInSeq
  <2>6. Ended(w) => Ended(w)'
    BY <2>1 DEF Ended
  <2> QED BY <1>1, <2>1, <2>5, <2>6, RecoveryLocal
<1>6. CASE \/ AuthFail(w) \/ Start(w) \/ Hello(w) \/ EndByTimer(w) \/ EndByRemoval(w)
           \/ ConnDelete(w) \/ ConnClose(w)
  <2>1. UNCHANGED <<prev, refresh, down, up, chan>>
    BY <1>6 DEF AuthFail, Start, Hello, EndByTimer, EndByRemoval, ConnDelete, ConnClose
  <2>2. /\ \A v \in Conns \ {w} : ws'[v] = ws[v]
        /\ ws[w] = "closed" => ws'[w] = "closed"
        /\ conn'[w] \notin {"off", "auth"}
        /\ recv'[w] = recv[w] \/ (Start(w) /\ recv'[w] = "run")
    BY <1>6 DEF AuthFail, Start, Hello, EndByTimer, EndByRemoval, ConnDelete, AfterDelete,
       ConnClose, TypeOK
  <2>4. Start(w) => recv[w] = "none"
    BY DEF Start, Life, Goroutines, SettingUp
  <2>3. Ended(w) => Ended(w)'
    BY <2>2, <2>4 DEF Ended
  <2> QED BY <1>1, <2>1, <2>2, <2>3, RecoveryLocal
<1> QED BY <1>2, <1>3, <1>4, <1>5, <1>6 DEF ConnStep

LEMMA RecoveryRecv ==
  ASSUME TypeOK, Life, Recovery, NEW w \in Conns, RecvStep(w)
  PROVE  Recovery'
<1>1. Others(w)
  BY LocalStep
<1>2. UNCHANGED <<conn, prev, refresh, down>>
  BY DEF RecvStep, RecvFlush, RecvSetTimer, RecvGiveState, RecvClose, RecvReplaced, RecvPayload,
     RecvIgnored, RecvClosed
<1>3. /\ \A v \in Conns \ {w} : ws'[v] = ws[v]
      /\ ws[w] = "closed" => ws'[w] = "closed"
      /\ recv'[w] # "none"
      /\ recv[w] = "answered" => ws'[w] = "closed"
  BY DEF RecvStep, RecvFlush, RecvSetTimer, RecvGiveState, RecvClose, RecvReplaced, RecvPayload,
     RecvIgnored, RecvClosed, RecvTake, TypeOK
<1>4. Ended(w) => Ended(w)'
  BY <1>3 DEF Ended
<1>5. chan'[w] = chan[w] \/ (chan[w] # <<>> /\ chan'[w] = Tail(chan[w]))
  BY DEF RecvStep, RecvFlush, RecvSetTimer, RecvGiveState, RecvClose, RecvReplaced, RecvPayload,
     RecvIgnored, RecvClosed, RecvTake, TypeOK
<1>6. chan[w] \in Seq(GoodItem(w)') => chan'[w] \in Seq(GoodItem(w)')
  BY <1>5, TakeInSeq
<1>7. conn'[w] \in {"off", "auth"} => prev'[w] = None
  BY <1>2 DEF Recovery
<1>8. up \in Seq(GoodUp') => up' \in Seq(GoodUp')
  <2>1. CASE RecvGiveState(w)
    <3>1. Head(chan[w]) \in GoodItem(w) /\ Head(chan[w]).op = "giveState"
      BY <2>1, TakeInSeq DEF RecvGiveState, RecvTake, Recovery
    <3>2. PICK x : x = Head(chan[w]).who
      OBVIOUS
    <3>3. x \in Conns /\ prev[x] = w
      BY <3>1, <3>2 DEF GoodItem, Item, NoConn
    <3>4. PICK m : m = ToRouter("state", w, x, TRUE)
      OBVIOUS
    <3>5. m \in Up /\ m.op = "state" /\ m.id = w /\ m.who = x
      BY <3>3, <3>4 DEF ToRouter, Up, NoConn
    <3>6. recv'[w] = "answered"
      BY <2>1 DEF RecvGiveState, RecvTake, TypeOK
    <3>7. m \in GoodUp'
      <4>1. prev'[x] = w /\ Ended(w)' /\ w # None
        BY <1>2, <3>3, <3>6, ConstantsAssumption DEF Ended
      <4> QED BY <3>5, <4>1 DEF GoodUp, Ended
    <3>8. up' = Append(up, m)
      BY <2>1, <3>2, <3>4 DEF RecvGiveState
    <3> QED BY <3>7, <3>8, AppendInSeq
  <2>2. CASE ~RecvGiveState(w)
    <3>1. up' = up
      BY <2>2 DEF RecvStep, RecvFlush, RecvSetTimer, RecvClose, RecvReplaced, RecvPayload,
         RecvIgnored, RecvClosed
    <3> QED BY <3>1
  <2> QED BY <2>1, <2>2
<1> QED BY <1>1, <1>2, <1>3, <1>4, <1>6, <1>7, <1>8, RecoveryLocal

(* Steps of the reader and of the router leave the connections alone.      *)
LEMMA RecoveryQueues ==
  ASSUME TypeOK, Recovery, UNCHANGED <<ws, conn, recv, prev, refresh>>,
         up \in Seq(GoodUp') => up' \in Seq(GoodUp'),
         down \in Seq(GoodDown') => down' \in Seq(GoodDown'),
         \A w \in Conns : chan[w] \in Seq(GoodItem(w)') => chan'[w] \in Seq(GoodItem(w)')
  PROVE  Recovery'
<1>1. Settled
  BY DEF Settled, Ended
<1>2. \A w \in Conns : conn'[w] \in {"off", "auth"} => prev'[w] = None
  BY DEF Recovery
<1> QED BY <1>1, <1>2, RecoveryGrows

LEMMA RecoveryReader ==
  ASSUME TypeOK, Recovery, ReaderStep
  PROVE  Recovery'
<1>1. UNCHANGED <<ws, conn, recv, prev, refresh>>
  BY DEF ReaderStep, ReaderLock, ReaderSend, ReaderDrop
<1>2. down' = down \/ (down # <<>> /\ down' = Tail(down))
  BY DEF ReaderStep, ReaderLock, ReaderSend, ReaderDrop, TypeOK
<1>3. down \in Seq(GoodDown') => down' \in Seq(GoodDown')
  BY <1>2, TakeInSeq
<1>4. up \in Seq(GoodUp') => up' \in Seq(GoodUp')
  <2>1. PICK m : m = ToRouter("state", None, None, FALSE)
    OBVIOUS
  <2>2. m \in GoodUp'
    BY <2>1 DEF ToRouter, Up, NoConn, GoodUp
  <2>3. up' = up \/ up' = Append(up, m)
    BY <2>1 DEF ReaderStep, ReaderLock, ReaderSend, ReaderDrop
  <2> QED BY <2>2, <2>3, AppendInSeq
<1>5. ASSUME NEW w \in Conns, chan[w] \in Seq(GoodItem(w)') PROVE chan'[w] \in Seq(GoodItem(w)')
  <2>1. CASE ReaderSend /\ Head(down).to = w
    <3>1. Head(down) \in GoodDown
      BY <2>1, TakeInSeq DEF ReaderSend, Recovery, TypeOK
    <3>2. PICK m : m = Head(down).m
      OBVIOUS
    <3>3. m \in GoodItem(w)
      BY <2>1, <3>1, <3>2 DEF GoodDown
    <3>4. m \in GoodItem(w)'
      BY <1>1, <3>3 DEF GoodItem, Ended
    <3>5. chan'[w] = Append(chan[w], m)
      BY <2>1, <3>2 DEF ReaderSend, TypeOK
    <3> QED BY <1>5, <3>4, <3>5, AppendInSeq
  <2>2. CASE ~(ReaderSend /\ Head(down).to = w)
    <3>1. chan'[w] = chan[w]
      BY <2>2 DEF ReaderStep, ReaderLock, ReaderSend, ReaderDrop, TypeOK
    <3> QED BY <1>5, <3>1
  <2> QED BY <2>1, <2>2
<1> QED BY <1>1, <1>3, <1>4, <1>5, RecoveryQueues

(* Messages of the router that are not about a recovery are good.          *)
LEMMA PlainDown ==
  ASSUME TypeOK, NEW c \in NoConn, NEW w \in Conns, NEW op \in RouterOps, NEW ok \in BOOLEAN,
         op # "giveState", op # "prevState"
  PROVE  Replace(c) \in Seq(GoodDown') /\ To(w, op, ok, None) \in GoodDown'
<1>1. To(w, op, ok, None) \in GoodDown'
  <2>1. To(w, op, ok, None) \in Down /\ To(w, op, ok, None).m.op = op
    BY RouterBatch DEF To, NoConn
  <2>2. To(w, op, ok, None).m \in Item
    BY DEF To, Item, NoConn
  <2>3. To(w, op, ok, None).m \in GoodItem(To(w, op, ok, None).to)'
    BY <2>1, <2>2 DEF GoodItem
  <2> QED BY <2>1, <2>3 DEF GoodDown
<1>2. CASE c = None
  <2>1. Replace(c) = <<>>
    BY <1>2 DEF Replace
  <2> QED BY <1>1, <2>1
<1>3. CASE c # None
  <2>1. PICK d : d = To(c, "replaced", TRUE, None)
    OBVIOUS
  <2>2. d \in Down /\ d.m \in Item /\ d.m.op = "replaced"
    BY <1>3, <2>1 DEF To, Down, Item, RouterOps, NoConn
  <2>3. d \in GoodDown'
    BY <2>2 DEF GoodDown, GoodItem
  <2>4. Replace(c) = <<d>>
    BY <1>3, <2>1 DEF Replace
  <2> QED BY <1>1, <2>3, <2>4, BatchInSeq
<1> QED BY <1>2, <1>3

LEMMA RecoveryRouter ==
  ASSUME TypeOK, Recovery, RouterReply \/ \E s \in Sessions : RouterPayload(s)
  PROVE  Recovery'
<1>1. UNCHANGED <<ws, conn, recv, prev, refresh, chan>>
  BY DEF RouterReply, RouterAdd, RouterRecover, RouterRemove, RouterState, RouterPayload
<1>2. up' = up \/ (up # <<>> /\ up' = Tail(up))
  BY DEF RouterReply, RouterAdd, RouterRecover, RouterRemove, RouterState, RouterPayload
<1>3. up \in Seq(GoodUp') => up' \in Seq(GoodUp')
  BY <1>2, TakeInSeq
<1>4. up # <<>> => Head(up) \in GoodUp /\ Head(up) \in Up
  <2>1. up # <<>> => Head(up) \in GoodUp
    BY TakeInSeq DEF Recovery
  <2> QED BY <2>1 DEF GoodUp
<1> SUFFICES ASSUME down \in Seq(GoodDown') PROVE down' \in Seq(GoodDown')
  BY <1>1, <1>3, RecoveryQueues
<1>5. CASE RouterAdd
  <2>1. PICK w \in Conns : w = Head(up).id
    BY <1>4, <1>5 DEF RouterAdd, Up
  <2>2. PICK c \in NoConn : c = current[SessionOf[w]]
    BY ConstantsAssumption DEF TypeOK
  <2>3. PICK a, b : a = To(w, "add", TRUE, None) /\ b = To(w, "add", FALSE, None)
    OBVIOUS
  <2>4. Replace(c) \in Seq(GoodDown') /\ a \in GoodDown' /\ b \in GoodDown'
    BY <2>3, PlainDown DEF RouterOps
  <2>5. down' = down \o (Replace(c) \o <<a>>) \/ down' = Append(down, b)
    BY <1>5, <2>1, <2>2, <2>3 DEF RouterAdd
  <2>6. Replace(c) \o <<a>> \in Seq(GoodDown')
    BY <2>4, BatchInSeq, ConcatInSeq
  <2> QED BY <2>4, <2>5, <2>6, ConcatInSeq, AppendInSeq
<1>6. CASE RouterRecover
  <2>1. PICK w \in Conns : w = Head(up).id
    BY <1>4, <1>6 DEF RouterRecover, Up
  <2>2. PICK p \in Conns : p = Head(up).who
    BY <1>4, <1>6 DEF RouterRecover, Up
  <2>3. PICK c \in NoConn : c = current[SessionOf[w]]
    BY ConstantsAssumption DEF TypeOK
  <2>4. prev[w] = p
    BY <1>4, <1>6, <2>1, <2>2 DEF RouterRecover, GoodUp
  <2>5. PICK a, b, g : /\ a = To(w, "recover", TRUE, None) /\ b = To(w, "recover", FALSE, None)
                       /\ g = To(p, "giveState", TRUE, w)
    OBVIOUS
  <2>6. Replace(c) \in Seq(GoodDown') /\ a \in GoodDown' /\ b \in GoodDown'
    BY <2>5, PlainDown DEF RouterOps
  <2>7. g \in GoodDown'
    <3>1. g \in Down /\ g.m \in Item /\ g.m.op = "giveState" /\ g.m.who = w /\ g.to = p
      BY <2>5 DEF To, Down, Item, RouterOps, NoConn
    <3>2. w # None /\ prev'[w] = p
      BY <1>1, <2>4, ConstantsAssumption
    <3> QED BY <3>1, <3>2 DEF GoodDown, GoodItem
  <2>8. down' = down \o <<a, g>> \/ down' = down \o (Replace(c) \o <<b>>)
    BY <1>6, <2>1, <2>2, <2>3, <2>5 DEF RouterRecover
  <2>9. <<a, g>> \in Seq(GoodDown') /\ Replace(c) \o <<b>> \in Seq(GoodDown')
    BY <2>6, <2>7, BatchInSeq, ConcatInSeq
  <2> QED BY <2>8, <2>9, ConcatInSeq
<1>7. CASE RouterRemove
  BY <1>7 DEF RouterRemove
<1>8. CASE RouterState
  <2>1. CASE Head(up).who = None
    BY <1>8, <2>1 DEF RouterState
  <2>2. CASE Head(up).who # None
    <3>1. PICK m : m = Head(up)
      OBVIOUS
    <3>2. m \in GoodUp /\ m \in Up /\ m.op = "state" /\ m.who # None
      BY <1>4, <1>8, <2>2, <3>1 DEF RouterState
    <3>3. m.who \in Conns /\ m.id \in NoConn /\ m.ok \in BOOLEAN
      BY <3>2 DEF Up, NoConn
    <3>4. m.ok => m.id # None /\ prev[m.who] = m.id /\ Ended(m.id)
      BY <3>2 DEF GoodUp
    <3>5. PICK d : d = To(m.who, "prevState", m.ok, m.id)
      OBVIOUS
    <3>6. d \in Down /\ d.m \in Item /\ d.m.op = "prevState" /\ d.m.ok = m.ok /\ d.to = m.who
      BY <3>3, <3>5 DEF To, Down, Item, RouterOps
    <3>7. d \in GoodDown'
      <4>1. m.ok => (prev[m.who] # None /\ Ended(prev[m.who]))'
        BY <1>1, <3>4 DEF Ended
      <4> QED BY <1>1, <3>6, <4>1 DEF GoodDown, GoodItem, Ended
    <3>8. down' = Append(down, d)
      BY <1>8, <3>1, <3>2, <3>5 DEF RouterState
    <3> QED BY <3>7, <3>8, AppendInSeq
  <2> QED BY <2>1, <2>2
<1>9. ASSUME NEW s \in Sessions, RouterPayload(s) PROVE down' \in Seq(GoodDown')
  <2>1. PICK c \in Conns : c = current[s]
    BY <1>9 DEF RouterPayload, TypeOK, NoConn
  <2>2. PICK d : d = To(c, "payload", TRUE, None)
    OBVIOUS
  <2>3. d \in GoodDown'
    BY <2>2, PlainDown DEF RouterOps, NoConn
  <2>4. down' = Append(down, d)
    BY <1>9, <2>1, <2>2 DEF RouterPayload
  <2> QED BY <2>3, <2>4, AppendInSeq
<1> QED BY <1>5, <1>6, <1>7, <1>8, <1>9 DEF RouterReply

LEMMA RecoveryNext == TypeOK /\ Life /\ Recovery /\ [Next]_vars => Recovery'
<1> SUFFICES ASSUME TypeOK, Life, Recovery, [Next]_vars PROVE Recovery'
  OBVIOUS
<1>1. CASE UNCHANGED vars
  BY <1>1, RecoveryQueues DEF vars
<1> QED BY <1>1, RecoveryClient, RecoveryConn, RecoveryTimer, RecoveryRecv, RecoveryReader,
        RecoveryRouter DEF Next

-----------------------------------------------------------------------------
LEMMA RouteInit == Init => NoOrphanSession /\ Routes /\ Recovery
<1> SUFFICES ASSUME Init PROVE NoOrphanSession /\ Routes /\ Recovery
  OBVIOUS
<1>1. NoOrphanSession
  BY DEF Init, NoOrphanSession
<1>2. Routes
  <2>1. \A w \in Conns : ~RoutedTo(w)
    BY ConstantsAssumption DEF Init, RoutedTo
  <2>2. QueueKept
    BY DEF Init, QueueKept
  <2> QED BY <2>1, <2>2 DEF Routes, RouteKept
<1>3. Recovery
  BY DEF Init, Recovery, RecoveredFromEndingPredecessor
<1> QED BY <1>1, <1>2, <1>3

(* When ClientSocket has returned, somebody will remove its WSID from the  *)
(* table, unless the receiver ended early.                                 *)
THEOREM NoOrphanCorrect == Spec => []NoOrphanSession
<1>1. IInv => TypeOK /\ Life
  BY DEF IInv
<1> QED BY <1>1, RouteInit, OrphanNext, Inductive, PTL DEF Spec

(* The router is never left with the WSID of a connection whose removal    *)
(* was reported to it.                                                     *)
THEOREM NoStaleRouteCorrect == Spec => []NoStaleRoute
<1>1. IInv => TypeOK /\ Life
  BY DEF IInv
<1>2. TypeOK /\ Routes => NoStaleRoute
  BY RoutesMean DEF Routes
<1> QED BY <1>1, <1>2, RouteInit, RoutesNext, Inductive, PTL DEF Spec

(* A client is told Refresh = false only when the receiver of the          *)
(* connection it had before has given away its state, and has closed its   *)
(* websocket or is about to.                                               *)
THEOREM RecoveredCorrect == Spec => []RecoveredFromEndingPredecessor
<1>1. IInv => TypeOK /\ Life
  BY DEF IInv
<1>2. Recovery => RecoveredFromEndingPredecessor
  BY DEF Recovery
<1> QED BY <1>1, <1>2, RouteInit, RecoveryNext, Inductive, PTL DEF Spec
==============================================================================
