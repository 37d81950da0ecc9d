------------------------------ MODULE WsSession ------------------------------
(***************************************************************************)
(* The life of websocket sessions in package socket: one ClientSocket      *)
(* goroutine, one msg_chan_recv goroutine and at most one removal timer    *)
(* per connection, the sharded table from WSIDs to bounded channels, and   *)
(* the single goroutine that reads the router's TCP stream and sends into  *)
(* those channels while it holds a shard's read lock.                      *)
(*                                                                         *)
(* A connection and the WSID it is given are the same element of Conns.    *)
(* What a payload (op 100) contains, the gate and the message queue are    *)
(* the subject of module MsgDelivery; here a payload or a FLUSH may write  *)
(* to the websocket or not, and a write may fail.                          *)
(***************************************************************************)
EXTENDS Naturals, Sequences, FiniteSets

CONSTANTS
  Conns,      \* websocket connections, each with the WSID it is given
  Sessions,   \* (user, session) pairs
  SessionOf,  \* the session whose token a connection presents
  Shards,     \* shards of ws_id_chan_table
  ShardOf,    \* get_shard: the hash of a WSID modulo CONCURRENCY
  None,       \* "no WSID"
  ChanCap,    \* capacity of a message channel (4 in the code)
  MaxMsgs,    \* bound: payloads the router sends
  MaxFrames   \* bound: frames 1006 and 1007; none is sent when a client has sent so many

ASSUME ConstantsAssumption ==
  /\ SessionOf \in [Conns -> Sessions]
  /\ ShardOf \in [Conns -> Shards]
  /\ None \notin Conns
  /\ ChanCap \in Nat \ {0}
  /\ MaxMsgs \in Nat
  /\ MaxFrames \in Nat

VARIABLES
  ws,       \* websocket: "none", "open", "gone" (client left), "closed" (by the server)
  conn,     \* where the ClientSocket goroutine is
  recv,     \* msg_chan_recv goroutine: "none", "run", "answered" (op 30), "exit"
  timer,    \* goroutine started by SET_TIMER: "off", "sleep", then the removal steps
  prev,     \* PrevWSID presented by the client, None if empty
  refresh,  \* the Refresh flag that connect_user returns
  failed,   \* connections on which connect_user ran its err_func
  greeted,  \* connections to which op 1002 was written
  table,    \* WSIDs present in ws_id_chan_table
  chan,     \* content of the message channel of each connection
  closed,   \* whether that channel is closed
  down,     \* stream router -> server, the head possibly taken by the reader
  holding,  \* the reader holds a read lock and is sending the head of down
  up,       \* stream server -> router
  current,  \* router: the WSID a session's payloads are sent to
  sent,     \* number of payloads the router has sent
  frames,   \* number of frames each client has sent
  crashed   \* the connection whose goroutine panicked, None while the process runs

vars == <<ws, conn, recv, timer, prev, refresh, failed, greeted, table, chan,
          closed, down, holding, up, current, sent, frames, crashed>>

NoConn == Conns \cup {None}

(* What a message channel carries: router messages by op code, and the     *)
(* commands that ClientSocket sends to its receiver.                       *)
RouterOps == {"add", "recover", "giveState", "prevState", "replaced", "payload"}
Commands == {"FLUSH", "ACK", "SET_TIMER"}

\* ok is the success parameter; who the new WSID of giveState, the origin of prevState.
Item == [op : RouterOps \cup Commands, ok : BOOLEAN, who : NoConn]
ItemOf(op) == [op |-> op, ok |-> TRUE, who |-> None]

Down == [to : Conns, m : [op : RouterOps, ok : BOOLEAN, who : NoConn]]
To(w, op, ok, who) == [to |-> w, m |-> [op |-> op, ok |-> ok, who |-> who]]

\* Ops 20, 22, 21 and 30; only an op 30 may name nobody.
Up == [op : {"add", "remove"}, id : Conns, who : {None}, ok : BOOLEAN]
        \cup [op : {"recover"}, id : Conns, who : Conns, ok : BOOLEAN]
        \cup [op : {"state"}, id : NoConn, who : NoConn, ok : BOOLEAN]
ToRouter(op, id, who, ok) == [op |-> op, id |-> id, who |-> who, ok |-> ok]

ConnStates == {"off", "auth", "register", "await", "awaitState", "delete", "close",
               "unregister", "start", "hello", "read", "done"} \cup Commands
TimerStates == {"off", "sleep", "delete", "close", "unregister", "done"}

TypeOK ==
  /\ ws \in [Conns -> {"none", "open", "gone", "closed"}]
  /\ conn \in [Conns -> ConnStates]
  /\ recv \in [Conns -> {"none", "run", "answered", "exit"}]
  /\ timer \in [Conns -> TimerStates]
  /\ prev \in [Conns -> NoConn]
  /\ refresh \in [Conns -> BOOLEAN]
  /\ failed \in SUBSET Conns
  /\ greeted \in SUBSET Conns
  /\ table \in SUBSET Conns
  /\ chan \in [Conns -> Seq(Item)]
  /\ closed \in [Conns -> BOOLEAN]
  /\ down \in Seq(Down)
  /\ holding \in BOOLEAN
  /\ holding => down # <<>>
  /\ up \in Seq(Up)
  /\ current \in [Sessions -> NoConn]
  /\ sent \in Nat
  /\ frames \in [Conns -> Nat]
  /\ crashed \in NoConn

Init ==
  /\ ws = [w \in Conns |-> "none"]
  /\ conn = [w \in Conns |-> "off"]
  /\ recv = [w \in Conns |-> "none"]
  /\ timer = [w \in Conns |-> "off"]
  /\ prev = [w \in Conns |-> None]
  /\ refresh = [w \in Conns |-> TRUE]
  /\ failed = {}
  /\ greeted = {}
  /\ table = {}
  /\ chan = [w \in Conns |-> <<>>]
  /\ closed = [w \in Conns |-> FALSE]
  /\ down = <<>>
  /\ holding = FALSE
  /\ up = <<>>
  /\ current = [s \in Sessions |-> None]
  /\ sent = 0
  /\ frames = [w \in Conns |-> 0]
  /\ crashed = None

(* The shard of w is read-locked by the reader while it blocks in a send.  *)
Locked(w) == holding /\ ShardOf[Head(down).to] = ShardOf[w]

(* Whether a write on the websocket of w can succeed, and whether it can   *)
(* fail: a client that has left may not be noticed yet. The library takes  *)
(* ws.Conn back when ClientSocket returns; a Close is guarded against the  *)
(* nil pointer, a write is not and may panic.                              *)
CanWrite(w) == ws[w] \in {"open", "gone"}
CanFail(w) == ws[w] \in {"gone", "closed"}
CanPanic(w) == conn[w] = "done"

-----------------------------------------------------------------------------
(* The client, outside the server: it opens a websocket and may leave.     *)

Connect(w) ==
  /\ conn[w] = "off"
  /\ conn' = [conn EXCEPT ![w] = "auth"]
  /\ ws' = [ws EXCEPT ![w] = "open"]
  /\ UNCHANGED <<recv, timer, prev, refresh, failed, greeted, table, chan, closed,
                 down, holding, up, current, sent, frames, crashed>>

Leave(w) ==
  /\ ws[w] = "open"
  /\ ws' = [ws EXCEPT ![w] = "gone"]
  /\ UNCHANGED <<conn, recv, timer, prev, refresh, failed, greeted, table, chan,
                 closed, down, holding, up, current, sent, frames, crashed>>

-----------------------------------------------------------------------------
(* ClientSocket and connect_user.                                          *)

(* The token is valid. PrevWSID, when present, is a WSID the client was    *)
(* told in an earlier 1002 of the same session.                            *)
AuthOk(w) ==
  /\ conn[w] = "auth"
  /\ \E p \in {None} \cup {v \in greeted : SessionOf[v] = SessionOf[w]} :
       prev' = [prev EXCEPT ![w] = p]
  /\ conn' = [conn EXCEPT ![w] = "register"]
  /\ UNCHANGED <<ws, recv, timer, refresh, failed, greeted, table, chan, closed,
                 down, holding, up, current, sent, frames, crashed>>

(* The client is silent for MAX_CLIENT_RESPONSE, leaves, sends something   *)
(* else, or its token is invalid or twice expired.                         *)
AuthFail(w) ==
  /\ conn[w] = "auth"
  /\ conn' = [conn EXCEPT ![w] = "done"]
  /\ ws' = [ws EXCEPT ![w] = "closed"]
  /\ UNCHANGED <<recv, timer, prev, refresh, failed, greeted, table, chan, closed,
                 down, holding, up, current, sent, frames, crashed>>

(* create_connection under the shard's lock, then op 20 or op 21. Nobody   *)
(* else knows the new WSID in between.                                     *)
Register(w) ==
  /\ conn[w] = "register"
  /\ ~Locked(w)
  /\ table' = table \cup {w}
  /\ up' = Append(up, IF prev[w] = None THEN ToRouter("add", w, None, TRUE)
                                        ELSE ToRouter("recover", w, prev[w], TRUE))
  /\ conn' = [conn EXCEPT ![w] = "await"]
  /\ UNCHANGED <<ws, recv, timer, prev, refresh, failed, greeted, chan, closed,
                 down, holding, current, sent, frames, crashed>>

(* connect_user takes b from the channel and goes on to state s; err_func  *)
(* starts by removing the session.                                         *)
SetupTake(w) == chan[w] # <<>> /\ chan' = [chan EXCEPT ![w] = Tail(@)]

SetupGo(w, s) ==
  /\ conn' = [conn EXCEPT ![w] = s]
  /\ failed' = IF s = "delete" THEN failed \cup {w} ELSE failed

AwaitReply(w) ==
  /\ conn[w] = "await"
  /\ SetupTake(w)
  /\ LET b == Head(chan[w]) IN
     \/ prev[w] = None /\ b.op = "add" /\ b.ok /\ SetupGo(w, "start")
     \/ prev[w] # None /\ b.op = "recover" /\ b.ok /\ SetupGo(w, "awaitState")
     \/ prev[w] # None /\ b.op = "recover" /\ ~b.ok /\ SetupGo(w, "start")
     \/ /\ ~(prev[w] = None /\ b.op = "add" /\ b.ok)
        /\ ~(prev[w] # None /\ b.op = "recover")
        /\ SetupGo(w, "delete")
  /\ UNCHANGED <<ws, recv, timer, prev, refresh, greeted, table, closed, down,
                 holding, up, current, sent, frames, crashed>>

AwaitState(w) ==
  /\ conn[w] = "awaitState"
  /\ SetupTake(w)
  /\ LET b == Head(chan[w]) IN
     /\ SetupGo(w, IF b.op = "prevState" THEN "start" ELSE "delete")
     /\ refresh' = [refresh EXCEPT ![w] = ~(b.op = "prevState" /\ b.ok)]
  /\ UNCHANGED <<ws, recv, timer, prev, greeted, table, closed, down, holding, up,
                 current, sent, frames, crashed>>

(* go msg_chan_recv(...): reached also after err_func, since connect_user  *)
(* has no error result.                                                    *)
Start(w) ==
  /\ conn[w] = "start"
  /\ recv' = [recv EXCEPT ![w] = "run"]
  /\ conn' = [conn EXCEPT ![w] = "hello"]
  /\ UNCHANGED <<ws, timer, prev, refresh, failed, greeted, table, chan, closed,
                 down, holding, up, current, sent, frames, crashed>>

(* Write op 1002; when that fails err_func removes the session.            *)
Hello(w) ==
  /\ conn[w] = "hello"
  /\ \/ /\ CanWrite(w)
        /\ greeted' = greeted \cup {w}
        /\ conn' = [conn EXCEPT ![w] = "read"]
     \/ /\ CanFail(w)
        /\ conn' = [conn EXCEPT ![w] = "delete"]
        /\ UNCHANGED greeted
  /\ UNCHANGED <<ws, recv, timer, prev, refresh, failed, table, chan, closed, down,
                 holding, up, current, sent, frames, crashed>>

(* A frame 1006 or 1007, whose command goes to the receiver through the    *)
(* channel; 1000 and 1005 do not touch the state modelled here. What the   *)
(* answer to 1000 may meet on the websocket is a subject of MsgDelivery.   *)
ReadFrame(w, cmd) ==
  /\ conn[w] = "read"
  /\ ws[w] = "open"
  /\ \A v \in Conns : frames[v] < MaxFrames
  /\ frames' = [frames EXCEPT ![w] = @ + 1]
  /\ conn' = [conn EXCEPT ![w] = cmd]
  /\ UNCHANGED <<ws, recv, timer, prev, refresh, failed, greeted, table, chan,
                 closed, down, holding, up, current, sent, crashed>>

(* Fault: the removal timer is forgotten.                                  *)
EndByTimerNoTimer(w) ==
  /\ conn[w] = "read"
  /\ CanFail(w)
  /\ conn' = [conn EXCEPT ![w] = "done"]
  /\ UNCHANGED <<ws, recv, timer, prev, refresh, failed, greeted, table, chan,
                 closed, down, holding, up, current, sent, frames, crashed>>

(* The loop ends on a closure other than 1006, or on a websocket that the  *)
(* receiver has closed: the session is to be removed by a timer.           *)
EndByTimer(w) ==
  /\ conn[w] = "read"
  /\ CanFail(w)
  /\ conn' = [conn EXCEPT ![w] = "SET_TIMER"]
  /\ UNCHANGED <<ws, recv, timer, prev, refresh, failed, greeted, table, chan,
                 closed, down, holding, up, current, sent, frames, crashed>>

(* The loop ends on closure 1006, an i/o timeout, a binary message or a    *)
(* failed SetReadDeadline: the session is removed now.                     *)
EndByRemoval(w) ==
  /\ conn[w] = "read"
  /\ conn' = [conn EXCEPT ![w] = "delete"]
  /\ UNCHANGED <<ws, recv, timer, prev, refresh, failed, greeted, table, chan,
                 closed, down, holding, up, current, sent, frames, crashed>>

(* send_comm_msg: blocks on a full channel, panics on a closed one.        *)
SendComm(w) ==
  /\ conn[w] \in Commands
  /\ IF closed[w]
     THEN crashed' = w /\ UNCHANGED <<ws, conn, chan>>
     ELSE /\ Len(chan[w]) < ChanCap
          /\ chan' = [chan EXCEPT ![w] = Append(@, ItemOf(conn[w]))]
          /\ IF conn[w] = "SET_TIMER"
             THEN /\ conn' = [conn EXCEPT ![w] = "done"]
                  /\ ws' = [ws EXCEPT ![w] = "closed"]
             ELSE conn' = [conn EXCEPT ![w] = "read"] /\ UNCHANGED ws
          /\ UNCHANGED crashed
  /\ UNCHANGED <<recv, timer, prev, refresh, failed, greeted, table, closed, down,
                 holding, up, current, sent, frames>>

-----------------------------------------------------------------------------
(* remove_user_session: delete_connection (take the channel out of the     *)
(* table under the shard's lock, close it outside the lock), then op 22.   *)

(* Fault: the channel is closed without asking whether it was in the table. *)
AfterDeleteAlwaysClose(w) == "close"

AfterDelete(w) == IF w \in table THEN "close" ELSE "unregister"

(* Fault: the table is changed without the shard's lock.                   *)
DeleteConnectionNoLock(w) == table' = table \ {w}

DeleteConnection(w) == ~Locked(w) /\ table' = table \ {w}

CloseChannel(w) == closed' = [closed EXCEPT ![w] = TRUE]

(* Fault: op 22 is not written.                                            *)
UnregisterSilently(w) == UNCHANGED up

Unregister(w) == up' = Append(up, ToRouter("remove", w, None, TRUE))

ConnDelete(w) ==
  /\ conn[w] = "delete"
  /\ DeleteConnection(w)
  /\ conn' = [conn EXCEPT ![w] = AfterDelete(w)]
  /\ UNCHANGED <<ws, recv, timer, prev, refresh, failed, greeted, chan, closed,
                 down, holding, up, current, sent, frames, crashed>>

ConnClose(w) ==
  /\ conn[w] = "close"
  /\ CloseChannel(w)
  /\ conn' = [conn EXCEPT ![w] = "unregister"]
  /\ UNCHANGED <<ws, recv, timer, prev, refresh, failed, greeted, table, chan, down,
                 holding, up, current, sent, frames, crashed>>

(* Fault: the read loop goes on after it has removed the session.          *)
ConnUnregisterNoBreak(w) ==
  /\ conn[w] = "unregister"
  /\ Unregister(w)
  /\ conn' = [conn EXCEPT ![w] = IF recv[w] = "none" THEN "start" ELSE "read"]
  /\ UNCHANGED <<ws, recv, timer, prev, refresh, failed, greeted, table, chan, closed,
                 down, holding, current, sent, frames, crashed>>

(* Inside connect_user (no receiver yet) ClientSocket goes on; anywhere    *)
(* else it returns, and its deferred call closes the websocket.            *)
ConnUnregister(w) ==
  /\ conn[w] = "unregister"
  /\ Unregister(w)
  /\ IF recv[w] = "none"
     THEN conn' = [conn EXCEPT ![w] = "start"] /\ UNCHANGED ws
     ELSE /\ conn' = [conn EXCEPT ![w] = "done"]
          /\ ws' = [ws EXCEPT ![w] = "closed"]
  /\ UNCHANGED <<recv, timer, prev, refresh, failed, greeted, table, chan, closed,
                 down, holding, current, sent, frames, crashed>>

TimerFire(w) ==
  /\ timer[w] = "sleep"
  /\ timer' = [timer EXCEPT ![w] = "delete"]
  /\ UNCHANGED <<ws, conn, recv, prev, refresh, failed, greeted, table, chan, closed,
                 down, holding, up, current, sent, frames, crashed>>

TimerDelete(w) ==
  /\ timer[w] = "delete"
  /\ DeleteConnection(w)
  /\ timer' = [timer EXCEPT ![w] = AfterDelete(w)]
  /\ UNCHANGED <<ws, conn, recv, prev, refresh, failed, greeted, chan, closed, down,
                 holding, up, current, sent, frames, crashed>>

TimerClose(w) ==
  /\ timer[w] = "close"
  /\ CloseChannel(w)
  /\ timer' = [timer EXCEPT ![w] = "unregister"]
  /\ UNCHANGED <<ws, conn, recv, prev, refresh, failed, greeted, table, chan, down,
                 holding, up, current, sent, frames, crashed>>

TimerUnregister(w) ==
  /\ timer[w] = "unregister"
  /\ Unregister(w)
  /\ timer' = [timer EXCEPT ![w] = "done"]
  /\ UNCHANGED <<ws, conn, recv, prev, refresh, failed, greeted, table, chan, closed,
                 down, holding, current, sent, frames, crashed>>

-----------------------------------------------------------------------------
(* msg_chan_recv.                                                          *)


(* The receiver takes b; it stays, or leaves the loop for good.            *)
RecvTake(w, op) ==
  /\ recv[w] = "run"
  /\ chan[w] # <<>>
  /\ Head(chan[w]).op = op
  /\ chan' = [chan EXCEPT ![w] = Tail(@)]

RecvFlush(w) ==
  /\ RecvTake(w, "FLUSH")
  /\ \/ UNCHANGED <<recv, crashed>>
     \/ CanFail(w) /\ recv' = [recv EXCEPT ![w] = "exit"] /\ UNCHANGED crashed
     \/ CanPanic(w) /\ crashed' = w /\ UNCHANGED recv
  /\ UNCHANGED <<ws, conn, timer, prev, refresh, failed, greeted, table, closed,
                 down, holding, up, current, sent, frames>>

(* Fault: SET_TIMER is not handled.                                        *)
RecvSetTimerIgnored(w) ==
  /\ RecvTake(w, "SET_TIMER")
  /\ UNCHANGED <<ws, conn, recv, timer, prev, refresh, failed, greeted, table, closed,
                 down, holding, up, current, sent, frames, crashed>>

RecvSetTimer(w) ==
  /\ RecvTake(w, "SET_TIMER")
  /\ timer' = [timer EXCEPT ![w] = "sleep"]
  /\ UNCHANGED <<ws, conn, recv, prev, refresh, failed, greeted, table, closed, down,
                 holding, up, current, sent, frames, crashed>>

(* Op 30: answer with the own state for the new WSID ...                   *)
RecvGiveState(w) ==
  /\ RecvTake(w, "giveState")
  /\ up' = Append(up, ToRouter("state", w, Head(chan[w]).who, TRUE))
  /\ recv' = [recv EXCEPT ![w] = "answered"]
  /\ UNCHANGED <<ws, conn, timer, prev, refresh, failed, greeted, table, closed,
                 down, holding, current, sent, frames, crashed>>

(* Fault: the websocket stays open after its state was handed over.        *)
RecvCloseForgotten(w) ==
  /\ recv[w] = "answered"
  /\ recv' = [recv EXCEPT ![w] = "run"]
  /\ UNCHANGED <<ws, conn, timer, prev, refresh, failed, greeted, table, chan, closed,
                 down, holding, up, current, sent, frames, crashed>>

(* ... and then close. The router may have passed the answer on by now.    *)
RecvClose(w) ==
  /\ recv[w] = "answered"
  /\ recv' = [recv EXCEPT ![w] = "run"]
  /\ ws' = [ws EXCEPT ![w] = "closed"]
  /\ UNCHANGED <<conn, timer, prev, refresh, failed, greeted, table, chan, closed,
                 down, holding, up, current, sent, frames, crashed>>

RecvReplaced(w) ==
  /\ RecvTake(w, "replaced")
  /\ ws' = [ws EXCEPT ![w] = "closed"]
  /\ UNCHANGED <<conn, recv, timer, prev, refresh, failed, greeted, table, closed,
                 down, holding, up, current, sent, frames, crashed>>

(* A payload is queued in a map that connect_user leaves nil when it fails *)
(* and is perhaps written, depending on the gate. A failed write closes    *)
(* the websocket and ends the receiver.                                    *)
RecvPayload(w) ==
  /\ RecvTake(w, "payload")
  /\ \/ w \notin failed /\ UNCHANGED <<recv, ws, crashed>>
     \/ /\ w \notin failed /\ CanFail(w)
        /\ recv' = [recv EXCEPT ![w] = "exit"]
        /\ ws' = [ws EXCEPT ![w] = "closed"]
        /\ UNCHANGED crashed
     \/ (w \in failed \/ CanPanic(w)) /\ crashed' = w /\ UNCHANGED <<recv, ws>>
  /\ UNCHANGED <<conn, timer, prev, refresh, failed, greeted, table, closed, down,
                 holding, up, current, sent, frames>>

(* ACK leaves no trace here, and the switch has no case for ops 20, 21, 31. *)
RecvIgnored(w) ==
  /\ \E op \in {"ACK", "add", "recover", "prevState"} : RecvTake(w, op)
  /\ UNCHANGED <<ws, conn, recv, timer, prev, refresh, failed, greeted, table, closed,
                 down, holding, up, current, sent, frames, crashed>>

RecvClosed(w) ==
  /\ recv[w] = "run"
  /\ closed[w] /\ chan[w] = <<>>
  /\ recv' = [recv EXCEPT ![w] = "exit"]
  /\ UNCHANGED <<ws, conn, timer, prev, refresh, failed, greeted, table, chan, closed,
                 down, holding, up, current, sent, frames, crashed>>

-----------------------------------------------------------------------------
(* socket_op, run by the goroutine that reads the router's stream.         *)

(* The WSID is in its shard: send its message under the read lock ...      *)
ReaderLock ==
  /\ ~holding /\ down # <<>>
  /\ Head(down).to \in table
  /\ holding' = TRUE
  /\ UNCHANGED <<ws, conn, recv, timer, prev, refresh, failed, greeted, table, chan,
                 closed, down, up, current, sent, frames, crashed>>

(* ... which blocks while the channel is full.                             *)
ReaderSend ==
  /\ holding
  /\ LET w == Head(down).to IN
     /\ Len(chan[w]) < ChanCap
     /\ chan' = [chan EXCEPT ![w] = Append(@, Head(down).m)]
  /\ down' = Tail(down)
  /\ holding' = FALSE
  /\ UNCHANGED <<ws, conn, recv, timer, prev, refresh, failed, greeted, table, closed,
                 up, current, sent, frames, crashed>>

(* The WSID is unknown: the message is dropped. Only op 31 is answered,    *)
(* with an op 30 whose parameters are op 31's and name no WSID.            *)
ReaderDrop ==
  /\ ~holding /\ down # <<>>
  /\ Head(down).to \notin table
  /\ down' = Tail(down)
  /\ up' = IF Head(down).m.op = "prevState"
           THEN Append(up, ToRouter("state", None, None, FALSE)) ELSE up
  /\ UNCHANGED <<ws, conn, recv, timer, prev, refresh, failed, greeted, table, chan,
                 closed, holding, current, sent, frames, crashed>>

-----------------------------------------------------------------------------
(* The router, a separate program known here only by the messages this     *)
(* server exchanges with it. It handles a registration at once, asks the   *)
(* previous WSID for its state when that one is current, and tells a WSID  *)
(* it replaces otherwise.                                                  *)

Replace(c) == IF c = None THEN <<>> ELSE <<To(c, "replaced", TRUE, None)>>

RouterAdd ==
  /\ up # <<>> /\ Head(up).op = "add"
  /\ LET w == Head(up).id
         s == SessionOf[w]
     IN \/ /\ down' = down \o (Replace(current[s]) \o <<To(w, "add", TRUE, None)>>)
           /\ current' = [current EXCEPT ![s] = w]
        \/ /\ down' = Append(down, To(w, "add", FALSE, None))
           /\ UNCHANGED current
  /\ up' = Tail(up)
  /\ UNCHANGED <<ws, conn, recv, timer, prev, refresh, failed, greeted, table, chan,
                 closed, holding, sent, frames, crashed>>

RouterRecover ==
  /\ up # <<>> /\ Head(up).op = "recover"
  /\ LET w == Head(up).id
         p == Head(up).who
         s == SessionOf[w]
     IN /\ down' = down \o (IF current[s] = p
                            THEN <<To(w, "recover", TRUE, None), To(p, "giveState", TRUE, w)>>
                            ELSE Replace(current[s]) \o <<To(w, "recover", FALSE, None)>>)
        /\ current' = [current EXCEPT ![s] = w]
  /\ up' = Tail(up)
  /\ UNCHANGED <<ws, conn, recv, timer, prev, refresh, failed, greeted, table, chan,
                 closed, holding, sent, frames, crashed>>

RouterRemove ==
  /\ up # <<>> /\ Head(up).op = "remove"
  /\ LET w == Head(up).id
         s == SessionOf[w]
     IN current' = [current EXCEPT ![s] = IF @ = w THEN None ELSE @]
  /\ up' = Tail(up)
  /\ UNCHANGED <<ws, conn, recv, timer, prev, refresh, failed, greeted, table, chan,
                 closed, down, holding, sent, frames, crashed>>

(* Fault: a state for no websocket is passed on.                           *)
RouterStateToAnyone ==
  /\ up # <<>> /\ Head(up).op = "state"
  /\ down' = Append(down, To(Head(up).who, "prevState", Head(up).ok, Head(up).id))
  /\ up' = Tail(up)
  /\ UNCHANGED <<ws, conn, recv, timer, prev, refresh, failed, greeted, table, chan,
                 closed, holding, current, sent, frames, crashed>>

RouterState ==
  /\ up # <<>> /\ Head(up).op = "state"
  /\ down' = IF Head(up).who = None THEN down
             ELSE Append(down, To(Head(up).who, "prevState", Head(up).ok, Head(up).id))
  /\ up' = Tail(up)
  /\ UNCHANGED <<ws, conn, recv, timer, prev, refresh, failed, greeted, table, chan,
                 closed, holding, current, sent, frames, crashed>>

RouterPayload(s) ==
  /\ sent < MaxMsgs
  /\ current[s] # None
  /\ sent' = sent + 1
  /\ down' = Append(down, To(current[s], "payload", TRUE, None))
  /\ UNCHANGED <<ws, conn, recv, timer, prev, refresh, failed, greeted, table, chan,
                 closed, holding, up, current, frames, crashed>>

-----------------------------------------------------------------------------
ClientStep(w) == Connect(w) \/ Leave(w) \/ ReadFrame(w, "FLUSH") \/ ReadFrame(w, "ACK")

ConnStep(w) ==
  \/ AuthOk(w) \/ AuthFail(w) \/ Register(w) \/ AwaitReply(w) \/ AwaitState(w)
  \/ Start(w) \/ Hello(w) \/ EndByTimer(w) \/ EndByRemoval(w) \/ SendComm(w)
  \/ ConnDelete(w) \/ ConnClose(w) \/ ConnUnregister(w)

TimerStep(w) == TimerFire(w) \/ TimerDelete(w) \/ TimerClose(w) \/ TimerUnregister(w)

RecvStep(w) ==
  \/ RecvFlush(w) \/ RecvSetTimer(w) \/ RecvGiveState(w) \/ RecvClose(w)
  \/ RecvReplaced(w) \/ RecvPayload(w) \/ RecvIgnored(w) \/ RecvClosed(w)

ReaderStep == ReaderLock \/ ReaderSend \/ ReaderDrop

RouterReply == RouterAdd \/ RouterRecover \/ RouterRemove \/ RouterState

Next ==
  /\ crashed = None
  /\ \/ \E w \in Conns : ClientStep(w) \/ ConnStep(w) \/ TimerStep(w) \/ RecvStep(w)
     \/ ReaderStep
     \/ RouterReply
     \/ \E s \in Sessions : RouterPayload(s)

Spec == Init /\ [][Next]_vars

(* Every goroutine is scheduled, a sleep ends, a read has a deadline, and  *)
(* the router answers. Clients need not do anything, and the router need   *)
(* not send payloads.                                                      *)
Fairness ==
  /\ \A w \in Conns :
       /\ WF_vars(crashed = None /\ ConnStep(w))
       /\ WF_vars(crashed = None /\ TimerStep(w))
       /\ WF_vars(crashed = None /\ RecvStep(w))
  /\ WF_vars(crashed = None /\ ReaderStep)
  /\ WF_vars(crashed = None /\ RouterReply)

FairSpec == Spec /\ Fairness

-----------------------------------------------------------------------------
(* Safety.                                                                 *)

(* socket_op never sends on a closed channel: while the reader holds the   *)
(* read lock and blocks in a send, delete_connection cannot have taken the *)
(* channel out of the table, let alone closed it.                          *)
ReaderNeverSendsOnClosed ==
  holding => Head(down).to \in table /\ ~closed[Head(down).to]

(* A goroutine panics (a send on a closed channel, a write to a nil map or *)
(* to a released websocket) only for a connection whose set-up failed and  *)
(* which ClientSocket serves anyway, or after ClientSocket has returned.   *)
(* Two writes at once to one websocket are left to MsgDelivery's OneWriter.*)
NoPanicWhileServing ==
  crashed # None => crashed \in failed \/ conn[crashed] = "done"

(* When ClientSocket has returned and its WSID is still in the table, then *)
(* a timer will remove it, or SET_TIMER is queued for the receiver, or the *)
(* receiver ended early and nobody is left to remove the session.          *)
NoOrphanSession ==
  \A w \in table : conn[w] = "done" =>
    \/ timer[w] \in {"sleep", "delete"}
    \/ recv[w] = "exit"
    \/ \E i \in DOMAIN chan[w] : chan[w][i].op = "SET_TIMER"

(* A WSID that this server has dropped and reported as dropped is never    *)
(* the one to which the router sends a session's payloads.                 *)
NoStaleRoute ==
  \A w \in Conns :
    \/ current[SessionOf[w]] # w
    \/ w \in table
    \/ conn[w] \in {"close", "unregister"} \/ timer[w] \in {"close", "unregister"}
    \/ \E i \in DOMAIN up : up[i].op = "remove" /\ up[i].id = w

(* Refresh = false is told only to a connection that recovers a session,   *)
(* and only after the receiver of that session answered op 30: it has      *)
(* closed its websocket, or that is the next thing it does.                *)
RecoveredFromEndingPredecessor ==
  \A w \in Conns : ~refresh[w] =>
    /\ prev[w] # None
    /\ recv[prev[w]] # "none"
    /\ ws[prev[w]] = "closed" \/ recv[prev[w]] = "answered"

-----------------------------------------------------------------------------
(* The abstract mailboxes that the table and its channels implement.       *)

Phase(w) ==
  IF "close" \in {conn[w], timer[w]} THEN "removed"
  ELSE IF closed[w] THEN "closed"
  ELSE IF w \in table THEN "open" ELSE "new"

Box == INSTANCE Mailbox WITH
  Boxes <- Conns, Messages <- Item, Cap <- ChanCap,
  phase <- [w \in Conns |-> Phase(w)], content <- chan

(* create_connection, delete_connection, socket_op, send_comm_msg and the  *)
(* receivers use every channel as a mailbox: no second close, by whichever *)
(* goroutine, nothing put after the WSID left the table, nothing lost.     *)
ImplementsMailboxes == Box!Spec

-----------------------------------------------------------------------------
(* Liveness.                                                               *)

(* No running receiver: it has ended, or connect_user failed before it was *)
(* started and is about to remove the session.                             *)
NobodyReceives(w) == recv[w] = "exit" \/ (recv[w] = "none" /\ conn[w] = "delete")


(* After its connection has ended a session leaves the table, unless its   *)
(* receiver ended early or the reader is stuck with a shard locked.        *)
EndedSessionIsRemoved ==
  \A w \in Conns :
    \/ (conn[w] = "done") ~> (w \notin table \/ recv[w] = "exit" \/ crashed # None)
    \/ <>[]holding

-----------------------------------------------------------------------------
(* A claim of the repository that the code does not meet.                  *)

(* socket/socket.go:14 "MAX_PREV_STATE_RESPONSE = 1 * time.Second": the    *)
(* wait for the state of the previous websocket ends.                      *)
PrevStateWaitEnds ==
  \A w \in Conns : (conn[w] = "awaitState") ~> (conn[w] # "awaitState" \/ crashed # None)
==============================================================================
