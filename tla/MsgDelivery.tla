----------------------------- MODULE MsgDelivery -----------------------------
(***************************************************************************)
(* How the payloads (op 100) of one session reach its client: the message  *)
(* channel that the router's messages and the client's commands share, the *)
(* gate that ClientSocket opens and closes while msg_chan_recv reads it,   *)
(* the queue of payloads and the last timestamp, FLUSH and ACK, and the    *)
(* hand-over of that state (ops 30 and 31) to the connection that recovers *)
(* the session while payloads already go to that connection's own channel. *)
(*                                                                         *)
(* WsSession has the goroutines' life and the panics that may follow a     *)
(* set-up that failed; here such a connection has ended, and a connection  *)
(* that begins the session anew is followed instead of the one it          *)
(* replaces.                                                               *)
(***************************************************************************)
EXTENDS Naturals, Sequences, FiniteSets

CONSTANTS
  Payloads,   \* the messages of the session, each with its own queue key
  Ts,         \* Timestamp of a payload, given by the sender's clock
  Atomic,     \* the payloads sent with Atomic = true
  None,       \* no payload
  ChanCap,    \* capacity of a message channel (4 in the code)
  MaxFrames,  \* bound: frames 1000, 1005, 1006 and 1007 of one connection
  MaxConns    \* bound: connections of the session, failed ones included

ASSUME ConstantsAssumption ==
  /\ IsFiniteSet(Payloads)
  /\ Ts \in [Payloads -> Nat \ {0}]
  /\ Atomic \subseteq Payloads
  /\ None \notin Payloads
  /\ ChanCap \in Nat \ {0}
  /\ MaxFrames \in Nat
  /\ MaxConns \in Nat

VARIABLES
  sent,      \* payloads the router has sent to the session
  ws,        \* websocket: "open", "gone" (client left), "closed" (by the server)
  conn,      \* ClientSocket: "greet" (writes 1002), "read", "answer" (1000), "flush"
             \*   and "store" (1006), "ack" (1007), "end"
  ackOf,     \* the payload a frame 1007 names
  frames,    \* frames of this connection
  gate,      \* gate_state
  chan,      \* the message channel
  recv,      \* msg_chan_recv: "idle", "load", "decide", "close" (answered op 30), "exit"
  hand,      \* the payload in its hands
  seen,      \* temp_gate
  last,      \* last_timestamp
  mq,        \* message_queue
  view,      \* what the client has received since the last FLUSH
  handled,   \* payloads the receivers have dealt with
  setup,     \* connect_user of the next connection: "no", "wait" for op 31, or
             \*   "reply" (the same, and op 30 is on its way to the router)
  next,      \* the message channel of that connection
  wsid,      \* the WSID of this connection: "new" (its client does not know it yet),
             \*   "known", and after it left the table "void" or "dropped"
  refresh,   \* Refresh of op 1002
  missed,    \* payloads lost to the session, or left behind when it began anew
  owed,      \* the client was not told to refresh since the last one was missed
  conns,     \* number of connections so far
  crashed    \* a panic ended the process

takeover == <<setup, next, wsid, refresh, missed, owed, conns>>

vars == <<sent, ws, conn, ackOf, frames, gate, chan, recv, hand, seen, last, mq,
          view, handled, takeover, crashed>>

Item == [op : {"payload", "ACK"}, p : Payloads]
          \cup [op : {"FLUSH", "giveState", "state", "noState"}, p : {None}]
ItemOf(op, p) == [op |-> op, p |-> p]

TypeOK ==
  /\ sent \subseteq Payloads
  /\ ws \in {"open", "gone", "closed"}
  /\ conn \in {"greet", "read", "answer", "flush", "store", "ack", "end"}
  /\ ackOf \in Payloads \cup {None}
  /\ (conn = "ack") => ackOf # None
  /\ frames \in Nat
  /\ gate \in {0, 1}
  /\ chan \in Seq(Item)
  /\ recv \in {"idle", "load", "decide", "close", "exit"}
  /\ hand \in Payloads \cup {None}
  /\ (recv \in {"load", "decide"}) => hand # None
  /\ seen \in {0, 1}
  /\ last \in Nat
  /\ mq \subseteq Payloads
  /\ view \in Seq(Payloads)
  /\ handled \subseteq Payloads
  /\ setup \in {"no", "wait", "reply"}
  /\ next \in Seq(Item)
  /\ wsid \in {"new", "known", "void", "dropped"}
  /\ refresh \in BOOLEAN
  /\ missed \subseteq Payloads
  /\ owed \in BOOLEAN
  /\ conns \in Nat
  /\ crashed \in BOOLEAN

(* ClientSocket and its receiver have just been started with a new state.  *)
Init ==
  /\ sent = {} /\ handled = {}
  /\ ws = "open" /\ conn = "greet" /\ ackOf = None /\ frames = 0
  /\ gate = 0 /\ chan = <<>>
  /\ recv = "idle" /\ hand = None /\ seen = 0
  /\ last = 0 /\ mq = {}
  /\ view = <<>>
  /\ setup = "no" /\ next = <<>> /\ wsid = "new" /\ refresh = TRUE
  /\ missed = {} /\ owed = FALSE
  /\ conns = 1
  /\ crashed = FALSE

CanWrite == ws \in {"open", "gone"}
CanFail == ws \in {"gone", "closed"}

Put(m) == Len(chan) < ChanCap /\ chan' = Append(chan, m)

-----------------------------------------------------------------------------
(* The router, through socket_op: payloads in any order of timestamps, and *)
(* ops 21 and 30 when the client comes back. A payload goes to the newest  *)
(* WSID the router knows: to the one that waits for op 31 as soon as there *)
(* is one, and nowhere when the WSID has left the table.                   *)

RouterPayload(p) ==
  /\ p \notin sent
  /\ sent' = sent \cup {p}
  /\ \/ /\ setup = "no" /\ wsid \in {"new", "known"}
        /\ Put(ItemOf("payload", p))
        /\ UNCHANGED takeover
     \/ /\ setup # "no" /\ Len(next) < ChanCap
        /\ next' = Append(next, ItemOf("payload", p))
        /\ UNCHANGED <<chan, setup, wsid, refresh, missed, owed, conns>>
     \/ /\ setup = "no" /\ wsid \in {"void", "dropped"}
        /\ missed' = missed \cup {p}
        /\ owed' = TRUE
        /\ UNCHANGED <<chan, setup, next, wsid, refresh, conns>>
  /\ UNCHANGED <<ws, conn, ackOf, frames, gate, recv, hand, seen, last, mq, view,
                 handled, crashed>>

(* The client presents the WSID it knows; op 30 is dropped if that WSID    *)
(* left the table, and then nobody answers it.                             *)
RouterAskState ==
  /\ setup = "no" /\ wsid \in {"known", "dropped"} /\ conns < MaxConns
  /\ setup' = "wait"
  /\ conns' = conns + 1
  /\ IF wsid = "known" THEN Put(ItemOf("giveState", None)) ELSE UNCHANGED chan
  /\ UNCHANGED <<sent, ws, conn, ackOf, frames, gate, recv, hand, seen, last, mq,
                 view, handled, next, wsid, refresh, missed, owed, crashed>>

(* Op 30 is passed on as op 31, successful or not.                         *)
RouterState ==
  /\ setup = "reply" /\ Len(next) < ChanCap
  /\ setup' = "wait"
  /\ \E op \in {"state", "noState"} : next' = Append(next, ItemOf(op, None))
  /\ UNCHANGED <<sent, ws, conn, ackOf, frames, gate, chan, recv, hand, seen, last, mq,
                 view, handled, wsid, refresh, missed, owed, conns, crashed>>

-----------------------------------------------------------------------------
(* ClientSocket.                                                           *)

Leave ==
  /\ ws = "open"
  /\ ws' = "gone"
  /\ UNCHANGED <<sent, conn, ackOf, frames, gate, chan, recv, hand, seen, last, mq,
                 view, handled, takeover, crashed>>

(* Op 1002 tells the client its WSID and whether to refresh; if it cannot  *)
(* be written ClientSocket returns.                                        *)
Greet ==
  /\ conn = "greet"
  /\ \/ /\ CanWrite
        /\ conn' = "read" /\ wsid' = "known" /\ owed' = (owed /\ ~refresh)
        /\ UNCHANGED ws
     \/ /\ CanFail
        /\ conn' = "end" /\ ws' = "closed"
        /\ UNCHANGED <<wsid, owed>>
  /\ UNCHANGED <<sent, ackOf, frames, gate, chan, recv, hand, seen, last, mq, view,
                 handled, setup, next, refresh, missed, conns, crashed>>

Frame ==
  /\ conn = "read" /\ ws = "open" /\ frames < MaxFrames
  /\ frames' = frames + 1

(* 1000, the client's heartbeat, is answered, and nobody looks whether the *)
(* answer could be written.                                                *)
Heartbeat ==
  /\ Frame
  /\ conn' = "answer"
  /\ UNCHANGED <<sent, ws, ackOf, gate, chan, recv, hand, seen, last, mq, view,
                 handled, takeover, crashed>>

Answer ==
  /\ conn = "answer"
  /\ conn' = "read"
  /\ UNCHANGED <<sent, ws, ackOf, frames, gate, chan, recv, hand, seen, last, mq,
                 view, handled, takeover, crashed>>

(* 1005 *)
CloseGate ==
  /\ Frame
  /\ gate' = 0
  /\ UNCHANGED <<sent, ws, conn, ackOf, chan, recv, hand, seen, last, mq, view,
                 handled, takeover, crashed>>

(* 1006: send FLUSH, then open the gate.                                   *)
OpenGate ==
  /\ Frame
  /\ conn' = "flush"
  /\ UNCHANGED <<sent, ws, ackOf, gate, chan, recv, hand, seen, last, mq, view,
                 handled, takeover, crashed>>

SendFlush ==
  /\ conn = "flush"
  /\ Put(ItemOf("FLUSH", None))
  /\ conn' = "store"
  /\ UNCHANGED <<sent, ws, ackOf, frames, gate, recv, hand, seen, last, mq, view,
                 handled, takeover, crashed>>

(* Fault: the opened gates are counted.                                    *)
StoreGateCounted ==
  /\ conn = "store"
  /\ gate' = gate + 1
  /\ conn' = "read"
  /\ UNCHANGED <<sent, ws, ackOf, frames, chan, recv, hand, seen, last, mq, view,
                 handled, takeover, crashed>>

StoreGate ==
  /\ conn = "store"
  /\ gate' = 1
  /\ conn' = "read"
  /\ UNCHANGED <<sent, ws, ackOf, frames, chan, recv, hand, seen, last, mq, view,
                 handled, takeover, crashed>>

(* 1007: the client acknowledges something it has received.                *)
Ack(p) ==
  /\ Frame
  /\ \E i \in DOMAIN view : view[i] = p
  /\ ackOf' = p
  /\ conn' = "ack"
  /\ UNCHANGED <<sent, ws, gate, chan, recv, hand, seen, last, mq, view, handled,
                 takeover, crashed>>

SendAck ==
  /\ conn = "ack"
  /\ Put(ItemOf("ACK", ackOf))
  /\ conn' = "read"
  /\ UNCHANGED <<sent, ws, ackOf, frames, gate, recv, hand, seen, last, mq, view,
                 handled, takeover, crashed>>

(* The read loop ends ...                                                  *)
End ==
  /\ conn = "read" /\ CanFail
  /\ conn' = "end"
  /\ ws' = "closed"
  /\ UNCHANGED <<sent, ackOf, frames, gate, chan, recv, hand, seen, last, mq, view,
                 handled, takeover, crashed>>

(* ... and the session leaves the table, at once or when its timer fires.  *)
Drop ==
  /\ conn = "end" /\ wsid \in {"new", "known"}
  /\ wsid' = IF wsid = "new" THEN "void" ELSE "dropped"
  /\ UNCHANGED <<sent, ws, conn, ackOf, frames, gate, chan, recv, hand, seen, last, mq,
                 view, handled, setup, next, refresh, missed, owed, conns, crashed>>

-----------------------------------------------------------------------------
(* msg_chan_recv.                                                          *)

Take(op) ==
  /\ recv = "idle" /\ chan # <<>> /\ Head(chan).op = op
  /\ chan' = Tail(chan)

(* Fault: the queue is written in the random order of the map.             *)
SortedByNothing(s) == TRUE

(* The queue, sorted by timestamp in any order of ties, is written until a *)
(* write fails, which ends the receiver and leaves the websocket open.     *)
Sorted(s) == \A i, j \in DOMAIN s : i < j => Ts[s[i]] <= Ts[s[j]]

Orders(S) ==
  {s \in [1..Cardinality(S) -> S] : Sorted(s) /\ \A p \in S : \E i \in DOMAIN s : s[i] = p}

Flush ==
  /\ Take("FLUSH")
  /\ IF mq = {} THEN UNCHANGED <<recv, view>>
     ELSE \E s \in Orders(mq) :
            \/ CanWrite /\ view' = s /\ UNCHANGED recv
            \/ /\ CanFail /\ recv' = "exit"
               /\ \E k \in 0 .. Len(s) - 1 : view' = SubSeq(s, 1, k)
  /\ UNCHANGED <<sent, ws, conn, ackOf, frames, gate, hand, seen, last, mq, handled,
                 takeover, crashed>>

(* ACK deletes the key msg, a variable that is never assigned: nothing.    *)
TakeAck ==
  /\ Take("ACK")
  /\ UNCHANGED <<sent, ws, conn, ackOf, frames, gate, recv, hand, seen, last, mq,
                 view, handled, takeover, crashed>>

(* Fault: while the gate is closed payloads are thrown away.               *)
TakePayloadIfOpen ==
  /\ Take("payload")
  /\ IF gate = 1 THEN hand' = Head(chan).p /\ recv' = "load" ELSE UNCHANGED <<hand, recv>>
  /\ UNCHANGED <<sent, ws, conn, ackOf, frames, gate, seen, last, mq, view, handled,
                 takeover, crashed>>

TakePayload ==
  /\ Take("payload")
  /\ hand' = Head(chan).p
  /\ recv' = "load"
  /\ UNCHANGED <<sent, ws, conn, ackOf, frames, gate, seen, last, mq, view, handled,
                 takeover, crashed>>


LoadGate ==
  /\ recv = "load"
  /\ seen' = gate
  /\ recv' = "decide"
  /\ UNCHANGED <<sent, ws, conn, ackOf, frames, gate, chan, hand, last, mq, view,
                 handled, takeover, crashed>>

(* An overtaken payload is replaced by a request to refresh (3101, 3102),  *)
(* whose failure to be written goes unnoticed.                             *)
Overtaken(p) == Ts[p] <= last /\ p \notin Atomic /\ seen = 1

Hint ==
  /\ recv = "decide" /\ Overtaken(hand)
  /\ handled' = handled \cup {hand}
  /\ recv' = "idle" /\ hand' = None
  /\ UNCHANGED <<sent, ws, conn, ackOf, frames, gate, chan, seen, last, mq, view,
                 takeover, crashed>>

(* Fault: a payload that was written is not queued.                        *)
QueueUnlessWritten ==
  /\ recv = "decide" /\ ~Overtaken(hand)
  /\ handled' = handled \cup {hand}
  /\ hand' = None
  /\ last' = IF Ts[hand] > last THEN Ts[hand] ELSE last
  /\ \/ seen = 0 /\ recv' = "idle" /\ mq' = mq \cup {hand} /\ UNCHANGED <<view, ws>>
     \/ seen = 1 /\ CanWrite /\ recv' = "idle" /\ view' = Append(view, hand) /\ UNCHANGED <<mq, ws>>
     \/ seen = 1 /\ CanFail /\ recv' = "exit" /\ ws' = "closed" /\ UNCHANGED <<mq, view>>
  /\ UNCHANGED <<sent, conn, ackOf, frames, gate, chan, seen, takeover, crashed>>

(* Fault: last_timestamp goes back.                                        *)
LaterOfIsNew(t) == t

LaterOf(t) == IF t > last THEN t ELSE last

(* Any other payload is queued and, if the gate was open, written; a       *)
(* failed write closes the websocket and ends the receiver.                *)
Queue ==
  /\ recv = "decide" /\ ~Overtaken(hand)
  /\ handled' = handled \cup {hand}
  /\ hand' = None
  /\ last' = LaterOf(Ts[hand])
  /\ mq' = mq \cup {hand}
  /\ \/ seen = 0 /\ recv' = "idle" /\ UNCHANGED <<view, ws>>
     \/ seen = 1 /\ CanWrite /\ recv' = "idle" /\ view' = Append(view, hand) /\ UNCHANGED ws
     \/ seen = 1 /\ CanFail /\ recv' = "exit" /\ ws' = "closed" /\ UNCHANGED view
  /\ UNCHANGED <<sent, conn, ackOf, frames, gate, chan, seen, takeover, crashed>>

(* The receiver has something to write. The library panics when it notices *)
(* two writes at once, and it may not notice.                              *)
Writing ==
  \/ recv = "idle" /\ chan # <<>> /\ Head(chan).op = "FLUSH" /\ mq # {}
  \/ recv = "decide" /\ seen = 1

WritesMeet ==
  /\ Writing /\ conn \in {"greet", "answer"}
  /\ crashed' = TRUE
  /\ UNCHANGED <<sent, ws, conn, ackOf, frames, gate, chan, recv, hand, seen, last, mq,
                 view, handled, takeover>>

(* Op 30: the state goes to the router, then the websocket is closed.      *)
GiveState ==
  /\ Take("giveState")
  /\ recv' = "close"
  /\ setup' = "reply"
  /\ UNCHANGED <<sent, ws, conn, ackOf, frames, gate, hand, seen, last, mq, view, handled,
                 next, wsid, refresh, missed, owed, conns, crashed>>

RecvClose ==
  /\ recv = "close"
  /\ recv' = "idle"
  /\ ws' = "closed"
  /\ UNCHANGED <<sent, conn, ackOf, frames, gate, chan, hand, seen, last, mq, view, handled,
                 takeover, crashed>>

-----------------------------------------------------------------------------
(* connect_user and the start of the next connection.                      *)

(* Fault: the new connection finds the gate as it was left.                *)
GateAsLeft == gate

NewGate == 0

(* The next connection takes the place of this one, with ClientSocket in   *)
(* state c, its receiver in state r and ch in its channel.                 *)
NewConnection(c, r, id, ch) ==
  /\ ws' = "open" /\ conn' = c /\ ackOf' = None /\ frames' = 0
  /\ gate' = NewGate /\ chan' = ch
  /\ recv' = r /\ hand' = None /\ seen' = 0
  /\ view' = <<>>
  /\ setup' = "no" /\ next' = <<>> /\ wsid' = id

Waiting(q) == {q[i].p : i \in {j \in DOMAIN q : q[j].op = "payload"}}

(* It begins with an empty state: all but what waits for it is missed.     *)
Anew(ch) ==
  /\ last' = 0 /\ mq' = {} /\ handled' = {}
  /\ missed' = sent \ Waiting(ch)
  /\ owed' = TRUE
  /\ refresh' = TRUE

(* Fault: the first message is taken for op 31, whatever it is.            *)
RecoverFromAnything ==
  /\ setup # "no" /\ next # <<>> /\ Head(next).op # "noState"
  /\ NewConnection("greet", "idle", "new", Tail(next))
  /\ refresh' = FALSE
  /\ UNCHANGED <<sent, last, mq, handled, missed, owed, conns, crashed>>

(* The first message is op 31 with the state of the previous connection.   *)
Recover ==
  /\ setup # "no" /\ next # <<>> /\ Head(next).op = "state"
  /\ NewConnection("greet", "idle", "new", Tail(next))
  /\ refresh' = FALSE
  /\ UNCHANGED <<sent, last, mq, handled, missed, owed, conns, crashed>>

(* Op 31 without success: the connection serves, with nothing to hand on.  *)
StartEmpty ==
  /\ setup # "no" /\ next # <<>> /\ Head(next).op = "noState"
  /\ NewConnection("greet", "idle", "new", Tail(next))
  /\ Anew(Tail(next))
  /\ UNCHANGED <<sent, conns, crashed>>

(* A payload came first: it is consumed, and err_func removes the session, *)
(* whose WSID may still reach the client.                                  *)
SetupFails ==
  /\ setup # "no" /\ next # <<>> /\ Head(next).op \notin {"state", "noState"}
  /\ \E id \in {"void", "dropped"} : NewConnection("end", "exit", id, <<>>)
  /\ Anew(<<>>)
  /\ UNCHANGED <<sent, conns, crashed>>

(* A client that presents no WSID, or one the router does not hold current *)
(* for the session: op 32 goes to the connection it replaces, whether that *)
(* one serves or still waits for op 31 (and takes op 32 for it, in vain).  *)
Fresh ==
  /\ conns < MaxConns
  /\ conns' = conns + 1
  /\ NewConnection("greet", "idle", "new", <<>>)
  /\ Anew(<<>>)
  /\ UNCHANGED <<sent, crashed>>

-----------------------------------------------------------------------------
Next ==
  /\ ~crashed
  /\ \/ \E p \in Payloads : RouterPayload(p) \/ Ack(p)
     \/ RouterAskState \/ RouterState
     \/ Leave \/ Greet \/ Heartbeat \/ Answer \/ CloseGate
     \/ OpenGate \/ SendFlush \/ StoreGate \/ SendAck \/ End \/ Drop
     \/ Flush \/ TakeAck \/ TakePayload \/ LoadGate \/ Hint \/ Queue
     \/ WritesMeet \/ GiveState \/ RecvClose
     \/ Recover \/ StartEmpty \/ SetupFails \/ Fresh

Spec == Init /\ [][Next]_vars

Receiver ==
  \/ Flush \/ TakeAck \/ TakePayload \/ LoadGate \/ Hint \/ Queue
  \/ GiveState \/ RecvClose

(* The receiver, ClientSocket and connect_user are scheduled. The router   *)
(* need not send anything, not even op 31.                                 *)
Fairness ==
  /\ WF_vars(~crashed /\ Receiver)
  /\ WF_vars(~crashed /\ (SendFlush \/ StoreGate \/ SendAck))
  /\ WF_vars(~crashed /\ (Recover \/ StartEmpty \/ SetupFails))

FairSpec == Spec /\ Fairness

-----------------------------------------------------------------------------
(* A payload that was dealt with is queued, or was overtaken by a payload  *)
(* at least as recent which is queued: a recovered session hands over all  *)
(* that its client may have missed, or reason to refresh.                  *)
NothingForgotten ==
  \A p \in handled : p \in mq \/ \E q \in mq : Ts[q] >= Ts[p]

(* last_timestamp is the latest timestamp of the queue, so that comparing  *)
(* with it is comparing with everything the client was ever sent.          *)
LastIsLatest ==
  /\ \A p \in mq : Ts[p] <= last
  /\ last = 0 \/ \E p \in mq : Ts[p] = last

(* Between two flushes the client receives payloads in the order of their  *)
(* timestamps, the atomic ones excepted.                                   *)
ClientOrder ==
  \A i, j \in DOMAIN view :
    i < j /\ view[j] \notin Atomic => Ts[view[i]] <= Ts[view[j]]

(* ClientSocket and the receiver share a websocket without a lock. They    *)
(* never write to it at once, whatever a recovery brings, but for the      *)
(* answers to the client's heartbeats: nothing keeps those apart.          *)
OneWriter ==
  /\ conn = "greet" => ~Writing
  /\ crashed => conn = "answer"

(* What the receivers have not dealt with is in the receiver's hands or    *)
(* waits in a channel, across recoveries; none is dealt with twice. A      *)
(* payload is missed only when the WSID has left the table, when a set-up  *)
(* failed or when the session began anew, and no client is served then     *)
(* without having been told to refresh.                                    *)
NothingLostOrRepeated ==
  /\ handled \subseteq sent
  /\ sent \ handled \subseteq {hand} \cup Waiting(chan) \cup Waiting(next) \cup missed
  /\ (Waiting(chan) \cup Waiting(next)) \cap (handled \cup {hand}) = {}
  /\ wsid = "known" => ~owed

-----------------------------------------------------------------------------
(* Liveness.                                                               *)


==============================================================================
