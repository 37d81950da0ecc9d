-------------------------- MODULE MsgDeliveryProofs --------------------------
(***************************************************************************)
(* Proofs about MsgDelivery for every set of payloads, every assignment of *)
(* timestamps to them and every channel capacity.                          *)
(***************************************************************************)
EXTENDS MsgDelivery, FiniteSetTheorems, TLAPS

(* What the client has received since the last FLUSH is in the queue, so   *)
(* no payload in its view is later than last_timestamp.                    *)
ViewQueued == \A i \in DOMAIN view : view[i] \in mq

IInv == TypeOK /\ NothingForgotten /\ LastIsLatest /\ ViewQueued /\ ClientOrder

-----------------------------------------------------------------------------
(* Channels and flushes.                                                   *)

(* What is taken from a channel and what it leaves.                        *)
LEMMA TakeInSeq ==
  ASSUME NEW S, NEW s \in Seq(S), s # <<>>
  PROVE  Head(s) \in S /\ Tail(s) \in Seq(S)
OBVIOUS

(* A message put into a channel.                                           *)
LEMMA AppendInSeq ==
  ASSUME NEW S, NEW s \in Seq(S), NEW e \in S
  PROVE  Append(s, e) \in Seq(S)
OBVIOUS

(* Each order in which FLUSH may write the queue is a sequence of it.      *)
LEMMA OrderInSeq ==
  ASSUME TypeOK, NEW s \in Orders(mq)
  PROVE  /\ s \in Seq(mq) /\ s \in Seq(Payloads)
         /\ Sorted(s)
<1>1. IsFiniteSet(mq)
  BY ConstantsAssumption, FS_Subset DEF TypeOK
<1>2. Cardinality(mq) \in Nat
  BY <1>1, FS_CardinalityType
<1>3. s \in [1..Cardinality(mq) -> mq] /\ Sorted(s)
  BY DEF Orders
<1>4. s \in Seq(mq)
  BY <1>2, <1>3
<1>5. s \in Seq(Payloads)
  BY <1>4 DEF TypeOK
<1> QED BY <1>3, <1>4, <1>5

(* A FLUSH that fails after k payloads has written a sorted prefix.        *)
LEMMA PrefixOfOrder ==
  ASSUME NEW S \in SUBSET Payloads, NEW s \in Seq(S), Sorted(s), NEW k \in 0 .. Len(s) - 1
  PROVE  /\ SubSeq(s, 1, k) \in Seq(S)
         /\ Sorted(SubSeq(s, 1, k))
<1>1. SubSeq(s, 1, k) \in Seq(S)
  OBVIOUS
<1>2. DOMAIN SubSeq(s, 1, k) = 1 .. k
  OBVIOUS
<1>3. \A i \in 1 .. k : SubSeq(s, 1, k)[i] = s[i] /\ i \in DOMAIN s
  OBVIOUS
<1> QED BY <1>1, <1>2, <1>3 DEF Sorted

-----------------------------------------------------------------------------
(* Type correctness.                                                       *)

(* Each command and payload is an item that a channel may carry.           *)
LEMMA Items ==
  /\ \A p \in Payloads : ItemOf("payload", p) \in Item /\ ItemOf("ACK", p) \in Item
  /\ ItemOf("FLUSH", None) \in Item /\ ItemOf("giveState", None) \in Item
  /\ ItemOf("state", None) \in Item /\ ItemOf("noState", None) \in Item
BY DEF ItemOf, Item

(* An item with a payload names one.                                       *)
LEMMA ItemPayload ==
  ASSUME NEW m \in Item, m.op \in {"payload", "ACK"}
  PROVE  m.p \in Payloads
BY DEF Item

(* A connection that does not recover the state begins with an empty one.  *)
Begins == StartEmpty \/ SetupFails \/ Fresh

LEMMA EmptyState ==
  ASSUME Begins
  PROVE  last' = 0 /\ mq' = {} /\ handled' = {} /\ view' = <<>>
BY DEF Begins, StartEmpty, SetupFails, Fresh, NewConnection, Anew

(* Every step keeps the types.                                             *)
LEMMA TypeNext == TypeOK /\ [Next]_vars => TypeOK'
<1> SUFFICES ASSUME TypeOK, [Next]_vars PROVE TypeOK'
  OBVIOUS
<1>1. CASE UNCHANGED vars
  BY <1>1 DEF vars, takeover, TypeOK
<1>2. CASE RouterAskState
  <2>1. chan' \in Seq(Item)
    BY <1>2, Items, AppendInSeq DEF RouterAskState, Put, TypeOK
  <2> QED BY <1>2, <2>1 DEF RouterAskState, TypeOK
<1>3. ASSUME NEW p \in Payloads, RouterPayload(p) PROVE TypeOK'
  <2>1. /\ chan' \in Seq(Item) /\ next' \in Seq(Item)
        /\ missed' \subseteq Payloads /\ owed' \in BOOLEAN
    <3> DEFINE m == ItemOf("payload", p)
    <3>1. /\ m \in Item /\ chan \in Seq(Item) /\ next \in Seq(Item)
          /\ missed \subseteq Payloads /\ owed \in BOOLEAN
      BY Items DEF TypeOK
    <3>2. Append(chan, m) \in Seq(Item) /\ Append(next, m) \in Seq(Item)
      BY <3>1, AppendInSeq
    <3>3. CASE chan' = Append(chan, m) /\ UNCHANGED <<next, missed, owed>>
      BY <3>1, <3>2, <3>3
    <3>4. CASE next' = Append(next, m) /\ UNCHANGED <<chan, missed, owed>>
      BY <3>1, <3>2, <3>4
    <3>5. CASE missed' = missed \cup {p} /\ owed' = TRUE /\ UNCHANGED <<chan, next>>
      BY <3>1, <3>5
    <3>6. \/ chan' = Append(chan, m) /\ UNCHANGED <<next, missed, owed>>
          \/ next' = Append(next, m) /\ UNCHANGED <<chan, missed, owed>>
          \/ missed' = missed \cup {p} /\ owed' = TRUE /\ UNCHANGED <<chan, next>>
      BY <1>3 DEF RouterPayload, Put, takeover
    <3> QED BY <3>3, <3>4, <3>5, <3>6
  <2>2. setup' = setup /\ wsid' = wsid /\ refresh' = refresh /\ conns' = conns
    BY <1>3 DEF RouterPayload, takeover
  <2> QED BY <1>3, <2>1, <2>2 DEF RouterPayload, TypeOK
<1>4. ASSUME NEW p \in Payloads, Ack(p) PROVE TypeOK'
  BY <1>4, ConstantsAssumption DEF Ack, Frame, takeover, TypeOK
<1>5. CASE Leave \/ CloseGate \/ OpenGate \/ StoreGate \/ End
  BY <1>5 DEF Leave, CloseGate, OpenGate, StoreGate, End, Frame, takeover, TypeOK
<1>15. CASE Heartbeat \/ Answer
  BY <1>15 DEF Heartbeat, Answer, Frame, takeover, TypeOK
<1>16. CASE WritesMeet
  BY <1>16 DEF WritesMeet, takeover, TypeOK
<1>17. CASE Greet
  <2>1. owed' \in BOOLEAN
    BY <1>17 DEF Greet, TypeOK
  <2> QED BY <1>17, <2>1 DEF Greet, TypeOK
<1>18. CASE Drop
  BY <1>18 DEF Drop, TypeOK
<1>19. CASE RouterState
  <2>1. next' \in Seq(Item)
    BY <1>19, Items, AppendInSeq DEF RouterState, TypeOK
  <2> QED BY <1>19, <2>1 DEF RouterState, TypeOK
<1>6. CASE SendFlush \/ SendAck
  <2>1. chan' \in Seq(Item)
    BY <1>6, Items, AppendInSeq DEF SendFlush, SendAck, Put, TypeOK
  <2> QED BY <1>6, <2>1 DEF SendFlush, SendAck, takeover, TypeOK
<1>7. ASSUME NEW op, Take(op) PROVE chan' \in Seq(Item) /\ Head(chan) \in Item
  BY <1>7, TakeInSeq DEF Take, TypeOK
<1>8. CASE Flush
  <2>1. chan' \in Seq(Item)
    BY <1>7, <1>8 DEF Flush
  <2>2. view' \in Seq(Payloads) /\ recv' \in {"idle", "exit"}
    <3>1. CASE mq = {}
      BY <1>8, <3>1 DEF Flush, Take, TypeOK
    <3>2. CASE mq # {}
      <4>1. PICK s \in Orders(mq) :
              \/ view' = s /\ UNCHANGED recv
              \/ recv' = "exit" /\ \E k \in 0 .. Len(s) - 1 : view' = SubSeq(s, 1, k)
        BY <1>8, <3>2 DEF Flush
      <4>2. s \in Seq(mq) /\ s \in Seq(Payloads) /\ Sorted(s)
        BY OrderInSeq
      <4>3. view' \in Seq(Payloads)
        BY <4>1, <4>2
      <4>4. recv = "idle"
        BY <1>8 DEF Flush, Take
      <4> QED BY <4>1, <4>3, <4>4
    <3> QED BY <3>1, <3>2
  <2> QED BY <1>8, <2>1, <2>2 DEF Flush, takeover, TypeOK
<1>9. CASE TakeAck
  <2>1. chan' \in Seq(Item) /\ Head(chan).p \in Payloads
    BY <1>7, <1>9, ItemPayload DEF TakeAck, Take
  <2> QED BY <1>9, <2>1 DEF TakeAck, takeover, TypeOK
<1>10. CASE TakePayload
  <2>1. chan' \in Seq(Item) /\ Head(chan).p \in Payloads
    BY <1>7, <1>10, ItemPayload DEF TakePayload, Take
  <2> QED BY <1>10, <2>1, ConstantsAssumption DEF TakePayload, takeover, TypeOK
<1>11. CASE LoadGate \/ Hint
  BY <1>11 DEF LoadGate, Hint, takeover, TypeOK
<1>12. CASE Queue
  <2>1. hand \in Payloads /\ Ts[hand] \in Nat
    BY <1>12, ConstantsAssumption DEF Queue, TypeOK
  <2>2. last' \in Nat
    BY <1>12, <2>1 DEF Queue, LaterOf, TypeOK
  <2>3. view' \in Seq(Payloads)
    BY <1>12, <2>1, AppendInSeq DEF Queue, TypeOK
  <2> QED BY <1>12, <2>1, <2>2, <2>3 DEF Queue, takeover, TypeOK
<1>13. CASE GiveState
  BY <1>7, <1>13 DEF GiveState, TypeOK
<1>20. CASE RecvClose
  BY <1>20 DEF RecvClose, takeover, TypeOK
<1>21. ASSUME NEW ch \in Seq(Item),
              NEW c \in {"greet", "end"}, NEW r \in {"idle", "exit"},
              NEW id \in {"new", "void", "dropped"}, NewConnection(c, r, id, ch),
              last' \in Nat, mq' \subseteq Payloads, handled' \subseteq Payloads,
              missed' \subseteq Payloads, owed' \in BOOLEAN, refresh' \in BOOLEAN,
              conns' \in Nat, UNCHANGED <<sent, crashed>>
       PROVE  TypeOK'
  BY <1>21 DEF NewConnection, NewGate, TypeOK
<1>22. setup # "no" /\ next # <<>> => Tail(next) \in Seq(Item)
  BY TakeInSeq DEF TypeOK
<1>23. <<>> \in Seq(Item)
  OBVIOUS
<1>14. CASE Recover
  <2>1. NewConnection("greet", "idle", "new", Tail(next)) /\ Tail(next) \in Seq(Item)
    BY <1>14, <1>22 DEF Recover
  <2> QED BY <1>14, <1>21, <2>1 DEF Recover, TypeOK
<1>24. ASSUME NEW ch, Anew(ch), UNCHANGED sent
       PROVE  /\ last' \in Nat /\ mq' \subseteq Payloads /\ handled' \subseteq Payloads
              /\ missed' \subseteq Payloads /\ owed' \in BOOLEAN /\ refresh' \in BOOLEAN
  BY <1>24 DEF Anew, TypeOK
<1>25. CASE StartEmpty
  <2>1. /\ NewConnection("greet", "idle", "new", Tail(next)) /\ Tail(next) \in Seq(Item)
        /\ Anew(Tail(next)) /\ UNCHANGED <<sent, conns, crashed>> /\ conns' \in Nat
    BY <1>22, <1>25 DEF StartEmpty, TypeOK
  <2> QED BY <1>21, <1>24, <2>1
<1>26. CASE SetupFails
  <2>1. PICK id \in {"void", "dropped"} : NewConnection("end", "exit", id, <<>>)
    BY <1>26 DEF SetupFails
  <2>2. Anew(<<>>) /\ UNCHANGED <<sent, conns, crashed>> /\ conns' \in Nat
    BY <1>26 DEF SetupFails, TypeOK
  <2> QED BY <1>21, <1>23, <1>24, <2>1, <2>2
<1>27. CASE Fresh
  <2>1. /\ NewConnection("greet", "idle", "new", <<>>)
        /\ Anew(<<>>) /\ UNCHANGED <<sent, crashed>> /\ conns' \in Nat
    BY <1>27 DEF Fresh, TypeOK
  <2> QED BY <1>21, <1>23, <1>24, <2>1
<1> QED
  BY <1>1, <1>2, <1>3, <1>4, <1>5, <1>6, <1>8, <1>9, <1>10, <1>11, <1>12, <1>13, <1>14,
     <1>15, <1>16, <1>17, <1>18, <1>19, <1>20, <1>25, <1>26, <1>27
     DEF Next

-----------------------------------------------------------------------------
(* The queue and last_timestamp.                                           *)

(* Only Hint, Queue and a session that begins anew touch what was handled, *)
(* the queue and its latest timestamp.                                     *)
QueueKept == UNCHANGED <<handled, last, mq>>

LEMMA QueueFrame ==
  ASSUME [Next]_vars, ~Hint, ~Queue, ~Begins
  PROVE  QueueKept
BY DEF Next, vars, QueueKept, RouterAskState, RouterPayload, RouterState, Ack, Leave,
       CloseGate, OpenGate, SendFlush, StoreGate, SendAck, End, Drop, Flush, TakeAck,
       TakePayload, LoadGate, GiveState, RecvClose, Recover, Begins, Greet, Heartbeat,
       Answer, WritesMeet

(* A payload that is queued keeps last_timestamp the latest of the queue.  *)
LEMMA QueueStep ==
  ASSUME TypeOK, LastIsLatest, Queue
  PROVE  LastIsLatest' /\ hand \in mq' /\ last <= last'
<1>1. hand \in Payloads /\ Ts[hand] \in Nat /\ last \in Nat
  BY ConstantsAssumption DEF Queue, TypeOK
<1>2. \A p \in mq : Ts[p] \in Nat
  BY ConstantsAssumption DEF TypeOK
<1>3. last' = LaterOf(Ts[hand]) /\ mq' = mq \cup {hand}
  BY DEF Queue
<1>4. CASE Ts[hand] > last
  BY <1>1, <1>2, <1>3, <1>4 DEF LaterOf, LastIsLatest
<1>5. CASE ~(Ts[hand] > last)
  BY <1>1, <1>2, <1>3, <1>5 DEF LaterOf, LastIsLatest
<1> QED BY <1>4, <1>5

(* last_timestamp stays the latest timestamp of the queue.                 *)
LEMMA LastNext == TypeOK /\ LastIsLatest /\ [Next]_vars => LastIsLatest'
<1> SUFFICES ASSUME TypeOK, LastIsLatest, [Next]_vars PROVE LastIsLatest'
  OBVIOUS
<1>1. CASE Queue
  BY <1>1, QueueStep
<1>2. CASE Hint
  BY <1>2 DEF Hint, LastIsLatest
<1>3. CASE ~Queue /\ ~Hint /\ ~Begins
  BY <1>3, QueueFrame DEF QueueKept, LastIsLatest
<1>4. CASE Begins
  BY <1>4, EmptyState DEF LastIsLatest
<1> QED BY <1>1, <1>2, <1>3, <1>4

(* A payload is only left out of the queue when the queue already holds    *)
(* one that is at least as recent.                                         *)
LEMMA ForgottenNext ==
  TypeOK /\ LastIsLatest /\ NothingForgotten /\ [Next]_vars => NothingForgotten'
<1> SUFFICES ASSUME TypeOK, LastIsLatest, NothingForgotten, [Next]_vars
             PROVE  NothingForgotten'
  OBVIOUS
<1>1. CASE Queue
  BY <1>1 DEF Queue, NothingForgotten
<1>2. CASE Hint
  <2>1. handled' = handled \cup {hand} /\ mq' = mq
    BY <1>2 DEF Hint
  <2>2. hand \in Payloads /\ Ts[hand] \in Nat \ {0} /\ Ts[hand] <= last /\ last \in Nat
    BY <1>2, ConstantsAssumption DEF Hint, Overtaken, TypeOK
  <2>3. PICK q \in mq : Ts[q] = last
    BY <2>2 DEF LastIsLatest
  <2> QED BY <2>1, <2>2, <2>3 DEF NothingForgotten
<1>3. CASE ~Queue /\ ~Hint /\ ~Begins
  BY <1>3, QueueFrame DEF QueueKept, NothingForgotten
<1>4. CASE Begins
  BY <1>4, EmptyState DEF NothingForgotten
<1> QED BY <1>1, <1>2, <1>3, <1>4

-----------------------------------------------------------------------------
(* What the client sees.                                                   *)

(* Only FLUSH, Queue and a new connection change what the client has       *)
(* received.                                                               *)
LEMMA ViewFrame ==
  ASSUME [Next]_vars, ~Flush, ~Queue, ~Recover, ~Begins
  PROVE  UNCHANGED view
BY DEF Next, vars, RouterAskState, RouterPayload, RouterState, Ack, Leave, CloseGate,
       OpenGate, SendFlush, StoreGate, SendAck, End, Drop, TakeAck, TakePayload, LoadGate,
       GiveState, RecvClose, Hint, Begins, Greet, Heartbeat, Answer, WritesMeet

(* A FLUSH leaves the client with a sorted part of the queue.              *)
LEMMA FlushStep ==
  ASSUME TypeOK, ViewQueued, ClientOrder, Flush
  PROVE  ViewQueued' /\ ClientOrder'
<1>1. mq' = mq
  BY DEF Flush
<1>2. CASE mq = {}
  BY <1>1, <1>2 DEF Flush, ViewQueued, ClientOrder
<1>3. CASE mq # {}
  <2>1. PICK s \in Orders(mq) :
          \/ view' = s
          \/ \E k \in 0 .. Len(s) - 1 : view' = SubSeq(s, 1, k)
    BY <1>3 DEF Flush
  <2>2. s \in Seq(mq) /\ Sorted(s) /\ mq \in SUBSET Payloads
    BY OrderInSeq DEF TypeOK
  <2>3. view' \in Seq(mq) /\ Sorted(view')
    <3>1. CASE view' = s
      BY <2>2, <3>1
    <3>2. ASSUME NEW k \in 0 .. Len(s) - 1, view' = SubSeq(s, 1, k)
          PROVE  view' \in Seq(mq) /\ Sorted(view')
      BY <2>2, <3>2, PrefixOfOrder
    <3> QED BY <2>1, <3>1, <3>2
  <2>4. ViewQueued'
    BY <1>1, <2>3 DEF ViewQueued
  <2>5. ClientOrder'
    BY <2>3 DEF ClientOrder, Sorted
  <2> QED BY <2>4, <2>5
<1> QED BY <1>2, <1>3

(* A payload written by the receiver is atomic or later than all that the  *)
(* client has received.                                                    *)
LEMMA WriteStep ==
  ASSUME TypeOK, LastIsLatest, ViewQueued, ClientOrder, Queue
  PROVE  ViewQueued' /\ ClientOrder'
<1>1. mq' = mq \cup {hand} /\ (view' = view \/ (view' = Append(view, hand) /\ seen = 1))
  BY DEF Queue
<1>2. CASE view' = view
  BY <1>1, <1>2 DEF ViewQueued, ClientOrder
<1>3. CASE view' = Append(view, hand) /\ seen = 1
  <2>1. hand \in Payloads /\ Ts[hand] \in Nat /\ last \in Nat
    BY ConstantsAssumption DEF Queue, TypeOK
  <2>2. hand \in Atomic \/ Ts[hand] > last
    BY <1>3, <2>1 DEF Queue, Overtaken
  <2>3. view \in Seq(Payloads)
    BY DEF TypeOK
  <2>4. /\ DOMAIN view' = 1 .. Len(view) + 1 /\ DOMAIN view = 1 .. Len(view)
        /\ Len(view) \in Nat
        /\ view'[Len(view) + 1] = hand
        /\ \A i \in 1 .. Len(view) : view'[i] = view[i]
    BY <1>3, <2>1, <2>3
  <2>5. ViewQueued'
    BY <1>1, <2>4 DEF ViewQueued
  <2>6. \A i \in DOMAIN view : Ts[view[i]] <= last /\ Ts[view[i]] \in Nat
    BY ConstantsAssumption DEF ViewQueued, LastIsLatest, TypeOK
  <2>7. ClientOrder'
    <3> SUFFICES ASSUME NEW i \in DOMAIN view', NEW j \in DOMAIN view',
                        i < j, view'[j] \notin Atomic
                 PROVE  Ts[view'[i]] <= Ts[view'[j]]
      BY DEF ClientOrder
    <3>1. CASE j = Len(view) + 1
      <4>1. i \in DOMAIN view
        BY <2>4, <3>1
      <4> QED BY <2>1, <2>2, <2>4, <2>6, <3>1, <4>1
    <3>2. CASE j # Len(view) + 1
      <4>1. i \in DOMAIN view /\ j \in DOMAIN view
        BY <2>4, <3>2
      <4> QED BY <2>4, <4>1 DEF ClientOrder
    <3> QED BY <3>1, <3>2
  <2> QED BY <2>5, <2>7
<1> QED BY <1>1, <1>2, <1>3

(* Every step keeps the order of what the client sees.                     *)
LEMMA OrderNext == IInv /\ [Next]_vars => ViewQueued' /\ ClientOrder'
<1> SUFFICES ASSUME IInv, [Next]_vars PROVE ViewQueued' /\ ClientOrder'
  OBVIOUS
<1>1. CASE Flush
  BY <1>1, FlushStep DEF IInv
<1>2. CASE Queue
  BY <1>2, WriteStep DEF IInv
<1>3. CASE Recover \/ Begins
  <2>1. view' = <<>>
    BY <1>3, EmptyState DEF Recover, NewConnection
  <2> QED BY <2>1 DEF ViewQueued, ClientOrder
<1>4. CASE ~Flush /\ ~Queue /\ ~Recover /\ ~Begins
  <2>1. UNCHANGED view
    BY <1>4, ViewFrame
  <2>2. mq' = mq
    BY <1>4, QueueFrame DEF Hint, QueueKept
  <2> QED BY <2>1, <2>2 DEF IInv, ViewQueued, ClientOrder
<1> QED BY <1>1, <1>2, <1>3, <1>4

-----------------------------------------------------------------------------
(* IInv is inductive.                                                      *)
LEMMA InitType == Init => TypeOK
<1>1. Init => crashed \in BOOLEAN /\ owed \in BOOLEAN /\ refresh \in BOOLEAN
  BY DEF Init
<1> QED BY <1>1, ConstantsAssumption DEF Init, TypeOK

LEMMA Inductive == Spec => []IInv
<1>1. Init => IInv
  BY InitType DEF Init, IInv, NothingForgotten, LastIsLatest, ViewQueued, ClientOrder
<1>2. IInv /\ [Next]_vars => IInv'
  BY TypeNext, LastNext, ForgottenNext, OrderNext DEF IInv
<1> QED BY <1>1, <1>2, PTL DEF Spec

(* Every reachable state of a session's delivery is well typed.            *)
THEOREM TypeCorrect == Spec => []TypeOK
<1>1. IInv => TypeOK
  BY DEF IInv
<1> QED BY <1>1, Inductive, PTL

(* Whatever the order of timestamps and however often the session is       *)
(* recovered, a payload that was dealt with is queued or was overtaken by  *)
(* one that is queued.                                                     *)
THEOREM NeverForgotten == Spec => []NothingForgotten
<1>1. IInv => NothingForgotten
  BY DEF IInv
<1> QED BY <1>1, Inductive, PTL

(* last_timestamp always is the latest timestamp in the queue.             *)
THEOREM LastCorrect == Spec => []LastIsLatest
<1>1. IInv => LastIsLatest
  BY DEF IInv
<1> QED BY <1>1, Inductive, PTL

(* Between two flushes the client receives the payloads that are not       *)
(* atomic in the order of their timestamps.                                *)
THEOREM OrderCorrect == Spec => []ClientOrder
<1>1. IInv => ClientOrder
  BY DEF IInv
<1> QED BY <1>1, Inductive, PTL

-----------------------------------------------------------------------------
(* What a queue of messages holds.                                         *)

(* A message that was put at the end.                                      *)
LEMMA AppendAt ==
  ASSUME NEW q \in Seq(Item), NEW m \in Item
  PROVE  /\ Append(q, m) \in Seq(Item)
         /\ Len(q) \in Nat /\ DOMAIN q = 1 .. Len(q)
         /\ DOMAIN Append(q, m) = 1 .. Len(q) + 1
         /\ Append(q, m)[Len(q) + 1] = m
         /\ \A i \in DOMAIN q : i \in DOMAIN Append(q, m) /\ Append(q, m)[i] = q[i]
OBVIOUS

(* What is left when the first message was taken.                          *)
LEMMA TailAt ==
  ASSUME NEW q \in Seq(Item), q # <<>>
  PROVE  /\ Tail(q) \in Seq(Item)
         /\ Len(q) \in Nat /\ Len(q) >= 1 /\ DOMAIN q = 1 .. Len(q)
         /\ Head(q) = q[1] /\ Head(q) \in Item
         /\ DOMAIN Tail(q) = 1 .. Len(q) - 1
         /\ \A i \in DOMAIN Tail(q) : i + 1 \in DOMAIN q /\ Tail(q)[i] = q[i + 1]
         /\ \A i \in DOMAIN q : i = 1 \/ (i - 1 \in DOMAIN Tail(q) /\ Tail(q)[i - 1] = q[i])
OBVIOUS

(* A message of one of some kinds is in the queue.                         *)
Has(q, ops) == \E i \in DOMAIN q : q[i].op \in ops

LEMMA HasAppend ==
  ASSUME NEW q \in Seq(Item), NEW m \in Item, NEW ops
  PROVE  Has(Append(q, m), ops) <=> Has(q, ops) \/ m.op \in ops
<1>1. ASSUME Has(Append(q, m), ops) PROVE Has(q, ops) \/ m.op \in ops
  <2>1. PICK i \in DOMAIN Append(q, m) : Append(q, m)[i].op \in ops
    BY <1>1 DEF Has
  <2>2. i \in DOMAIN q \/ i = Len(q) + 1
    BY <2>1, AppendAt
  <2> QED BY <2>1, <2>2, AppendAt DEF Has
<1>2. ASSUME Has(q, ops) PROVE Has(Append(q, m), ops)
  BY <1>2, AppendAt DEF Has
<1>3. Len(q) + 1 \in DOMAIN Append(q, m)
  BY AppendAt
<1>4. ASSUME m.op \in ops PROVE Has(Append(q, m), ops)
  BY <1>3, <1>4, AppendAt DEF Has
<1> QED BY <1>1, <1>2, <1>4

LEMMA HasTail ==
  ASSUME NEW q \in Seq(Item), q # <<>>, NEW ops
  PROVE  /\ Has(Tail(q), ops) => Has(q, ops)
         /\ Head(q).op \in ops => Has(q, ops)
<1>1. 1 \in DOMAIN q
  BY TailAt
<1> QED BY <1>1, TailAt DEF Has

(* The payloads that wait in it, before and after.                         *)
LEMMA WaitingIn ==
  ASSUME NEW q, NEW p
  PROVE  p \in Waiting(q) <=> \E i \in DOMAIN q : q[i].op = "payload" /\ q[i].p = p
BY DEF Waiting

LEMMA WaitingAppend ==
  ASSUME NEW q \in Seq(Item), NEW m \in Item
  PROVE  /\ m.op # "payload" => Waiting(Append(q, m)) = Waiting(q)
         /\ m.op = "payload" => Waiting(Append(q, m)) = Waiting(q) \cup {m.p}
<1>1. ASSUME NEW p \in Waiting(q) PROVE p \in Waiting(Append(q, m))
  <2>1. PICK i \in DOMAIN q : q[i].op = "payload" /\ q[i].p = p
    BY <1>1, WaitingIn
  <2>2. /\ i \in DOMAIN Append(q, m)
        /\ Append(q, m)[i].op = "payload" /\ Append(q, m)[i].p = p
    BY <2>1, AppendAt
  <2> QED BY <2>2 DEF Waiting
<1>2. ASSUME NEW p \in Waiting(Append(q, m))
      PROVE  p \in Waiting(q) \/ (m.op = "payload" /\ p = m.p)
  <2>1. PICK i \in DOMAIN Append(q, m) :
          Append(q, m)[i].op = "payload" /\ Append(q, m)[i].p = p
    BY <1>2, WaitingIn
  <2>2. i \in DOMAIN q \/ i = Len(q) + 1
    BY <2>1, AppendAt
  <2> QED BY <2>1, <2>2, AppendAt, WaitingIn
<1>3. Len(q) + 1 \in DOMAIN Append(q, m)
  BY AppendAt
<1>4. m.op = "payload" => m.p \in Waiting(Append(q, m))
  <2>1. Append(q, m)[Len(q) + 1] = m
    BY AppendAt
  <2> QED BY <1>3, <2>1 DEF Waiting
<1> QED BY <1>1, <1>2, <1>4

LEMMA WaitingTail ==
  ASSUME NEW q \in Seq(Item), q # <<>>
  PROVE  /\ Head(q).op # "payload" => Waiting(Tail(q)) = Waiting(q)
         /\ Head(q).op = "payload" => Waiting(q) = Waiting(Tail(q)) \cup {Head(q).p}
<1>1. ASSUME NEW p \in Waiting(Tail(q)) PROVE p \in Waiting(q)
  <2>1. PICK i \in DOMAIN Tail(q) : Tail(q)[i].op = "payload" /\ Tail(q)[i].p = p
    BY <1>1, WaitingIn
  <2>2. i + 1 \in DOMAIN q /\ q[i + 1].op = "payload" /\ q[i + 1].p = p
    BY <2>1, TailAt
  <2> QED BY <2>2 DEF Waiting
<1>2. ASSUME NEW p \in Waiting(q)
      PROVE  p \in Waiting(Tail(q)) \/ (Head(q).op = "payload" /\ p = Head(q).p)
  <2>1. PICK i \in DOMAIN q : q[i].op = "payload" /\ q[i].p = p
    BY <1>2, WaitingIn
  <2>2. i = 1 \/ (i - 1 \in DOMAIN Tail(q) /\ Tail(q)[i - 1] = q[i])
    BY <2>1, TailAt
  <2>3. CASE i = 1
    BY <2>1, <2>3, TailAt
  <2>4. CASE i - 1 \in DOMAIN Tail(q) /\ Tail(q)[i - 1] = q[i]
    BY <2>1, <2>4 DEF Waiting
  <2> QED BY <2>2, <2>3, <2>4
<1>3. 1 \in DOMAIN q
  BY TailAt
<1>4. Head(q).op = "payload" => Head(q).p \in Waiting(q)
  BY <1>3, TailAt, WaitingIn
<1> QED BY <1>1, <1>2, <1>4

LEMMA NoneWaits == Waiting(<<>>) = {}
BY DEF Waiting

(* Each payload waits in it once, and nothing that matters follows op 30.  *)
Payload(q, i) == i \in DOMAIN q /\ q[i].op = "payload"

Once(q) ==
  \A i, j \in DOMAIN q : Payload(q, i) /\ Payload(q, j) /\ q[i].p = q[j].p => i = j

AskedLast(q) ==
  \A i, j \in DOMAIN q :
    q[i].op = "giveState" /\ q[j].op \in {"payload", "giveState"} => j <= i

LEMMA OnceAppend ==
  ASSUME NEW q \in Seq(Item), NEW m \in Item, Once(q),
         m.op # "payload" \/ m.p \notin Waiting(q)
  PROVE  Once(Append(q, m))
<1>1. ASSUME NEW i, Payload(Append(q, m), i)
      PROVE  \/ Payload(q, i) /\ Append(q, m)[i] = q[i]
             \/ i = Len(q) + 1 /\ Append(q, m)[i] = m /\ m.op = "payload"
  BY <1>1, AppendAt DEF Payload
<1>2. ASSUME NEW i, Payload(q, i) PROVE q[i].p \in Waiting(q)
  BY <1>2 DEF Payload, Waiting
<1> SUFFICES ASSUME NEW i, NEW j, Payload(Append(q, m), i), Payload(Append(q, m), j),
                    Append(q, m)[i].p = Append(q, m)[j].p
             PROVE  i = j
  BY DEF Once
<1>3. CASE Payload(q, i) /\ Payload(q, j) /\ Append(q, m)[i] = q[i] /\ Append(q, m)[j] = q[j]
  BY <1>3 DEF Once, Payload
<1>4. CASE i = Len(q) + 1 /\ j = Len(q) + 1
  BY <1>4
<1>5. ASSUME NEW k, Payload(q, k), m.op = "payload", q[k].p = m.p PROVE FALSE
  BY <1>2, <1>5
<1> QED BY <1>1, <1>3, <1>4, <1>5

LEMMA OnceTail ==
  ASSUME NEW q \in Seq(Item), q # <<>>, Once(q)
  PROVE  /\ Once(Tail(q))
         /\ Head(q).op = "payload" => Head(q).p \notin Waiting(Tail(q))
<1>1. ASSUME NEW i, Payload(Tail(q), i)
      PROVE  Payload(q, i + 1) /\ Tail(q)[i] = q[i + 1] /\ i \in Nat /\ i >= 1
  BY <1>1, TailAt DEF Payload
<1>2. Once(Tail(q))
  <2> SUFFICES ASSUME NEW i, NEW j, Payload(Tail(q), i), Payload(Tail(q), j),
                      Tail(q)[i].p = Tail(q)[j].p
               PROVE  i = j
    BY DEF Once
  <2>1. i + 1 = j + 1 /\ i \in Nat /\ j \in Nat
    BY <1>1 DEF Once, Payload
  <2> QED BY <2>1
<1>3. ASSUME Head(q).op = "payload", Head(q).p \in Waiting(Tail(q)) PROVE FALSE
  <2>1. PICK i \in DOMAIN Tail(q) : Tail(q)[i].op = "payload" /\ Tail(q)[i].p = Head(q).p
    BY <1>3 DEF Waiting
  <2>2. Payload(q, i + 1) /\ q[i + 1].p = q[1].p /\ i \in Nat /\ i >= 1
    BY <1>1, <2>1, TailAt DEF Payload
  <2>3. Payload(q, 1)
    BY <1>3, TailAt DEF Payload
  <2>4. i + 1 = 1
    BY <2>2, <2>3 DEF Once, Payload
  <2> QED BY <2>2, <2>4
<1> QED BY <1>2, <1>3

LEMMA AskedAppend ==
  ASSUME NEW q \in Seq(Item), NEW m \in Item, AskedLast(q),
         m.op \in {"payload", "giveState"} => ~Has(q, {"giveState"})
  PROVE  AskedLast(Append(q, m))
<1>1. ASSUME NEW i \in DOMAIN Append(q, m)
      PROVE  \/ i \in DOMAIN q /\ Append(q, m)[i] = q[i] /\ i <= Len(q) + 1
             \/ i = Len(q) + 1 /\ Append(q, m)[i] = m
  BY <1>1, AppendAt
<1> SUFFICES ASSUME NEW i \in DOMAIN Append(q, m), NEW j \in DOMAIN Append(q, m),
                    Append(q, m)[i].op = "giveState",
                    Append(q, m)[j].op \in {"payload", "giveState"}
             PROVE  j <= i
  BY DEF AskedLast
<1>2. CASE i = Len(q) + 1
  BY <1>1, <1>2, AppendAt
<1>3. CASE i # Len(q) + 1
  <2>1. i \in DOMAIN q /\ q[i].op = "giveState" /\ Has(q, {"giveState"})
    BY <1>1, <1>3 DEF Has
  <2>2. j \in DOMAIN q /\ q[j].op \in {"payload", "giveState"}
    BY <1>1, <2>1
  <2> QED BY <2>1, <2>2 DEF AskedLast
<1> QED BY <1>2, <1>3

LEMMA AskedTail ==
  ASSUME NEW q \in Seq(Item), q # <<>>, AskedLast(q)
  PROVE  /\ AskedLast(Tail(q))
         /\ Head(q).op = "giveState" =>
              Waiting(Tail(q)) = {} /\ ~Has(Tail(q), {"giveState"})
<1>1. ASSUME NEW i \in DOMAIN Tail(q)
      PROVE  i + 1 \in DOMAIN q /\ Tail(q)[i] = q[i + 1] /\ i \in Nat /\ i >= 1
  BY <1>1, TailAt
<1>2. AskedLast(Tail(q))
  <2> SUFFICES ASSUME NEW i \in DOMAIN Tail(q), NEW j \in DOMAIN Tail(q),
                      Tail(q)[i].op = "giveState",
                      Tail(q)[j].op \in {"payload", "giveState"}
               PROVE  j <= i
    BY DEF AskedLast
  <2>1. j + 1 <= i + 1 /\ i \in Nat /\ j \in Nat
    BY <1>1 DEF AskedLast
  <2> QED BY <2>1
<1>3. ASSUME Head(q).op = "giveState", NEW i \in DOMAIN Tail(q),
             Tail(q)[i].op \in {"payload", "giveState"}
      PROVE  FALSE
  <2>1. 1 \in DOMAIN q /\ q[1].op = "giveState"
    BY <1>3, TailAt
  <2>2. i + 1 <= 1 /\ i \in Nat /\ i >= 1
    BY <1>1, <1>3, <2>1 DEF AskedLast
  <2> QED BY <2>2
<1>4. ASSUME Head(q).op = "giveState" PROVE Waiting(Tail(q)) = {}
  BY <1>3, <1>4, WaitingIn
<1> QED BY <1>2, <1>3, <1>4 DEF Has

-----------------------------------------------------------------------------
(* Two writers. While ClientSocket writes op 1002 the gate has not been    *)
(* open and no FLUSH was sent; the channel of a connection that is set up  *)
(* never holds one.                                                        *)
WriterInv ==
  /\ conn = "greet" => gate = 0 /\ seen = 0 /\ ~Has(chan, {"FLUSH"})
  /\ ~Has(next, {"FLUSH"})
  /\ crashed => conn = "answer"

LEMMA EmptyHasNone == \A ops : ~Has(<<>>, ops)
BY DEF Has

LEMMA WriterNext == TypeOK /\ WriterInv /\ [Next]_vars => WriterInv'
<1> SUFFICES ASSUME TypeOK, WriterInv, [Next]_vars PROVE WriterInv'
  OBVIOUS
<1> USE DEF takeover
<1>0. chan \in Seq(Item) /\ next \in Seq(Item)
  BY DEF TypeOK
<1>1. CASE UNCHANGED vars
  BY <1>1 DEF vars, WriterInv
<1>2. ASSUME NEW m \in Item, Put(m), m.op # "FLUSH",
             UNCHANGED <<conn, gate, seen, next, crashed>>
      PROVE  WriterInv'
  BY <1>0, <1>2, HasAppend DEF WriterInv, Put
<1>3. ASSUME NEW op, Take(op), UNCHANGED <<conn, gate, seen, next, crashed>>
      PROVE  WriterInv'
  BY <1>0, <1>3, HasTail DEF WriterInv, Take
<1>17. ASSUME NEW m \in Item, next' = Append(next, m), m.op # "FLUSH",
              UNCHANGED <<conn, gate, seen, chan, crashed>>
       PROVE  WriterInv'
  BY <1>0, <1>17, HasAppend DEF WriterInv
<1>18. ASSUME UNCHANGED <<conn, gate, seen, chan, next, crashed>> PROVE WriterInv'
  BY <1>18 DEF WriterInv
<1>4. CASE RouterAskState
  BY <1>2, <1>4, <1>18, Items DEF RouterAskState, ItemOf
<1>5. ASSUME NEW p \in Payloads, RouterPayload(p) PROVE WriterInv'
  <2>1. ItemOf("payload", p) \in Item /\ ItemOf("payload", p).op # "FLUSH"
    BY Items DEF ItemOf
  <2> QED BY <1>2, <1>5, <1>17, <1>18, <2>1 DEF RouterPayload
<1>19. CASE RouterState
  <2>1. PICK op \in {"state", "noState"} : next' = Append(next, ItemOf(op, None))
    BY <1>19 DEF RouterState
  <2>2. ItemOf(op, None) \in Item /\ ItemOf(op, None).op # "FLUSH"
    BY <2>1, Items DEF ItemOf
  <2> QED BY <1>17, <1>19, <2>1, <2>2 DEF RouterState
<1>6. ASSUME ~crashed, conn # "greet", conn' # "greet", UNCHANGED <<next, crashed>>
      PROVE  WriterInv'
  BY <1>6 DEF WriterInv
<1>7. ASSUME ~crashed, NEW p \in Payloads, Ack(p) PROVE WriterInv'
  BY <1>6, <1>7 DEF Ack, Frame
<1>8. CASE ~crashed /\ (Heartbeat \/ Answer \/ CloseGate \/ OpenGate \/ End)
  BY <1>6, <1>8 DEF Heartbeat, Answer, CloseGate, OpenGate, End, Frame
<1>9. CASE ~crashed /\ (SendFlush \/ StoreGate \/ SendAck)
  BY <1>6, <1>9 DEF SendFlush, StoreGate, SendAck
<1>10. CASE ~crashed /\ Greet
  BY <1>10 DEF Greet, WriterInv
<1>11. CASE Leave \/ Drop \/ RecvClose
  BY <1>11, <1>18 DEF Leave, Drop, RecvClose
<1>12. CASE Flush \/ TakeAck \/ TakePayload \/ GiveState
  BY <1>3, <1>12 DEF Flush, TakeAck, TakePayload, GiveState
<1>13. CASE ~crashed /\ LoadGate
  BY <1>13 DEF LoadGate, WriterInv
<1>14. CASE Hint \/ Queue
  BY <1>14, <1>18 DEF Hint, Queue
<1>15. CASE ~crashed /\ WritesMeet
  <2>1. conn # "greet"
    BY <1>0, <1>15, HasTail DEF WritesMeet, Writing, WriterInv
  <2> QED BY <1>15, <2>1 DEF WritesMeet, WriterInv
<1>16. ASSUME ~crashed, NEW c, NEW r, NEW id, NEW ch, NewConnection(c, r, id, ch),
              ~Has(ch, {"FLUSH"}), UNCHANGED crashed
       PROVE  WriterInv'
  BY <1>16, EmptyHasNone DEF NewConnection, NewGate, WriterInv
<1>20. next # <<>> => ~Has(Tail(next), {"FLUSH"})
  BY <1>0, HasTail DEF WriterInv
<1>21. CASE ~crashed /\ (Recover \/ StartEmpty)
  BY <1>16, <1>20, <1>21 DEF Recover, StartEmpty
<1>22. CASE ~crashed /\ (SetupFails \/ Fresh)
  BY <1>16, <1>22, EmptyHasNone DEF SetupFails, Fresh
<1> QED
  BY <1>1, <1>4, <1>5, <1>7, <1>8, <1>9, <1>10, <1>11, <1>12, <1>13, <1>14, <1>15, <1>19,
     <1>21, <1>22
     DEF Next

(* A command to flush is at the head only if there is one.                 *)
LEMMA WriterInvImplies == TypeOK /\ WriterInv => OneWriter
BY HasTail DEF TypeOK, WriterInv, OneWriter, Writing

(* Op 1002 is written while the receiver cannot write, and the process     *)
(* only panics over an answer to a heartbeat.                              *)
THEOREM OneWriterCorrect == Spec => []OneWriter
<1>1. Init => TypeOK /\ WriterInv
  BY InitType, EmptyHasNone DEF Init, WriterInv
<1>2. (TypeOK /\ WriterInv) /\ [Next]_vars => (TypeOK /\ WriterInv)'
  BY TypeNext, WriterNext
<1>3. TypeOK /\ WriterInv => OneWriter
  BY WriterInvImplies
<1> QED BY <1>1, <1>2, <1>3, PTL DEF Spec

-----------------------------------------------------------------------------
(* Nothing lost or repeated. Each payload that was sent is in one place;   *)
(* none follows an op 30 in its channel; once the state was given nothing  *)
(* waits for the receiver that gave it; and while somebody may answer the  *)
(* next connection, its client has no refresh to make up for.              *)
Delivered ==
  /\ handled \subseteq sent
  /\ hand # None => hand \in sent /\ hand \notin handled
  /\ hand # None <=> recv \in {"load", "decide"}

Apart ==
  /\ Waiting(chan) \cup Waiting(next) \subseteq sent
  /\ Waiting(chan) \cap Waiting(next) = {}
  /\ (Waiting(chan) \cup Waiting(next)) \cap (handled \cup {hand}) = {}
  /\ Once(chan) /\ Once(next)

NoneLost ==
  sent \ handled \subseteq {hand} \cup Waiting(chan) \cup Waiting(next) \cup missed

Given == setup = "reply" \/ Has(next, {"state"})

HandOver ==
  /\ AskedLast(chan)
  /\ Has(chan, {"giveState"}) => setup = "wait"
  /\ setup = "no" => next = <<>>
  /\ ~Has(next, {"giveState"})
  /\ Given => hand = None /\ Waiting(chan) = {}

Told ==
  /\ wsid = "known" => ~owed
  /\ Has(chan, {"giveState"}) \/ Given => ~owed
  /\ conn = "greet" => wsid = "new" /\ (refresh \/ ~owed)

PlaceInv == Delivered /\ Apart /\ NoneLost /\ HandOver /\ Told

(* A step that leaves the payloads and the hand-over where they are.       *)
LEMMA StillInPlace ==
  ASSUME PlaceInv,
         UNCHANGED <<sent, hand, handled, chan, setup, next, wsid, refresh, missed, owed>>,
         recv' \in {"load", "decide"} <=> recv \in {"load", "decide"},
         conn' = "greet" => conn = "greet"
  PROVE  PlaceInv'
BY DEF PlaceInv, Delivered, Apart, NoneLost, Given, HandOver, Told

LEMMA Queues ==
  ASSUME TypeOK
  PROVE  chan \in Seq(Item) /\ next \in Seq(Item) /\ None \notin sent
BY ConstantsAssumption DEF TypeOK

(* A command of ClientSocket is no payload.                                *)
LEMMA CommandPut ==
  ASSUME TypeOK, PlaceInv, NEW m \in Item, Put(m), m.op \in {"FLUSH", "ACK"},
         UNCHANGED <<sent, hand, handled, recv, setup, next, wsid, refresh, missed, owed>>,
         conn' # "greet"
  PROVE  PlaceInv'
<1>1. chan \in Seq(Item) /\ chan' = Append(chan, m)
  BY Queues DEF Put
<1>2. Waiting(chan') = Waiting(chan)
  BY <1>1, WaitingAppend
<1>3. Once(chan) => Once(chan')
  BY <1>1, OnceAppend
<1>4. AskedLast(chan) => AskedLast(chan')
  BY <1>1, AskedAppend
<1>5. Has(chan', {"giveState"}) => Has(chan, {"giveState"})
  BY <1>1, HasAppend
<1> QED
  BY <1>2, <1>3, <1>4, <1>5
     DEF PlaceInv, Delivered, Apart, NoneLost, Given, HandOver, Told

(* Before op 30 nothing is under way.                                      *)
LEMMA NothingUnderWay ==
  ASSUME PlaceInv, setup = "no"
  PROVE  next = <<>> /\ ~Has(chan, {"giveState"}) /\ ~Given
BY EmptyHasNone DEF PlaceInv, HandOver, Given

(* A payload goes to the channel of the connection that serves, to that of *)
(* the one that is set up, or nowhere.                                     *)
LEMMA PayloadPut ==
  ASSUME TypeOK, PlaceInv, NEW p \in Payloads, RouterPayload(p)
  PROVE  PlaceInv'
<1> DEFINE m == ItemOf("payload", p)
<1>1. m \in Item /\ m.op = "payload" /\ m.p = p
  BY Items DEF ItemOf
<1>2. /\ sent' = sent \cup {p} /\ p \notin sent
      /\ UNCHANGED <<hand, handled, recv, conn, setup, wsid, refresh>>
  BY DEF RouterPayload, takeover
<1>3. chan \in Seq(Item) /\ next \in Seq(Item)
  BY Queues
<1>4. hand # p /\ p \notin handled /\ p \notin Waiting(chan) /\ p \notin Waiting(next)
  BY <1>2, ConstantsAssumption DEF PlaceInv, Delivered, Apart
<1>5. Delivered'
  BY <1>2 DEF PlaceInv, Delivered
<1>6. CASE setup = "no" /\ Put(m) /\ UNCHANGED <<next, missed, owed>>
  <2>1. chan' = Append(chan, m) /\ Waiting(chan') = Waiting(chan) \cup {p}
    BY <1>1, <1>3, <1>6, WaitingAppend DEF Put
  <2>2. Once(chan') /\ AskedLast(chan') /\ ~Has(chan', {"giveState"})
    BY <1>1, <1>3, <1>4, <1>6, <2>1, OnceAppend, AskedAppend, HasAppend, NothingUnderWay
       DEF PlaceInv, Apart, HandOver
  <2>3. ~Given /\ ~Given'
    BY <1>2, <1>6, NothingUnderWay DEF Given
  <2>4. Apart' /\ NoneLost'
    BY <1>2, <1>4, <1>6, <2>1, <2>2 DEF PlaceInv, Apart, NoneLost
  <2>5. HandOver' /\ Told'
    BY <1>2, <1>6, <2>2, <2>3 DEF PlaceInv, HandOver, Told
  <2> QED BY <1>5, <2>4, <2>5 DEF PlaceInv
<1>7. CASE setup # "no" /\ next' = Append(next, m) /\ UNCHANGED <<chan, missed, owed>>
  <2>1. Waiting(next') = Waiting(next) \cup {p}
    BY <1>1, <1>3, <1>7, WaitingAppend
  <2>2. Once(next') /\ (Has(next', {"state"}) <=> Has(next, {"state"}))
        /\ (Has(next', {"giveState"}) <=> Has(next, {"giveState"}))
    BY <1>1, <1>3, <1>4, <1>7, OnceAppend, HasAppend DEF PlaceInv, Apart
  <2>3. Given' <=> Given
    BY <1>2, <2>2 DEF Given
  <2>4. Apart' /\ NoneLost'
    BY <1>2, <1>4, <1>7, <2>1, <2>2 DEF PlaceInv, Apart, NoneLost
  <2>5. HandOver' /\ Told'
    BY <1>2, <1>7, <2>2, <2>3 DEF PlaceInv, HandOver, Told
  <2> QED BY <1>5, <2>4, <2>5 DEF PlaceInv
<1>8. CASE /\ setup = "no" /\ wsid \in {"void", "dropped"} /\ missed' = missed \cup {p}
           /\ UNCHANGED <<chan, next>>
  <2>1. ~Given /\ ~Given' /\ ~Has(chan', {"giveState"})
    BY <1>2, <1>8, NothingUnderWay DEF Given
  <2>2. Apart' /\ NoneLost'
    BY <1>2, <1>8 DEF PlaceInv, Apart, NoneLost
  <2>3. HandOver' /\ Told'
    BY <1>2, <1>8, <2>1 DEF PlaceInv, HandOver, Told
  <2> QED BY <1>5, <2>2, <2>3 DEF PlaceInv
<1> QED BY <1>6, <1>7, <1>8 DEF RouterPayload, takeover

(* Op 30 is the last thing that matters in the channel of a session whose  *)
(* client was told all it missed, or it is sent to nobody.                 *)
LEMMA StateAsked ==
  ASSUME TypeOK, PlaceInv, RouterAskState
  PROVE  PlaceInv'
<1> DEFINE m == ItemOf("giveState", None)
<1>1. m \in Item /\ m.op = "giveState"
  BY Items DEF ItemOf
<1>2. /\ setup = "no" /\ setup' = "wait" /\ wsid \in {"known", "dropped"}
      /\ UNCHANGED <<sent, hand, handled, recv, conn, next, wsid, refresh, missed, owed>>
  BY DEF RouterAskState
<1>3. next = <<>> /\ ~Has(chan, {"giveState"}) /\ ~Given /\ ~Given'
  BY <1>2, NothingUnderWay, EmptyHasNone DEF Given
<1>4. CASE wsid = "known" /\ chan' = Append(chan, m)
  <2>1. Waiting(chan') = Waiting(chan)
    BY <1>1, <1>4, Queues, WaitingAppend
  <2>2. Once(chan') /\ AskedLast(chan')
    BY <1>1, <1>3, <1>4, Queues, OnceAppend, AskedAppend DEF PlaceInv, Apart, HandOver
  <2> QED
    BY <1>2, <1>3, <1>4, <2>1, <2>2
       DEF PlaceInv, Delivered, Apart, NoneLost, HandOver, Told
<1>5. CASE UNCHANGED chan
  BY <1>2, <1>3, <1>5 DEF PlaceInv, Delivered, Apart, NoneLost, HandOver, Told
<1> QED BY <1>2, <1>4, <1>5 DEF RouterAskState, Put

(* Op 31 follows the payloads that were faster.                            *)
LEMMA StatePassedOn ==
  ASSUME TypeOK, PlaceInv, RouterState
  PROVE  PlaceInv'
<1>1. PICK op \in {"state", "noState"} : next' = Append(next, ItemOf(op, None))
  BY DEF RouterState
<1>2. ItemOf(op, None) \in Item /\ ItemOf(op, None).op = op
  BY <1>1, Items DEF ItemOf
<1>3. /\ setup = "reply" /\ setup' = "wait"
      /\ UNCHANGED <<sent, hand, handled, recv, conn, chan, wsid, refresh, missed, owed>>
  BY DEF RouterState
<1>4. Waiting(next') = Waiting(next)
  BY <1>1, <1>2, Queues, WaitingAppend
<1>5. Once(next') /\ ~Has(next', {"giveState"})
  BY <1>1, <1>2, Queues, OnceAppend, HasAppend DEF PlaceInv, Apart, HandOver
<1>6. Given
  BY <1>3 DEF Given
<1> QED
  BY <1>3, <1>4, <1>5, <1>6 DEF PlaceInv, Delivered, Apart, NoneLost, HandOver, Told

(* Another message than a payload is taken.                                *)
LEMMA CommandTaken ==
  ASSUME TypeOK, PlaceInv, NEW op \in {"FLUSH", "ACK", "giveState"}, Take(op),
         UNCHANGED <<sent, hand, handled, conn, next, wsid, refresh, missed, owed>>,
         recv' \notin {"load", "decide"},
         \/ UNCHANGED setup
         \/ op = "giveState" /\ setup' = "reply"
  PROVE  PlaceInv'
<1>1. chan \in Seq(Item) /\ chan # <<>> /\ Head(chan).op = op /\ chan' = Tail(chan)
      /\ recv = "idle"
  BY Queues DEF Take
<1>2. Waiting(chan') = Waiting(chan)
  BY <1>1, WaitingTail
<1>3. Once(chan') /\ AskedLast(chan')
  BY <1>1, OnceTail, AskedTail DEF PlaceInv, Apart, HandOver
<1>4. /\ Has(chan', {"giveState"}) => Has(chan, {"giveState"})
      /\ op = "giveState" => Has(chan, {"giveState"})
      /\ op = "giveState" => Waiting(chan') = {} /\ ~Has(chan', {"giveState"})
  BY <1>1, HasTail, AskedTail DEF PlaceInv, HandOver
<1>5. hand = None
  BY <1>1 DEF PlaceInv, Delivered
<1>6. CASE UNCHANGED setup
  <2>1. Given' <=> Given
    BY <1>6 DEF Given
  <2> QED
    BY <1>1, <1>2, <1>3, <1>4, <1>6, <2>1
       DEF PlaceInv, Delivered, Apart, NoneLost, HandOver, Told
<1>7. CASE op = "giveState" /\ setup' = "reply"
  BY <1>1, <1>2, <1>3, <1>4, <1>5, <1>7
     DEF PlaceInv, Delivered, Apart, NoneLost, HandOver, Told
<1> QED BY <1>6, <1>7

(* A payload is taken into the receiver's hands.                           *)
LEMMA PayloadTaken ==
  ASSUME TypeOK, PlaceInv, TakePayload
  PROVE  PlaceInv'
<1> DEFINE p == Head(chan).p
<1>1. /\ chan \in Seq(Item) /\ chan # <<>> /\ Head(chan).op = "payload"
      /\ chan' = Tail(chan) /\ recv = "idle" /\ recv' = "load" /\ hand' = p
      /\ UNCHANGED <<sent, handled, conn, setup, next, wsid, refresh, missed, owed>>
  BY Queues DEF TakePayload, Take, takeover
<1>2. Waiting(chan) = Waiting(chan') \cup {p} /\ p \notin Waiting(chan')
  BY <1>1, WaitingTail, OnceTail DEF PlaceInv, Apart
<1>3. Once(chan') /\ AskedLast(chan')
  BY <1>1, OnceTail, AskedTail DEF PlaceInv, Apart, HandOver
<1>4. Has(chan', {"giveState"}) => Has(chan, {"giveState"})
  BY <1>1, HasTail
<1>5. hand = None /\ None \notin sent /\ ~Given /\ ~Given'
  BY <1>1, <1>2, Queues DEF PlaceInv, Delivered, HandOver, Given
<1>6. p \in sent /\ p \notin handled /\ p \notin Waiting(next) /\ p # None
  BY <1>2, <1>5 DEF PlaceInv, Apart
<1>7. Delivered' /\ Apart'
  BY <1>1, <1>2, <1>3, <1>6 DEF PlaceInv, Delivered, Apart
<1>8. NoneLost'
  BY <1>1, <1>2, <1>5 DEF PlaceInv, NoneLost
<1>9. HandOver' /\ Told'
  BY <1>1, <1>3, <1>4, <1>5 DEF PlaceInv, HandOver, Told
<1> QED BY <1>7, <1>8, <1>9 DEF PlaceInv

(* The payload in the receiver's hands is dealt with.                      *)
LEMMA PayloadHandled ==
  ASSUME TypeOK, PlaceInv, Hint \/ Queue
  PROVE  PlaceInv'
<1>1. /\ recv = "decide" /\ recv' \in {"idle", "exit"}
      /\ handled' = handled \cup {hand} /\ hand' = None
      /\ UNCHANGED <<sent, chan, conn, setup, next, wsid, refresh, missed, owed>>
  BY DEF Hint, Queue, takeover
<1>2. hand # None /\ hand \in sent /\ None \notin sent /\ ~Given /\ ~Given'
  BY <1>1, Queues DEF PlaceInv, Delivered, HandOver, Given
<1> QED
  BY <1>1, <1>2 DEF PlaceInv, Delivered, Apart, NoneLost, HandOver, Told

(* What the next connection finds in its channel.                          *)
LEMMA FirstTaken ==
  ASSUME TypeOK, PlaceInv, next # <<>>
  PROVE  /\ Once(Tail(next)) /\ AskedLast(Tail(next)) /\ ~Has(Tail(next), {"giveState"})
         /\ Waiting(Tail(next)) \subseteq sent
         /\ Head(next).op # "payload" => Waiting(Tail(next)) = Waiting(next)
         /\ Head(next).op = "state" => Given
<1>1. next \in Seq(Item) /\ None \notin sent
  BY Queues
<1>2. AskedLast(next)
  BY DEF PlaceInv, HandOver, AskedLast, Has
<1>3. Waiting(Tail(next)) \subseteq sent
  BY <1>1, WaitingTail DEF PlaceInv, Apart
<1> QED
  BY <1>1, <1>2, <1>3, OnceTail, AskedTail, HasTail, WaitingTail
     DEF PlaceInv, Apart, HandOver, Given

LEMMA NothingInEmpty ==
  Once(<<>>) /\ AskedLast(<<>>) /\ ~Has(<<>>, {"giveState"}) /\ Waiting(<<>>) = {}
BY NoneWaits, EmptyHasNone DEF Once, AskedLast

(* A connection that recovers the state takes over what the last one dealt *)
(* with.                                                                   *)
LEMMA RecoverStep ==
  ASSUME TypeOK, PlaceInv, Recover
  PROVE  PlaceInv'
<1>1. /\ next # <<>> /\ Head(next).op = "state"
      /\ chan' = Tail(next) /\ next' = <<>> /\ hand' = None /\ recv' = "idle"
      /\ setup' = "no" /\ wsid' = "new"
      /\ UNCHANGED <<sent, handled, missed, owed>>
  BY DEF Recover, NewConnection
<1>2. Given /\ ~Given'
  BY <1>1, FirstTaken, EmptyHasNone DEF Given
<1>3. hand = None /\ Waiting(chan) = {} /\ ~owed /\ None \notin sent
  BY <1>2, Queues DEF PlaceInv, HandOver, Told
<1>4. /\ Once(chan') /\ AskedLast(chan') /\ ~Has(chan', {"giveState"})
      /\ Waiting(chan') = Waiting(next)
  BY <1>1, FirstTaken
<1>5. Once(next') /\ Waiting(next') = {} /\ ~Has(next', {"giveState"})
  BY <1>1, NothingInEmpty
<1>6. Delivered' /\ Apart' /\ NoneLost'
  BY <1>1, <1>3, <1>4, <1>5 DEF PlaceInv, Delivered, Apart, NoneLost
<1>7. HandOver' /\ Told'
  BY <1>1, <1>2, <1>3, <1>4, <1>5 DEF PlaceInv, HandOver, Told
<1> QED BY <1>6, <1>7 DEF PlaceInv

(* One that begins anew misses all but what waits in its channel, and its  *)
(* client is told to refresh.                                              *)
LEMMA AnewStep ==
  ASSUME TypeOK, PlaceInv, NEW c \in {"greet", "end"}, NEW r \in {"idle", "exit"},
         NEW id \in {"new", "void", "dropped"}, NEW ch, NewConnection(c, r, id, ch), Anew(ch),
         c = "greet" => id = "new", UNCHANGED sent,
         Once(ch), AskedLast(ch), ~Has(ch, {"giveState"}), Waiting(ch) \subseteq sent
  PROVE  PlaceInv'
<1>1. /\ conn' = c /\ recv' = r /\ wsid' = id /\ chan' = ch /\ next' = <<>>
      /\ hand' = None /\ setup' = "no"
      /\ handled' = {} /\ missed' = sent \ Waiting(ch) /\ refresh' = TRUE
  BY DEF NewConnection, Anew
<1>2. ~Given' /\ None \notin sent
  BY <1>1, EmptyHasNone, Queues DEF Given
<1>3. Once(next') /\ Waiting(next') = {} /\ ~Has(next', {"giveState"})
  BY <1>1, NothingInEmpty
<1>4. Delivered' /\ Apart' /\ NoneLost'
  BY <1>1, <1>2, <1>3 DEF Delivered, Apart, NoneLost
<1>5. HandOver' /\ Told'
  BY <1>1, <1>2, <1>3 DEF HandOver, Told
<1> QED BY <1>4, <1>5 DEF PlaceInv

LEMMA BeginsStep ==
  ASSUME TypeOK, PlaceInv, Begins
  PROVE  PlaceInv'
<1>1. CASE StartEmpty
  <2>1. /\ next # <<>> /\ NewConnection("greet", "idle", "new", Tail(next))
        /\ Anew(Tail(next)) /\ UNCHANGED sent
    BY <1>1 DEF StartEmpty
  <2> QED BY <2>1, FirstTaken, AnewStep
<1>2. CASE SetupFails
  <2>1. PICK id \in {"void", "dropped"} : NewConnection("end", "exit", id, <<>>)
    BY <1>2 DEF SetupFails
  <2>2. Anew(<<>>) /\ UNCHANGED sent
    BY <1>2 DEF SetupFails
  <2> QED BY <2>1, <2>2, NothingInEmpty, AnewStep
<1>3. CASE Fresh
  <2>1. NewConnection("greet", "idle", "new", <<>>) /\ Anew(<<>>) /\ UNCHANGED sent
    BY <1>3 DEF Fresh
  <2> QED BY <2>1, NothingInEmpty, AnewStep
<1> QED BY <1>1, <1>2, <1>3 DEF Begins

(* Op 1002 makes the WSID known, and tells to refresh if there is need.    *)
LEMMA GreetStep ==
  ASSUME PlaceInv, Greet
  PROVE  PlaceInv'
<1>1. /\ conn = "greet" /\ conn' # "greet"
      /\ UNCHANGED <<sent, hand, handled, recv, chan, setup, next, refresh, missed>>
      /\ \/ owed' = (owed /\ ~refresh)
         \/ UNCHANGED <<wsid, owed>>
  BY DEF Greet
<1>2. Given' <=> Given
  BY <1>1 DEF Given
<1>3. Delivered' /\ Apart' /\ NoneLost' /\ HandOver'
  BY <1>1, <1>2 DEF PlaceInv, Delivered, Apart, NoneLost, HandOver
<1>4. wsid = "new" /\ (refresh \/ ~owed)
  BY <1>1 DEF PlaceInv, Told
<1>5. CASE owed' = (owed /\ ~refresh)
  <2>1. ~owed'
    BY <1>4, <1>5
  <2> QED BY <1>1, <1>3, <2>1 DEF PlaceInv, Told
<1>6. CASE UNCHANGED <<wsid, owed>>
  <2>1. Told'
    BY <1>1, <1>2, <1>4, <1>6 DEF PlaceInv, Told
  <2> QED BY <1>3, <2>1 DEF PlaceInv
<1> QED BY <1>1, <1>5, <1>6

(* Every step leaves each payload in one place.                            *)
LEMMA PlaceNext == TypeOK /\ PlaceInv /\ [Next]_vars => PlaceInv'
<1> SUFFICES ASSUME TypeOK, PlaceInv, [Next]_vars PROVE PlaceInv'
  OBVIOUS
<1> USE DEF takeover
<1>1. CASE UNCHANGED vars
  BY <1>1, StillInPlace DEF vars
<1>2. CASE RouterAskState \/ RouterState
  BY <1>2, StateAsked, StatePassedOn
<1>3. ASSUME NEW p \in Payloads, RouterPayload(p) PROVE PlaceInv'
  BY <1>3, PayloadPut
<1>4. ASSUME NEW p \in Payloads, Ack(p) PROVE PlaceInv'
  BY <1>4, StillInPlace DEF Ack, Frame
<1>5. CASE Leave \/ Heartbeat \/ Answer \/ CloseGate \/ OpenGate
  BY <1>5, StillInPlace DEF Leave, Heartbeat, Answer, CloseGate, OpenGate, Frame
<1>6. CASE StoreGate \/ End \/ WritesMeet \/ LoadGate \/ RecvClose
  BY <1>6, StillInPlace DEF StoreGate, End, WritesMeet, LoadGate, RecvClose
<1>7. CASE SendFlush
  BY <1>7, CommandPut, Items DEF SendFlush, ItemOf
<1>8. CASE SendAck
  <2>1. ItemOf("ACK", ackOf) \in Item
    BY <1>8, Items DEF SendAck, TypeOK
  <2> QED BY <1>8, <2>1, CommandPut DEF SendAck, ItemOf
<1>9. CASE Flush
  <2>1. recv' \in {"idle", "exit"}
    BY <1>9 DEF Flush, Take
  <2> QED BY <1>9, <2>1, CommandTaken DEF Flush
<1>10. CASE TakeAck
  BY <1>10, CommandTaken DEF TakeAck, Take
<1>11. CASE GiveState
  BY <1>11, CommandTaken DEF GiveState
<1>12. CASE TakePayload
  BY <1>12, PayloadTaken
<1>13. CASE Hint \/ Queue
  BY <1>13, PayloadHandled
<1>14. CASE Recover \/ Begins
  BY <1>14, RecoverStep, BeginsStep
<1>15. CASE Greet
  BY <1>15, GreetStep
<1>16. CASE Drop
  BY <1>16 DEF Drop, PlaceInv, Delivered, Apart, NoneLost, Given, HandOver, Told
<1> QED
  BY <1>1, <1>2, <1>3, <1>4, <1>5, <1>6, <1>7, <1>8, <1>9, <1>10, <1>11, <1>12, <1>13, <1>14,
     <1>15, <1>16
     DEF Next, Begins

(* Across recoveries, failed set-ups and new beginnings each payload that  *)
(* was sent is dealt with once, waits in one place, or was missed; and no  *)
(* client is served that was not told to refresh for what it missed.       *)
THEOREM NothingLostCorrect == Spec => []NothingLostOrRepeated
<1>1. Init => TypeOK /\ PlaceInv
  <2>1. Init => PlaceInv
    BY NothingInEmpty, EmptyHasNone
       DEF Init, PlaceInv, Delivered, Apart, NoneLost, Given, HandOver, Told
  <2> QED BY <2>1, InitType
<1>2. (TypeOK /\ PlaceInv) /\ [Next]_vars => (TypeOK /\ PlaceInv)'
  BY TypeNext, PlaceNext
<1>3. TypeOK /\ PlaceInv => NothingLostOrRepeated
  BY DEF PlaceInv, Delivered, Apart, NoneLost, Told, NothingLostOrRepeated
<1> QED BY <1>1, <1>2, <1>3, PTL DEF Spec

==============================================================================
