--------------------------- MODULE RouterLinkProofs ---------------------------
(***************************************************************************)
(* Proofs about RouterLink, for any number of links and of goroutines that *)
(* call socket_write.                                                      *)
(***************************************************************************)
EXTENDS RouterLink, Integers, TLAPS

-----------------------------------------------------------------------------
(* Stacks.                                                                 *)

(* What Goto, Push and Return make of a stack.                             *)
LEMMA GotoIs ==
  ASSUME NEW s \in Seq(Frame), s # <<>>, NEW f \in Frame
  PROVE  LET t == <<f>> \o Tail(s) IN
         /\ t \in Seq(Frame) /\ t # <<>> /\ Head(t) = f /\ t[1] = f
         /\ DOMAIN t = DOMAIN s
         /\ \A i \in DOMAIN s : i # 1 => t[i] = s[i]
<1>1. Len(s) \in Nat /\ Len(s) >= 1 /\ Tail(s) \in Seq(Frame) /\ Len(Tail(s)) = Len(s) - 1
  OBVIOUS
<1>2. <<f>> \in Seq(Frame) /\ Len(<<f>>) = 1 /\ <<f>>[1] = f
  OBVIOUS
<1>3. <<f>> \o Tail(s) \in Seq(Frame) /\ Len(<<f>> \o Tail(s)) = Len(s)
  BY <1>1, <1>2
<1>4. (<<f>> \o Tail(s))[1] = f
  BY <1>1, <1>2
<1>5. ASSUME NEW i \in 2 .. Len(s) PROVE (<<f>> \o Tail(s))[i] = s[i]
  BY <1>1, <1>2
<1> QED BY <1>1, <1>3, <1>4, <1>5

LEMMA PushIs ==
  ASSUME NEW s \in Seq(Frame), s # <<>>, NEW f \in Frame, NEW a \in Frame
  PROVE  LET t == <<f, a>> \o Tail(s) IN
         /\ t \in Seq(Frame) /\ t # <<>> /\ Head(t) = f /\ t[1] = f /\ t[2] = a
         /\ Len(s) \in Nat /\ DOMAIN s = 1 .. Len(s)
         /\ DOMAIN t = 1 .. Len(s) + 1
         /\ \A i \in DOMAIN t : i \in Int /\ (i # 1 /\ i # 2 => i - 1 \in DOMAIN s /\ i - 1 # 1 /\ t[i] = s[i - 1])
<1>1. Len(s) \in Nat /\ Len(s) >= 1 /\ Tail(s) \in Seq(Frame) /\ Len(Tail(s)) = Len(s) - 1
  OBVIOUS
<1>2. <<f, a>> \in Seq(Frame) /\ Len(<<f, a>>) = 2 /\ <<f, a>>[1] = f /\ <<f, a>>[2] = a
  OBVIOUS
<1>3. <<f, a>> \o Tail(s) \in Seq(Frame) /\ Len(<<f, a>> \o Tail(s)) = Len(s) + 1
  BY <1>1, <1>2
<1>4. (<<f, a>> \o Tail(s))[1] = f /\ (<<f, a>> \o Tail(s))[2] = a
  BY <1>1, <1>2
<1>5. ASSUME NEW i \in 3 .. Len(s) + 1 PROVE (<<f, a>> \o Tail(s))[i] = s[i - 1]
  BY <1>1, <1>2
<1> QED BY <1>1, <1>3, <1>4, <1>5

LEMMA ReturnIs ==
  ASSUME NEW s \in Seq(Frame), s # <<>>
  PROVE  /\ Tail(s) \in Seq(Frame)
         /\ \A i \in DOMAIN Tail(s) : i \in Int /\ i + 1 \in DOMAIN s /\ i + 1 # 1 /\ Tail(s)[i] = s[i + 1]
OBVIOUS

(* The frames that the actions make.                                       *)
LEMMA Calls ==
  /\ \A l \in Links, at \in {"register", "store", "read", "end", "fallback", "beat", "watch"} :
       Call(at, l) \in Frame
  /\ Dial \in Frame /\ Call("connect", None) \in Frame /\ Call("waits", None) \in Frame
  /\ \A l \in NoLink : Call("recover", l) \in Frame
  /\ \A flag \in BOOLEAN : [Call("recover", None) EXCEPT !.flag = flag] \in Frame
  /\ \A l \in Links, flag \in BOOLEAN : [Call("write", l) EXCEPT !.flag = flag] \in Frame
<1>1. \A l \in Links, at \in {"register", "store", "read", "end", "fallback", "beat", "watch"} :
        Call(at, l) \in Frame
  BY DEF Call, Frame
<1>2. Dial \in Frame /\ Call("connect", None) \in Frame /\ Call("waits", None) \in Frame
  BY DEF Dial, Call, Frame
<1>3. \A l \in NoLink : Call("recover", l) \in Frame
  BY DEF Call, Frame
<1>4. ASSUME NEW flag \in BOOLEAN
      PROVE  [Call("recover", None) EXCEPT !.flag = flag] \in Frame
  <2>1. [Call("recover", None) EXCEPT !.flag = flag]
          = [at |-> "recover", link |-> None, flag |-> flag]
    BY DEF Call
  <2> QED BY <2>1 DEF Frame, NoLink
<1>5. ASSUME NEW l \in Links, NEW flag \in BOOLEAN
      PROVE  [Call("write", l) EXCEPT !.flag = flag] \in Frame
  <2>1. [Call("write", l) EXCEPT !.flag = flag] = [at |-> "write", link |-> l, flag |-> flag]
    BY DEF Call
  <2> QED BY <2>1 DEF Frame
<1> QED BY <1>1, <1>2, <1>3, <1>4, <1>5

(* The innermost call of a goroutine.                                      *)
LEMMA HeadIs ==
  ASSUME TypeOK, NEW g \in Procs, NEW at, At(g, at)
  PROVE  /\ stack[g] \in Seq(Frame) /\ stack[g] # <<>>
         /\ Head(stack[g]) \in Frame /\ Head(stack[g]) = stack[g][1] /\ 1 \in DOMAIN stack[g]
         /\ stack[g][1].at = at /\ stack[g][1].link = LinkOf(g)
         /\ at \in {"register", "store", "read", "end", "fallback", "beat", "watch", "write"} =>
              LinkOf(g) \in Links
         /\ Head(stack[g]).flag \in BOOLEAN
<1>1. stack[g] \in Seq(Frame) /\ stack[g] # <<>> /\ Head(stack[g]).at = at
  BY DEF TypeOK, At
<1>2. Head(stack[g]) \in Frame /\ Head(stack[g]) = stack[g][1] /\ 1 \in DOMAIN stack[g]
  BY <1>1
<1>3. at \in {"register", "store", "read", "end", "fallback", "beat", "watch", "write"} =>
        Head(stack[g]).link \in Links
  BY <1>1, <1>2 DEF Frame
<1>4. Head(stack[g]).flag \in BOOLEAN
  BY <1>2 DEF Frame
<1> QED BY <1>1, <1>2, <1>3, <1>4 DEF LinkOf

(* Goroutines are told apart by name.                                      *)
LEMMA Names ==
  /\ Main \in Procs
  /\ \A l \in Links : Worker(l) \in Procs /\ Check(l) \in Procs
  /\ \A l, k \in Links : Worker(l) # Check(k)
  /\ \A l, k \in Links : l # k => Worker(l) # Worker(k) /\ Check(l) # Check(k)
  /\ \A l \in Links : Worker(l)[1] # "writer" /\ Check(l)[1] # "writer"
BY DEF Main, Worker, Check, Procs

-----------------------------------------------------------------------------
(* Types.                                                                  *)

(* A stack whose innermost call is replaced, calls or returns is a stack.  *)
LEMMA StackTypes ==
  ASSUME TypeOK, NEW g \in Procs, stack[g] # <<>>
  PROVE  /\ \A f \in Frame : Goto(g, f) => stack' \in [Procs -> Seq(Frame)]
         /\ \A f, a \in Frame : Push(g, f, a) => stack' \in [Procs -> Seq(Frame)]
         /\ Return(g) => stack' \in [Procs -> Seq(Frame)]
         /\ \A l \in Links : StartReading(g, l) => stack' \in [Procs -> Seq(Frame)]
<1>1. stack \in [Procs -> Seq(Frame)] /\ stack[g] \in Seq(Frame)
  BY DEF TypeOK
<1>2. ASSUME NEW f \in Frame, Goto(g, f) PROVE stack' \in [Procs -> Seq(Frame)]
  <2>1. <<f>> \o Tail(stack[g]) \in Seq(Frame)
    BY <1>1, GotoIs
  <2> QED BY <1>1, <1>2, <2>1 DEF Goto
<1>3. ASSUME NEW f \in Frame, NEW a \in Frame, Push(g, f, a) PROVE stack' \in [Procs -> Seq(Frame)]
  <2>1. <<f, a>> \o Tail(stack[g]) \in Seq(Frame)
    BY <1>1, PushIs
  <2> QED BY <1>1, <1>3, <2>1 DEF Push
<1>4. ASSUME Return(g) PROVE stack' \in [Procs -> Seq(Frame)]
  <2>1. Tail(stack[g]) \in Seq(Frame)
    BY <1>1, ReturnIs
  <2> QED BY <1>1, <1>4, <2>1 DEF Return
<1>5. ASSUME NEW l \in Links, StartReading(g, l) PROVE stack' \in [Procs -> Seq(Frame)]
  <2>1. <<Call("register", l)>> \o Tail(stack[g]) \in Seq(Frame)
    BY <1>1, GotoIs, Calls
  <2>2. <<Call("beat", l)>> \in Seq(Frame) /\ <<Call("watch", l)>> \in Seq(Frame)
    BY Calls
  <2> QED BY <1>1, <1>5, <2>1, <2>2 DEF StartReading
<1> QED BY <1>2, <1>3, <1>4, <1>5

LEMMA PanicTypes ==
  ASSUME NEW why \in {"router", "nil"}, Panic(why)
  PROVE  stack' \in [Procs -> Seq(Frame)] /\ panicked' \in {"no", "router", "nil"}
<1>1. <<>> \in Seq(Frame)
  OBVIOUS
<1>2. stack' \in [Procs -> Seq(Frame)]
  BY <1>1 DEF Panic
<1> QED BY <1>2 DEF Panic

(* A hand-shake that is not answered moves its goroutine and nothing else. *)
LEMMA UnansweredMoves ==
  ASSUME TypeOK, NEW g \in Procs, Unanswered(g)
  PROVE  /\ stack[g] # <<>> /\ Head(stack[g]).at \in {"connect", "dial"}
         /\ Goto(g, Call("waits", None))
         /\ Call("waits", None) \in Frame /\ Call("waits", None).at = "waits"
         /\ UNCHANGED <<conn, recovering, conns, writer, ended, panicked>>
BY Calls DEF Unanswered, At, Call

(* What the calls of connect_new_socket and recover_socket leave.          *)
LEMMA TypeConnect ==
  ASSUME TypeOK, NEW g \in Procs,
         \/ ConnectFails(g) \/ Fallback(g) \/ Recover(g) \/ DialsExhausted(g)
         \/ DialRefused(g) \/ Unanswered(g)
         \/ \E l \in Links : Connected(g, l) \/ ConnectRefused(g, l) \/ Dialled(g, l)
  PROVE  TypeOK'
<1>1. CASE ConnectFails(g) \/ DialsExhausted(g)
  <2>1. Panic("router") /\ UNCHANGED <<conn, recovering, conns, writer, ended>>
    BY <1>1 DEF ConnectFails, DialsExhausted
  <2>2. stack' \in [Procs -> Seq(Frame)] /\ panicked' \in {"no", "router", "nil"}
    BY <2>1, PanicTypes
  <2> QED BY <2>1, <2>2 DEF TypeOK
<1>2. CASE Fallback(g)
  <2>1. LinkOf(g) \in Links /\ stack[g] # <<>>
    BY <1>2, HeadIs DEF Fallback
  <2>2. stack' \in [Procs -> Seq(Frame)]
    BY <1>2, <2>1, StackTypes DEF Fallback
  <2> QED BY <1>2, <2>2 DEF Fallback, TypeOK
<1>3. CASE Recover(g)
  <2>1. stack[g] # <<>>
    BY <1>3, HeadIs DEF Recover
  <2>2. stack' \in [Procs -> Seq(Frame)]
    BY <1>3, <2>1, StackTypes, Calls DEF Recover
  <2>3. recovering' \in [Links -> BOOLEAN]
    BY <1>3 DEF Recover, TypeOK
  <2> QED BY <1>3, <2>2, <2>3 DEF Recover, TypeOK
<1>4. CASE DialRefused(g)
  <2>1. stack[g] # <<>>
    BY <1>4, HeadIs DEF DialRefused
  <2>2. stack' \in [Procs -> Seq(Frame)]
    BY <1>4, <2>1, StackTypes, Calls DEF DialRefused
  <2> QED BY <1>4, <2>2 DEF DialRefused, TypeOK
<1>5. ASSUME NEW l \in Links, Connected(g, l) \/ Dialled(g, l) PROVE TypeOK'
  <2>1. stack[g] # <<>>
    BY <1>5 DEF Connected, Dialled, At
  <2>2. stack' \in [Procs -> Seq(Frame)]
    BY <1>5, <2>1, StackTypes DEF Connected, Dialled
  <2> QED BY <1>5, <2>2 DEF Connected, Dialled, Opens, TypeOK
<1>6. ASSUME NEW l \in Links, ConnectRefused(g, l) PROVE TypeOK'
  <2>1. stack[g] # <<>>
    BY <1>6 DEF ConnectRefused, At
  <2>2. Call("recover", None) \in Frame /\ Call("fallback", l) \in Frame
    BY Calls DEF NoLink
  <2>3. stack' \in [Procs -> Seq(Frame)]
    BY <1>6, <2>1, <2>2, StackTypes DEF ConnectRefused
  <2> QED BY <1>6, <2>3 DEF ConnectRefused, Opens, TypeOK
<1>7. CASE Unanswered(g)
  <2>1. stack' \in [Procs -> Seq(Frame)]
    BY <1>7, UnansweredMoves, StackTypes
  <2> QED BY <1>7, <2>1, UnansweredMoves DEF TypeOK
<1> QED BY <1>1, <1>2, <1>3, <1>4, <1>5, <1>6, <1>7

(* What reading, the heartbeats and writers leave.                         *)
LEMMA TypeServe ==
  ASSUME TypeOK, NEW g \in Procs,
         \/ Register(g) \/ StoreWriter(g) \/ ReadFails(g) \/ ReadEnds(g)
         \/ BeatFails(g) \/ WatchFails(g) \/ WatchEnds(g)
         \/ Write(g) \/ WriteDone(g) \/ WriteFails(g)
  PROVE  TypeOK'
<1>1. CASE Register(g) \/ StoreWriter(g)
  <2>1. LinkOf(g) \in Links /\ stack[g] # <<>>
    BY <1>1, HeadIs DEF Register, StoreWriter
  <2>2. stack' \in [Procs -> Seq(Frame)]
    BY <1>1, <2>1, StackTypes, Calls DEF Register, StoreWriter
  <2> QED BY <1>1, <2>1, <2>2 DEF Register, StoreWriter, NoLink, TypeOK
<1>2. CASE ReadFails(g)
  <2>1. LinkOf(g) \in Links /\ stack[g] # <<>>
    BY <1>2, HeadIs DEF ReadFails
  <2>2. stack' \in [Procs -> Seq(Frame)]
    BY <1>2, <2>1, StackTypes, Calls DEF ReadFails, NoLink
  <2> QED BY <1>2, <2>1, <2>2 DEF ReadFails, Closes, TypeOK
<1>3. CASE ReadEnds(g) \/ WatchEnds(g) \/ WriteDone(g)
  <2>1. stack[g] # <<>> /\ (ReadEnds(g) => LinkOf(g) \in Links)
    BY <1>3, HeadIs DEF ReadEnds, WatchEnds, WriteDone
  <2>2. stack' \in [Procs -> Seq(Frame)]
    BY <1>3, <2>1, StackTypes DEF ReadEnds, WatchEnds, WriteDone
  <2> QED BY <1>3, <2>1, <2>2 DEF ReadEnds, WatchEnds, WriteDone, TypeOK
<1>4. CASE BeatFails(g) \/ WatchFails(g)
  <2>1. LinkOf(g) \in Links /\ stack[g] # <<>>
    BY <1>4, HeadIs DEF BeatFails, WatchFails
  <2>2. stack' \in [Procs -> Seq(Frame)]
    BY <1>4, <2>1, StackTypes, Calls DEF BeatFails, WatchFails, NoLink
  <2> QED BY <1>4, <2>1, <2>2 DEF BeatFails, WatchFails, Closes, TypeOK
<1>5. CASE Write(g)
  <2>1. CASE writer = None
    <3>1. stack' \in [Procs -> Seq(Frame)] /\ panicked' \in {"no", "router", "nil"}
      BY <1>5, <2>1, PanicTypes DEF Write
    <3> QED BY <1>5, <3>1 DEF Write, TypeOK
  <2>2. CASE writer # None
    <3>1. writer \in Links /\ recovering[writer] \in BOOLEAN
      BY <2>2 DEF TypeOK, NoLink
    <3>2. <<[Call("write", writer) EXCEPT !.flag = recovering[writer]]>> \in Seq(Frame)
      BY <3>1, Calls
    <3> QED BY <1>5, <2>2, <3>2 DEF Write, TypeOK
  <2> QED BY <2>1, <2>2
<1>6. CASE WriteFails(g)
  <2>1. LinkOf(g) \in Links /\ stack[g] # <<>> /\ Head(stack[g]).flag \in BOOLEAN
    BY <1>6, HeadIs DEF WriteFails
  <2>2. stack' \in [Procs -> Seq(Frame)]
    BY <1>6, <2>1, StackTypes, Calls DEF WriteFails
  <2> QED BY <1>6, <2>1, <2>2 DEF WriteFails, Closes, TypeOK
<1> QED BY <1>1, <1>2, <1>3, <1>4, <1>5, <1>6

LEMMA TypeNext == TypeOK /\ [Next]_vars => TypeOK'
<1>1. ASSUME TypeOK, UNCHANGED vars PROVE TypeOK'
  BY <1>1 DEF vars, TypeOK
<1>2. ASSUME TypeOK, NEW g \in Procs, Step(g) PROVE TypeOK'
  BY <1>2, TypeConnect, TypeServe DEF Step
<1> QED BY <1>1, <1>2 DEF Next

LEMMA InitTypes == Init => TypeOK
<1>1. <<Call("connect", None)>> \in Seq(Frame) /\ <<>> \in Seq(Frame)
  BY Calls
<1> QED BY <1>1 DEF Init, TypeOK, NoLink

(* Every reachable state of the link is well typed.                        *)
THEOREM TypeCorrect == Spec => []TypeOK
BY InitTypes, TypeNext, PTL DEF Spec
-----------------------------------------------------------------------------
(* New links.                                                              *)

(* A call that will go on to start reading a link, or to register it.      *)
Pending(g, i) == i \in DOMAIN stack[g] /\ stack[g][i].at \in {"fallback", "register"}

Unwatched(l) == stack[Worker(l)] = <<>> /\ stack[Check(l)] = <<>>

(* A link that was not dialled yet is known to nobody.                     *)
NewLinks ==
  \A l \in Links : conn[l] = "none" => l # conns /\ ~recovering[l] /\ Unwatched(l)

(* A link that waits to be registered is neither registered nor marked,    *)
(* and has no heartbeat goroutines before read_tcp is called.              *)
PendingLinks ==
  \A g \in Procs : \A i \in DOMAIN stack[g] :
    Pending(g, i) =>
      /\ conn[stack[g][i].link] # "none"
      /\ stack[g][i].link # conns
      /\ ~recovering[stack[g][i].link]
      /\ stack[g][i].at = "fallback" => Unwatched(stack[g][i].link)

(* No two calls wait to register the same link.                            *)
PendingApart ==
  \A g, h \in Procs : \A i \in DOMAIN stack[g], j \in DOMAIN stack[h] :
    Pending(g, i) /\ Pending(h, j) /\ stack[g][i].link = stack[h][j].link =>
      g = h /\ i = j

StartInv == NewLinks /\ PendingLinks /\ PendingApart

(* Where a call of the stacks after a step of g was before: the calls of g *)
(* move by k, those of others stay.                                        *)
Was(g, k, h, j) == IF h = g THEN j + k ELSE j

CarriedAt(g, k, h, j) ==
  Pending(h, j)' =>
    /\ Pending(h, Was(g, k, h, j))
    /\ stack'[h][j].link = stack[h][Was(g, k, h, j)].link
    /\ stack'[h][j].at = "fallback" => stack[h][Was(g, k, h, j)].at = "fallback"

(* Every call that waits to register a link did so before, but for one of  *)
(* g, at n.                                                                *)
Carried(g, k, n) ==
  \A h \in Procs : \A j \in DOMAIN stack'[h] :
    j \in Int /\ (~(h = g /\ j = n) => CarriedAt(g, k, h, j))

LEMMA PendingLink ==
  ASSUME TypeOK, NEW g \in Procs, NEW i, Pending(g, i)
  PROVE  i \in DOMAIN stack[g] /\ stack[g][i].link \in Links
<1>1. i \in DOMAIN stack[g] /\ stack[g] \in Seq(Frame)
  BY DEF TypeOK, Pending
<1>2. stack[g][i] \in Frame
  BY <1>1
<1> QED BY <1>1, <1>2 DEF Pending, Frame

(* Calls stay apart when the only new one is for a new link.               *)
LEMMA ApartKept ==
  ASSUME TypeOK, StartInv, NEW g \in Procs, NEW k \in {-1, 0, 1}, NEW n, NEW l,
         Carried(g, k, n),
         n \in DOMAIN stack'[g] /\ Pending(g, n)' =>
           CarriedAt(g, k, g, n) \/ (stack'[g][n].link = l /\ conn[l] = "none")
  PROVE  PendingApart'
<1> SUFFICES ASSUME NEW a \in Procs, NEW b \in Procs,
                    NEW i \in DOMAIN stack'[a], NEW j \in DOMAIN stack'[b],
                    Pending(a, i)', Pending(b, j)', stack'[a][i].link = stack'[b][j].link
             PROVE  a = b /\ i = j
  BY DEF PendingApart
<1>1. i \in Int /\ j \in Int
  BY DEF Carried
<1>2. CarriedAt(g, k, a, i) \/ (a = g /\ i = n /\ stack'[a][i].link = l /\ conn[l] = "none")
  BY DEF Carried
<1>3. CarriedAt(g, k, b, j) \/ (b = g /\ j = n /\ stack'[b][j].link = l /\ conn[l] = "none")
  BY DEF Carried
<1>4. CarriedAt(g, k, a, i) => conn[stack'[a][i].link] # "none"
  BY PendingLink DEF StartInv, PendingLinks, CarriedAt
<1>5. CarriedAt(g, k, b, j) => conn[stack'[b][j].link] # "none"
  BY PendingLink DEF StartInv, PendingLinks, CarriedAt
<1>6. CASE CarriedAt(g, k, a, i) /\ CarriedAt(g, k, b, j)
  <2>1. Pending(a, Was(g, k, a, i)) /\ Pending(b, Was(g, k, b, j))
        /\ stack[a][Was(g, k, a, i)].link = stack[b][Was(g, k, b, j)].link
    BY <1>6 DEF CarriedAt
  <2>2. a = b /\ Was(g, k, a, i) = Was(g, k, b, j)
    BY <2>1, PendingLink DEF StartInv, PendingApart
  <2> QED BY <1>1, <2>2 DEF Was
<1> QED BY <1>2, <1>3, <1>4, <1>5, <1>6

(* Most steps neither dial nor register a link.                            *)
LEMMA StartKept ==
  ASSUME TypeOK, StartInv, NEW g \in Procs, NEW k \in {-1, 0, 1}, Carried(g, k, 0),
         0 \notin DOMAIN stack'[g],
         \A l \in Links : conn[l] # "none" => conn'[l] # "none",
         conns' = conns,
         \A l \in Links : recovering'[l] => recovering[l] \/ l = conns,
         \A l \in Links : Unwatched(l) => Unwatched(l)'
  PROVE  StartInv'
<1>1. PendingApart'
  BY ApartKept
<1>2. NewLinks'
  BY DEF StartInv, NewLinks
<1>3. PendingLinks'
  <2> SUFFICES ASSUME NEW h \in Procs, NEW j \in DOMAIN stack'[h], Pending(h, j)'
               PROVE  /\ conn'[stack'[h][j].link] # "none"
                      /\ stack'[h][j].link # conns'
                      /\ ~recovering'[stack'[h][j].link]
                      /\ stack'[h][j].at = "fallback" => Unwatched(stack[h][j].link)'
    BY DEF PendingLinks
  <2>1. CarriedAt(g, k, h, j)
    BY DEF Carried
  <2>2. PICK i : /\ Pending(h, i) /\ stack'[h][j].link = stack[h][i].link
                 /\ stack'[h][j].at = "fallback" => stack[h][i].at = "fallback"
    BY <2>1 DEF CarriedAt
  <2>3. i \in DOMAIN stack[h] /\ stack[h][i].link \in Links
    BY <2>2, PendingLink
  <2>4. /\ conn[stack[h][i].link] # "none"
        /\ stack[h][i].link # conns
        /\ ~recovering[stack[h][i].link]
        /\ stack[h][i].at = "fallback" => Unwatched(stack[h][i].link)
    BY <2>2, <2>3 DEF StartInv, PendingLinks
  <2>5. /\ conn'[stack'[h][j].link] # "none"
        /\ stack'[h][j].link # conns'
        /\ ~recovering'[stack'[h][j].link]
    BY <2>2, <2>3, <2>4
  <2>6. stack'[h][j].at = "fallback" => Unwatched(stack[h][j].link)'
    BY <2>2, <2>3, <2>4 DEF Unwatched
  <2> QED BY <2>5, <2>6
<1> QED BY <1>1, <1>2, <1>3 DEF StartInv

(* What is carried when a call is replaced, calls, returns or panics.      *)
LEMMA CarriedGoto ==
  ASSUME TypeOK, NEW g \in Procs, stack[g] # <<>>, NEW f \in Frame, Goto(g, f),
         f.at \notin {"fallback", "register"}
  PROVE  Carried(g, 0, 0) /\ 0 \notin DOMAIN stack'[g]
<1>1. stack \in [Procs -> Seq(Frame)]
  BY DEF TypeOK
<1>2. stack'[g] = <<f>> \o Tail(stack[g]) /\ \A h \in Procs : h # g => stack'[h] = stack[h]
  BY <1>1 DEF Goto
<1>3. /\ stack'[g][1] = f /\ DOMAIN stack'[g] = DOMAIN stack[g]
      /\ \A i \in DOMAIN stack[g] : i # 1 => stack'[g][i] = stack[g][i]
  BY <1>1, <1>2, GotoIs
<1>4. \A h \in Procs : DOMAIN stack[h] = 1 .. Len(stack[h]) /\ Len(stack[h]) \in Nat
  BY <1>1
<1>5. ASSUME NEW h \in Procs, NEW j \in DOMAIN stack'[h] PROVE j \in Int /\ CarriedAt(g, 0, h, j)
  <2>1. CASE h # g
    BY <1>2, <1>4, <1>5, <2>1 DEF CarriedAt, Pending, Was
  <2>2. CASE h = g /\ j = 1
    BY <1>3, <2>2 DEF CarriedAt, Pending
  <2>3. CASE h = g /\ j # 1
    <3>1. j \in DOMAIN stack[g] /\ stack'[g][j] = stack[g][j] /\ j \in Int /\ j + 0 = j
      BY <1>3, <1>4, <1>5, <2>3
    <3> QED BY <2>3, <3>1 DEF CarriedAt, Pending, Was
  <2> QED BY <2>1, <2>2, <2>3
<1> QED BY <1>3, <1>4, <1>5 DEF Carried

LEMMA CarriedPush ==
  ASSUME TypeOK, NEW g \in Procs, stack[g] # <<>>, NEW f \in Frame, NEW a \in Frame,
         Push(g, f, a), f.at \notin {"fallback", "register"}
  PROVE  /\ a.at \notin {"fallback", "register"} =>
              Carried(g, -1, 0) /\ 0 \notin DOMAIN stack'[g]
         /\ Carried(g, -1, 2)
         /\ stack'[g][2] = a
<1>1. stack \in [Procs -> Seq(Frame)]
  BY DEF TypeOK
<1>2. stack'[g] = <<f, a>> \o Tail(stack[g]) /\ \A h \in Procs : h # g => stack'[h] = stack[h]
  BY <1>1 DEF Push
<1>3. /\ stack'[g][1] = f /\ stack'[g][2] = a
      /\ DOMAIN stack'[g] = 1 .. Len(stack[g]) + 1 /\ Len(stack[g]) \in Nat
      /\ \A i \in DOMAIN stack'[g] :
           /\ i \in Int
           /\ i # 1 /\ i # 2 => i - 1 \in DOMAIN stack[g] /\ stack'[g][i] = stack[g][i - 1]
  BY <1>1, <1>2, PushIs
<1>4. \A h \in Procs : DOMAIN stack[h] = 1 .. Len(stack[h]) /\ Len(stack[h]) \in Nat
  BY <1>1
<1>5. ASSUME NEW h \in Procs, NEW j \in DOMAIN stack'[h], ~(h = g /\ j = 2)
      PROVE  j \in Int /\ CarriedAt(g, -1, h, j)
  <2>1. CASE h # g
    BY <1>2, <1>4, <1>5, <2>1 DEF CarriedAt, Pending, Was
  <2>2. CASE h = g /\ j = 1
    BY <1>3, <2>2 DEF CarriedAt, Pending
  <2>3. CASE h = g /\ j # 1
    <3>1. j - 1 \in DOMAIN stack[g] /\ stack'[g][j] = stack[g][j - 1] /\ j \in Int /\ j + -1 = j - 1
      BY <1>3, <1>5, <2>3
    <3> QED BY <2>3, <3>1 DEF CarriedAt, Pending, Was
  <2> QED BY <2>1, <2>2, <2>3
<1>6. a.at \notin {"fallback", "register"} => CarriedAt(g, -1, g, 2)
  BY <1>3 DEF CarriedAt, Pending
<1>7. 0 \notin DOMAIN stack'[g]
  BY <1>3
<1> QED BY <1>3, <1>5, <1>6, <1>7 DEF Carried

LEMMA CarriedReturn ==
  ASSUME TypeOK, NEW g \in Procs, stack[g] # <<>>, Return(g)
  PROVE  Carried(g, 1, 0) /\ 0 \notin DOMAIN stack'[g]
<1>1. stack \in [Procs -> Seq(Frame)]
  BY DEF TypeOK
<1>2. stack'[g] = Tail(stack[g]) /\ \A h \in Procs : h # g => stack'[h] = stack[h]
  BY <1>1 DEF Return
<1>3. \A i \in DOMAIN stack'[g] : i \in Int /\ i + 1 \in DOMAIN stack[g] /\ stack'[g][i] = stack[g][i + 1]
  BY <1>1, <1>2, ReturnIs
<1>4. \A h \in Procs : DOMAIN stack[h] = 1 .. Len(stack[h]) /\ Len(stack[h]) \in Nat
  BY <1>1
<1>5. ASSUME NEW h \in Procs, NEW j \in DOMAIN stack'[h] PROVE j \in Int /\ CarriedAt(g, 1, h, j)
  <2>1. CASE h # g
    BY <1>2, <1>4, <1>5, <2>1 DEF CarriedAt, Pending, Was
  <2>2. CASE h = g
    BY <1>3, <1>5, <2>2 DEF CarriedAt, Pending, Was
  <2> QED BY <2>1, <2>2
<1>6. 0 \notin DOMAIN stack'[g]
  BY <1>1, <1>2
<1> QED BY <1>5, <1>6 DEF Carried

(* read_tcp is called by g, which has no part in the heartbeats of l.      *)
LEMMA CarriedStart ==
  ASSUME TypeOK, NEW g \in Procs, stack[g] # <<>>, NEW l \in Links, StartReading(g, l),
         Unwatched(l)
  PROVE  /\ Carried(g, 0, 1)
         /\ stack'[g][1] = Call("register", l) /\ stack'[g] # <<>>
         /\ g # Worker(l) /\ g # Check(l)
         /\ \A h \in Procs : h # g /\ h # Worker(l) /\ h # Check(l) => stack'[h] = stack[h]
<1>1. stack \in [Procs -> Seq(Frame)] /\ Call("register", l) \in Frame
  BY Calls DEF TypeOK
<1>2. g # Worker(l) /\ g # Check(l) /\ Worker(l) # Check(l) /\ Worker(l) \in Procs /\ Check(l) \in Procs
  BY Names DEF Unwatched
<1>3. /\ stack'[g] = <<Call("register", l)>> \o Tail(stack[g])
      /\ stack'[Worker(l)] = <<Call("beat", l)>>
      /\ stack'[Check(l)] = <<Call("watch", l)>>
      /\ \A h \in Procs : h # g /\ h # Worker(l) /\ h # Check(l) => stack'[h] = stack[h]
  BY <1>1, <1>2 DEF StartReading
<1>4. /\ stack'[g][1] = Call("register", l) /\ DOMAIN stack'[g] = DOMAIN stack[g]
      /\ stack'[g] # <<>>
      /\ \A i \in DOMAIN stack[g] : i # 1 => stack'[g][i] = stack[g][i]
  BY <1>1, <1>3, GotoIs
<1>5. \A h \in Procs : DOMAIN stack[h] = 1 .. Len(stack[h]) /\ Len(stack[h]) \in Nat
  BY <1>1
<1>6. ASSUME NEW h \in Procs, NEW j \in DOMAIN stack'[h]
      PROVE  j \in Int /\ (~(h = g /\ j = 1) => CarriedAt(g, 0, h, j))
  <2>1. CASE h # g /\ h # Worker(l) /\ h # Check(l)
    BY <1>3, <1>5, <1>6, <2>1 DEF CarriedAt, Pending, Was
  <2>2. CASE h = Worker(l) \/ h = Check(l)
    <3>1. j = 1 /\ stack'[h][j].at \in {"beat", "watch"}
      BY <1>3, <1>6, <2>2 DEF Call
    <3> QED BY <3>1 DEF CarriedAt, Pending
  <2>3. CASE h = g
    <3>1. j \in DOMAIN stack[g] /\ j \in Int /\ j + 0 = j
      BY <1>4, <1>5, <1>6, <2>3
    <3>2. j # 1 => stack'[g][j] = stack[g][j]
      BY <1>4, <3>1
    <3> QED BY <2>3, <3>1, <3>2 DEF CarriedAt, Pending, Was
  <2> QED BY <2>1, <2>2, <2>3
<1> QED BY <1>2, <1>3, <1>4, <1>6 DEF Carried

(* Steps of a goroutine that runs already leave the others' stacks alone.  *)
LEMMA UnwatchedKept ==
  ASSUME TypeOK, NEW g \in Procs, stack[g] # <<>>,
         \A h \in Procs : h # g => stack'[h] = stack[h]
  PROVE  \A l \in Links : Unwatched(l) => Unwatched(l)'
BY Names DEF Unwatched

(* StartInv holds after the steps that neither dial nor register a link.   *)
LEMMA StartMoves ==
  ASSUME TypeOK, StartInv, NEW g \in Procs,
         \/ Recover(g) \/ DialRefused(g) \/ Unanswered(g) \/ StoreWriter(g) \/ ReadFails(g)
         \/ ReadEnds(g) \/ BeatFails(g) \/ WatchFails(g) \/ WatchEnds(g)
         \/ WriteDone(g) \/ WriteFails(g)
  PROVE  StartInv'
<1>1. stack[g] # <<>> /\ Head(stack[g]) \in Frame /\ Head(stack[g]).flag \in BOOLEAN
  BY HeadIs DEF Recover, DialRefused, Unanswered, StoreWriter, ReadFails, ReadEnds, BeatFails,
                WatchFails, WatchEnds, WriteDone, WriteFails
<1>2. conns' = conns
  BY UnansweredMoves DEF Recover, DialRefused, StoreWriter, ReadFails, ReadEnds, BeatFails,
         WatchFails, WatchEnds, WriteDone, WriteFails
<1>3. \A l \in Links : conn[l] # "none" => conn'[l] # "none"
  <2>1. conn' = conn \/ Closes(LinkOf(g))
    BY UnansweredMoves DEF Recover, DialRefused, StoreWriter, ReadFails, ReadEnds, BeatFails,
           WatchFails, WatchEnds, WriteDone, WriteFails
  <2> QED BY <2>1 DEF Closes, TypeOK
<1>4. \A l \in Links : recovering'[l] => recovering[l] \/ l = conns
  <2>1. CASE Recover(g)
    BY <2>1 DEF Recover
  <2>2. CASE ~Recover(g)
    <3>1. recovering' = recovering
      BY <2>2, UnansweredMoves DEF DialRefused, StoreWriter, ReadFails, ReadEnds, BeatFails,
                  WatchFails, WatchEnds, WriteDone, WriteFails
    <3> QED BY <3>1
  <2> QED BY <2>1, <2>2
<1>5. \/ Return(g)
      \/ \E f \in Frame : Goto(g, f) /\ f.at \notin {"fallback", "register"}
      \/ \E f, a \in Frame : Push(g, f, a) /\ f.at \notin {"fallback", "register"}
                                           /\ a.at \notin {"fallback", "register"}
  <2>1. CASE ReadEnds(g) \/ WatchEnds(g) \/ WriteDone(g)
    BY <2>1 DEF ReadEnds, WatchEnds, WriteDone
  <2>2. CASE Recover(g)
    <3>1. Dial \in Frame /\ Dial.at = "dial"
      BY Calls DEF Dial, Call
    <3> QED BY <2>2, <3>1 DEF Recover
  <2>3. CASE DialRefused(g)
    <3>1. Dial \in Frame /\ Dial.at = "dial" /\ Call("connect", None) \in Frame
          /\ Call("connect", None).at = "connect"
      BY Calls DEF Dial, Call
    <3> QED BY <2>3, <3>1 DEF DialRefused
  <2>10. CASE Unanswered(g)
    BY <2>10, UnansweredMoves
  <2>4. CASE StoreWriter(g)
    <3>1. LinkOf(g) \in Links
      BY <2>4, HeadIs DEF StoreWriter
    <3>2. Call("read", LinkOf(g)) \in Frame /\ Call("read", LinkOf(g)).at = "read"
      BY <3>1, Calls DEF Call
    <3> QED BY <2>4, <3>2 DEF StoreWriter
  <2>5. CASE ReadFails(g)
    <3>1. LinkOf(g) \in Links
      BY <2>5, HeadIs DEF ReadFails
    <3>2. Call("recover", LinkOf(g)) \in Frame /\ Call("recover", LinkOf(g)).at = "recover"
          /\ Call("end", LinkOf(g)) \in Frame /\ Call("end", LinkOf(g)).at = "end"
      BY <3>1, Calls DEF Call, NoLink
    <3> QED BY <2>5, <3>2 DEF ReadFails
  <2>6. CASE BeatFails(g) \/ WatchFails(g)
    <3>1. LinkOf(g) \in Links
      BY <2>6, HeadIs DEF BeatFails, WatchFails
    <3>2. Call("recover", LinkOf(g)) \in Frame /\ Call("recover", LinkOf(g)).at = "recover"
      BY <3>1, Calls DEF Call, NoLink
    <3> QED BY <2>6, <3>2 DEF BeatFails, WatchFails
  <2>7. CASE WriteFails(g)
    <3> DEFINE f == [Call("recover", None) EXCEPT !.flag = Head(stack[g]).flag]
    <3>1. f \in Frame
      BY <1>1, Calls
    <3>2. f.at = "recover"
      BY DEF Call
    <3>3. Goto(g, f)
      BY <2>7 DEF WriteFails
    <3> HIDE DEF f
    <3> QED BY <3>1, <3>2, <3>3
  <2> QED BY <2>1, <2>2, <2>3, <2>4, <2>5, <2>6, <2>7, <2>10
<1>6. \A h \in Procs : h # g => stack'[h] = stack[h]
  BY <1>5 DEF TypeOK, Goto, Push, Return
<1>7. \A l \in Links : Unwatched(l) => Unwatched(l)'
  BY <1>1, <1>6, UnwatchedKept
<1>8. (Carried(g, 0, 0) \/ Carried(g, -1, 0) \/ Carried(g, 1, 0)) /\ 0 \notin DOMAIN stack'[g]
  BY <1>1, <1>5, CarriedGoto, CarriedPush, CarriedReturn
<1> QED BY <1>2, <1>3, <1>4, <1>7, <1>8, StartKept

LEMMA StartPanic ==
  ASSUME TypeOK, StartInv, NEW g \in Procs, NEW why, Panic(why),
         UNCHANGED <<conn, recovering, conns>>
  PROVE  StartInv'
<1>1. \A h \in Procs : stack'[h] = <<>> /\ DOMAIN stack'[h] = {}
  BY DEF Panic
<1>2. Carried(g, 0, 0) /\ 0 \notin DOMAIN stack'[g]
  BY <1>1 DEF Carried
<1>3. \A l \in Links : Unwatched(l)'
  BY <1>1, Names DEF Unwatched
<1> QED BY <1>2, <1>3, StartKept

LEMMA StartWrite ==
  ASSUME TypeOK, StartInv, NEW g \in Procs, Write(g)
  PROVE  StartInv'
<1>1. CASE writer = None
  <2>1. Panic("nil") /\ UNCHANGED <<conn, recovering, conns>>
    BY <1>1 DEF Write
  <2> QED BY <2>1, StartPanic
<1>2. CASE writer # None
  <2>1. PICK f : f.at = "write" /\ stack' = [stack EXCEPT ![g] = <<f>>]
    <3> DEFINE f == [Call("write", writer) EXCEPT !.flag = recovering[writer]]
    <3>1. f.at = "write"
      BY DEF Call
    <3>2. stack' = [stack EXCEPT ![g] = <<f>>]
      BY <1>2 DEF Write
    <3> HIDE DEF f
    <3> QED BY <3>1, <3>2
  <2>2. /\ stack'[g] = <<f>> /\ \A h \in Procs : h # g => stack'[h] = stack[h]
        /\ \A h \in Procs : DOMAIN stack[h] = 1 .. Len(stack[h]) /\ Len(stack[h]) \in Nat
    BY <2>1 DEF TypeOK
  <2>3. ASSUME NEW h \in Procs, NEW j \in DOMAIN stack'[h] PROVE j \in Int /\ CarriedAt(g, 0, h, j)
    <3>1. CASE h # g
      BY <2>2, <2>3, <3>1 DEF CarriedAt, Pending, Was
    <3>2. CASE h = g
      <4>1. j = 1 /\ stack'[h][j].at = "write"
        BY <2>1, <2>2, <2>3, <3>2
      <4> QED BY <4>1 DEF CarriedAt, Pending
    <3> QED BY <3>1, <3>2
  <2>4. Carried(g, 0, 0) /\ 0 \notin DOMAIN stack'[g]
    BY <2>2, <2>3 DEF Carried
  <2>5. \A l \in Links : Unwatched(l) => Unwatched(l)'
    <3>1. \A l \in Links : Worker(l) # g /\ Check(l) # g
      BY Names DEF Write
    <3> QED BY <2>2, <3>1, Names DEF Unwatched
  <2>6. UNCHANGED <<conn, recovering, conns>>
    BY <1>2 DEF Write
  <2> QED BY <2>4, <2>5, <2>6, StartKept
<1> QED BY <1>1, <1>2

(* What is known of every call that waits to register a link.              *)
LEMMA OldPending ==
  ASSUME TypeOK, StartInv, NEW g \in Procs, NEW k, NEW h \in Procs, NEW j,
         Pending(h, j)', CarriedAt(g, k, h, j)
  PROVE  LET l == stack'[h][j].link IN
         /\ l \in Links /\ conn[l] # "none" /\ l # conns /\ ~recovering[l]
         /\ stack'[h][j].at = "fallback" => Unwatched(l)
<1>1. PICK i : /\ Pending(h, i) /\ stack'[h][j].link = stack[h][i].link
               /\ stack'[h][j].at = "fallback" => stack[h][i].at = "fallback"
               /\ i = Was(g, k, h, j)
  BY DEF CarriedAt
<1>2. i \in DOMAIN stack[h] /\ stack[h][i].link \in Links
  BY <1>1, PendingLink
<1>3. /\ conn[stack[h][i].link] # "none"
      /\ stack[h][i].link # conns
      /\ ~recovering[stack[h][i].link]
      /\ stack[h][i].at = "fallback" => Unwatched(stack[h][i].link)
  BY <1>1, <1>2 DEF StartInv, PendingLinks
<1> QED BY <1>1, <1>2, <1>3

(* A link is registered: no other call waits to register it.               *)
LEMMA StartRegister ==
  ASSUME TypeOK, StartInv, NEW g \in Procs, Register(g)
  PROVE  StartInv' /\ ~recovering[LinkOf(g)] /\ LinkOf(g) \in Links
<1> DEFINE l == LinkOf(g)
<1>1. /\ stack[g] # <<>> /\ 1 \in DOMAIN stack[g] /\ stack[g][1].at = "register"
      /\ stack[g][1].link = l /\ l \in Links
  BY HeadIs DEF Register
<1>2. Pending(g, 1)
  BY <1>1 DEF Pending
<1>3. conn[l] # "none" /\ ~recovering[l]
  BY <1>1, <1>2 DEF StartInv, PendingLinks
<1>4. Call("store", l) \in Frame /\ Call("store", l).at = "store"
  BY <1>1, Calls DEF Call
<1>5. Carried(g, 0, 0) /\ 0 \notin DOMAIN stack'[g]
  BY <1>1, <1>4, CarriedGoto DEF Register
<1>6. \A h \in Procs : h # g => stack'[h] = stack[h]
  BY DEF Register, Goto, TypeOK
<1>7. stack'[g] = <<Call("store", l)>> \o Tail(stack[g])
  BY DEF Register, Goto, TypeOK
<1>8. stack'[g][1].at = "store"
  <2>1. stack[g] \in Seq(Frame)
    BY DEF TypeOK
  <2>2. stack'[g][1] = Call("store", l)
    BY <1>1, <1>4, <1>7, <2>1, GotoIs
  <2> QED BY <1>4, <2>2
<1>9. conns' = l /\ UNCHANGED <<conn, recovering>>
  BY DEF Register
<1>10. \A k \in Links : Unwatched(k) => Unwatched(k)'
  BY <1>1, <1>6, UnwatchedKept
<1>11. NewLinks'
  <2>1. ASSUME NEW k \in Links, conn[k] = "none"
        PROVE  k # conns' /\ ~recovering'[k] /\ Unwatched(k)'
    BY <1>3, <1>9, <1>10, <2>1 DEF StartInv, NewLinks
  <2> QED BY <1>9, <2>1 DEF NewLinks
<1>12. PendingApart'
  BY <1>5, ApartKept
<1>13. ASSUME NEW h \in Procs, NEW j \in DOMAIN stack'[h], Pending(h, j)'
       PROVE  /\ conn'[stack'[h][j].link] # "none"
              /\ stack'[h][j].link # conns'
              /\ ~recovering'[stack'[h][j].link]
              /\ stack'[h][j].at = "fallback" => Unwatched(stack[h][j].link)'
  <2>1. CarriedAt(g, 0, h, j) /\ j \in Int
    BY <1>5, <1>13 DEF Carried
  <2>2. LET k == stack'[h][j].link IN
        /\ k \in Links /\ conn[k] # "none" /\ k # conns /\ ~recovering[k]
        /\ stack'[h][j].at = "fallback" => Unwatched(k)
    BY <1>13, <2>1, OldPending
  <2>3. stack'[h][j].link # l
    <3>1. Was(g, 0, h, j) = j
      BY <2>1 DEF Was
    <3>2. Pending(h, j) /\ stack'[h][j].link = stack[h][j].link /\ j \in DOMAIN stack[h]
      BY <1>13, <2>1, <3>1 DEF CarriedAt, Pending
    <3>3. ~(h = g /\ j = 1)
      BY <1>8, <1>13 DEF Pending
    <3>4. stack[h][j].link # stack[g][1].link
      BY <1>1, <1>2, <3>2, <3>3 DEF StartInv, PendingApart
    <3> QED BY <1>1, <3>2, <3>4
  <2>4. stack'[h][j].at = "fallback" => Unwatched(stack[h][j].link)'
    BY <2>2, <1>10 DEF Unwatched
  <2> QED BY <1>9, <2>2, <2>3, <2>4
<1>14. PendingLinks'
  BY <1>13 DEF PendingLinks
<1> QED BY <1>1, <1>3, <1>11, <1>12, <1>14 DEF StartInv

(* Starting to read l leaves the heartbeat goroutines of other links alone.*)
LEMMA UnwatchedStart ==
  ASSUME TypeOK, NEW g \in Procs, stack[g] # <<>>, NEW l \in Links, StartReading(g, l),
         Unwatched(l)
  PROVE  \A k \in Links : k # l /\ Unwatched(k) => Unwatched(k)'
<1> TAKE k \in Links
<1> HAVE k # l /\ Unwatched(k)
<1>1. Worker(k) # g /\ Check(k) # g
  BY DEF Unwatched
<1>2. /\ Worker(k) # Worker(l) /\ Worker(k) # Check(l) /\ Check(k) # Check(l) /\ Check(k) # Worker(l)
      /\ Worker(k) \in Procs /\ Check(k) \in Procs
  BY Names
<1>3. stack'[Worker(k)] = stack[Worker(k)] /\ stack'[Check(k)] = stack[Check(k)]
  BY <1>1, <1>2, CarriedStart
<1> QED BY <1>3 DEF Unwatched

(* The first connection is used after all.                                 *)
LEMMA StartFallback ==
  ASSUME TypeOK, StartInv, NEW g \in Procs, Fallback(g)
  PROVE  /\ StartInv' /\ LinkOf(g) \in Links /\ Unwatched(LinkOf(g))
         /\ stack[g] # <<>> /\ StartReading(g, LinkOf(g))
<1> DEFINE l == LinkOf(g)
<1>1. /\ stack[g] # <<>> /\ 1 \in DOMAIN stack[g] /\ stack[g][1].at = "fallback"
      /\ stack[g][1].link = l /\ l \in Links
  BY HeadIs DEF Fallback
<1>2. Pending(g, 1)
  BY <1>1 DEF Pending
<1>3. conn[l] # "none" /\ l # conns /\ ~recovering[l] /\ Unwatched(l)
  BY <1>1, <1>2 DEF StartInv, PendingLinks
<1>4. StartReading(g, l) /\ UNCHANGED <<conn, recovering, conns>>
  BY DEF Fallback
<1>5. Carried(g, 0, 1) /\ stack'[g][1] = Call("register", l)
  BY <1>1, <1>3, <1>4, CarriedStart
<1>6. CarriedAt(g, 0, g, 1)
  <2>1. Was(g, 0, g, 1) = 1
    BY DEF Was
  <2>2. stack'[g][1].link = l /\ stack'[g][1].at = "register"
    BY <1>5 DEF Call
  <2> QED BY <1>1, <1>2, <2>1, <2>2 DEF CarriedAt
<1>7. \A k \in Links : k # l /\ Unwatched(k) => Unwatched(k)'
  BY <1>1, <1>3, <1>4, UnwatchedStart
<1>8. PendingApart'
  BY <1>5, <1>6, ApartKept
<1>9. NewLinks'
  <2>1. ASSUME NEW k \in Links, conn[k] = "none"
        PROVE  k # conns' /\ ~recovering'[k] /\ Unwatched(k)'
    BY <1>3, <1>4, <1>7, <2>1 DEF StartInv, NewLinks
  <2> QED BY <1>4, <2>1 DEF NewLinks
<1>10. ASSUME NEW h \in Procs, NEW j \in DOMAIN stack'[h], Pending(h, j)'
       PROVE  /\ conn'[stack'[h][j].link] # "none"
              /\ stack'[h][j].link # conns'
              /\ ~recovering'[stack'[h][j].link]
              /\ stack'[h][j].at = "fallback" => Unwatched(stack[h][j].link)'
  <2>1. CarriedAt(g, 0, h, j) /\ j \in Int
    BY <1>5, <1>6, <1>10 DEF Carried
  <2>2. LET k == stack'[h][j].link IN
        /\ k \in Links /\ conn[k] # "none" /\ k # conns /\ ~recovering[k]
        /\ stack'[h][j].at = "fallback" => Unwatched(k)
    BY <1>10, <2>1, OldPending
  <2>3. stack'[h][j].at = "fallback" => stack'[h][j].link # l
    <3>1. Was(g, 0, h, j) = j
      BY <2>1 DEF Was
    <3>2. Pending(h, j) /\ stack'[h][j].link = stack[h][j].link /\ j \in DOMAIN stack[h]
      BY <1>10, <2>1, <3>1 DEF CarriedAt, Pending
    <3>3. stack'[h][j].at = "fallback" => ~(h = g /\ j = 1)
      BY <1>5 DEF Call
    <3>4. stack'[h][j].at = "fallback" => stack[h][j].link # stack[g][1].link
      BY <1>1, <1>2, <3>2, <3>3 DEF StartInv, PendingApart
    <3> QED BY <1>1, <3>2, <3>4
  <2>4. stack'[h][j].at = "fallback" => Unwatched(stack[h][j].link)'
    BY <2>2, <2>3, <1>7 DEF Unwatched
  <2> QED BY <1>4, <2>2, <2>4
<1>11. PendingLinks'
  BY <1>10 DEF PendingLinks
<1> QED BY <1>1, <1>3, <1>4, <1>8, <1>9, <1>11 DEF StartInv

(* A link is dialled and waits to be registered.                           *)
LEMMA StartOpens ==
  ASSUME TypeOK, StartInv, NEW g \in Procs, NEW k \in {-1, 0}, NEW n, NEW l \in Links,
         Opens(l), UNCHANGED <<recovering, conns>>, Carried(g, k, n),
         n \in DOMAIN stack'[g], stack'[g][n].link = l,
         \A m \in Links : m # l /\ Unwatched(m) => Unwatched(m)',
         stack'[g][n].at = "fallback" => Unwatched(l)'
  PROVE  StartInv'
<1>1. conn[l] = "none" /\ l # conns /\ ~recovering[l] /\ Unwatched(l)
  BY DEF StartInv, NewLinks, Opens
<1>2. conn'[l] = "open" /\ \A m \in Links : m # l => conn'[m] = conn[m]
  BY DEF Opens, TypeOK
<1>3. PendingApart'
  BY <1>1, ApartKept
<1>4. NewLinks'
  <2>1. ASSUME NEW m \in Links, conn'[m] = "none"
        PROVE  m # conns' /\ ~recovering'[m] /\ Unwatched(m)'
    BY <1>2, <2>1 DEF StartInv, NewLinks
  <2> QED BY <2>1 DEF NewLinks
<1>5. ASSUME NEW h \in Procs, NEW j \in DOMAIN stack'[h], Pending(h, j)'
      PROVE  /\ conn'[stack'[h][j].link] # "none"
             /\ stack'[h][j].link # conns'
             /\ ~recovering'[stack'[h][j].link]
             /\ stack'[h][j].at = "fallback" => Unwatched(stack[h][j].link)'
  <2>1. CASE h = g /\ j = n
    <3>1. stack'[h][j].at = "fallback" => Unwatched(stack[h][j].link)'
      BY <2>1 DEF Unwatched
    <3> QED BY <1>1, <1>2, <2>1, <3>1
  <2>2. CASE ~(h = g /\ j = n)
    <3>1. CarriedAt(g, k, h, j)
      BY <1>5, <2>2 DEF Carried
    <3>2. LET m == stack'[h][j].link IN
          /\ m \in Links /\ conn[m] # "none" /\ m # conns /\ ~recovering[m]
          /\ stack'[h][j].at = "fallback" => Unwatched(m)
      BY <1>5, <3>1, OldPending
    <3>3. stack'[h][j].link # l
      BY <1>1, <3>2
    <3>4. stack'[h][j].at = "fallback" => Unwatched(stack[h][j].link)'
      BY <3>2, <3>3 DEF Unwatched
    <3> QED BY <1>2, <3>2, <3>3, <3>4
  <2> QED BY <2>1, <2>2
<1>6. PendingLinks'
  BY <1>5 DEF PendingLinks
<1> QED BY <1>3, <1>4, <1>6 DEF StartInv

(* connect_new_socket and recover_socket open a link and start reading it. *)
LEMMA OpensAndReads ==
  ASSUME TypeOK, StartInv, NEW g \in Procs, NEW l \in Links,
         Connected(g, l) \/ Dialled(g, l)
  PROVE  /\ StartInv' /\ Unwatched(l) /\ stack[g] # <<>> /\ StartReading(g, l)
         /\ UNCHANGED <<recovering, conns, writer>>
<1>1. stack[g] # <<>> /\ Opens(l) /\ StartReading(g, l) /\ UNCHANGED <<recovering, conns, writer>>
  BY DEF Connected, Dialled, At
<1>2. Unwatched(l)
  BY <1>1 DEF StartInv, NewLinks, Opens
<1>3. Carried(g, 0, 1) /\ stack'[g][1] = Call("register", l) /\ stack'[g] # <<>>
  BY <1>1, <1>2, CarriedStart
<1>4. 1 \in DOMAIN stack'[g]
  <2>1. TypeOK'
    BY TypeConnect
  <2> QED BY <1>3, <2>1 DEF TypeOK
<1>5. stack'[g][1].link = l /\ stack'[g][1].at = "register"
  BY <1>3 DEF Call
<1>6. \A m \in Links : m # l /\ Unwatched(m) => Unwatched(m)'
  BY <1>1, <1>2, UnwatchedStart
<1>7. StartInv'
  BY <1>1, <1>3, <1>4, <1>5, <1>6, StartOpens
<1> QED BY <1>1, <1>2, <1>7

(* A connection the router answers with op 3 is kept for later.            *)
LEMMA OpensAndRecovers ==
  ASSUME TypeOK, StartInv, NEW g \in Procs, NEW l \in Links, ConnectRefused(g, l)
  PROVE  StartInv'
<1>1. /\ stack[g] # <<>> /\ Opens(l) /\ UNCHANGED <<recovering, conns>>
      /\ Push(g, Call("recover", None), Call("fallback", l))
  BY DEF ConnectRefused, At
<1>2. /\ Call("recover", None) \in Frame /\ Call("recover", None).at = "recover"
      /\ Call("fallback", l) \in Frame /\ Call("fallback", l).link = l
  BY Calls DEF Call, NoLink
<1>3. Carried(g, -1, 2) /\ stack'[g][2] = Call("fallback", l)
  BY <1>1, <1>2, CarriedPush
<1>4. 2 \in DOMAIN stack'[g]
  <2>1. stack'[g] = <<Call("recover", None), Call("fallback", l)>> \o Tail(stack[g])
        /\ stack[g] \in Seq(Frame)
    BY <1>1 DEF Push, TypeOK
  <2>2. DOMAIN stack'[g] = 1 .. Len(stack[g]) + 1 /\ Len(stack[g]) \in Nat
    BY <1>1, <1>2, <2>1, PushIs
  <2>3. Len(stack[g]) >= 1
    BY <1>1, <2>1
  <2> QED BY <2>2, <2>3
<1>5. \A h \in Procs : h # g => stack'[h] = stack[h]
  BY <1>1 DEF Push, TypeOK
<1>6. \A m \in Links : Unwatched(m) => Unwatched(m)'
  BY <1>1, <1>5, UnwatchedKept
<1>7. Unwatched(l)'
  BY <1>1, <1>6 DEF StartInv, NewLinks, Opens
<1> QED BY <1>1, <1>2, <1>3, <1>4, <1>6, <1>7, StartOpens

LEMMA StartNext == TypeOK /\ StartInv /\ [Next]_vars => StartInv'
<1>1. ASSUME StartInv, UNCHANGED vars PROVE StartInv'
  BY <1>1 DEF vars, StartInv, NewLinks, PendingLinks, PendingApart, Pending, Unwatched
<1>2. ASSUME TypeOK, StartInv, NEW g \in Procs, Step(g) PROVE StartInv'
  <2>1. CASE ConnectFails(g) \/ DialsExhausted(g)
    <3>1. Panic("router") /\ UNCHANGED <<conn, recovering, conns>>
      BY <2>1 DEF ConnectFails, DialsExhausted
    <3> QED BY <1>2, <3>1, StartPanic
  <2>2. CASE Write(g)
    BY <1>2, <2>2, StartWrite
  <2>3. CASE Register(g) \/ Fallback(g)
    BY <1>2, <2>3, StartRegister, StartFallback
  <2>4. CASE \/ Recover(g) \/ DialRefused(g) \/ Unanswered(g) \/ StoreWriter(g) \/ ReadFails(g)
             \/ ReadEnds(g) \/ BeatFails(g) \/ WatchFails(g) \/ WatchEnds(g)
             \/ WriteDone(g) \/ WriteFails(g)
    BY <1>2, <2>4, StartMoves
  <2>5. ASSUME NEW l \in Links, Connected(g, l) \/ ConnectRefused(g, l) \/ Dialled(g, l)
        PROVE  StartInv'
    BY <1>2, <2>5, OpensAndReads, OpensAndRecovers
  <2> QED BY <1>2, <2>1, <2>2, <2>3, <2>4, <2>5 DEF Step
<1> QED BY <1>1, <1>2 DEF Next

LEMMA StartInit == Init => StartInv
<1> SUFFICES ASSUME Init PROVE StartInv
  OBVIOUS
<1>1. \A g \in Procs : stack[g] = (IF g = Main THEN <<Call("connect", None)>> ELSE <<>>)
  BY DEF Init
<1>2. \A g \in Procs : \A i : ~Pending(g, i)
  <2>1. ASSUME NEW g \in Procs, NEW i \in DOMAIN stack[g] PROVE stack[g][i].at = "connect"
    BY <1>1, <2>1 DEF Call
  <2> QED BY <2>1 DEF Pending
<1>3. NewLinks
  <2>1. \A l \in Links : Worker(l) # Main /\ Check(l) # Main
    BY DEF Worker, Check, Main
  <2>2. \A l \in Links : Unwatched(l)
    BY <1>1, <2>1, Names DEF Unwatched
  <2> QED BY <2>2, ConstantsAssumption DEF NewLinks, Init
<1>4. PendingLinks /\ PendingApart
  BY <1>2 DEF PendingLinks, PendingApart
<1> QED BY <1>3, <1>4 DEF StartInv

-----------------------------------------------------------------------------
(* Nobody believes that a link is being recovered when it is not.          *)

(* A step of a goroutine that is not replacing a link leaves those alone   *)
(* that are, unless it starts heartbeat goroutines, which were idle.       *)
LEMMA ReplacingKept ==
  ASSUME TypeOK, NEW g \in Procs, ~Replacing(g), recovering' = recovering,
         \A h \in Procs : h # g => stack'[h] = stack[h]
  PROVE  \A h \in Procs : Replacing(h) => Replacing(h)'
BY DEF Replacing, IsRecovering

LEMMA FlaggedNext ==
  TypeOK /\ StartInv /\ FlaggedIsReplaced /\ [Next]_vars => FlaggedIsReplaced'
<1>1. ASSUME FlaggedIsReplaced, UNCHANGED vars PROVE FlaggedIsReplaced'
  BY <1>1 DEF vars, FlaggedIsReplaced, Replacing, IsRecovering
<1>2. ASSUME TypeOK, StartInv, FlaggedIsReplaced, NEW g \in Procs, Step(g), panicked = "no"
      PROVE  FlaggedIsReplaced'
  <2>1. CASE ConnectFails(g) \/ DialsExhausted(g)
    BY <2>1 DEF ConnectFails, DialsExhausted, Panic, FlaggedIsReplaced
  <2>2. CASE Write(g) /\ writer = None
    BY <2>2 DEF Write, Panic, FlaggedIsReplaced
  <2>3. CASE Register(g)
    <3>1. ~recovering[LinkOf(g)]
      BY <1>2, <2>3, StartRegister
    <3> QED BY <2>3, <3>1 DEF Register, FlaggedIsReplaced
  <2>4. CASE Recover(g) /\ ~IsRecovering(Head(stack[g]))
    <3>1. Goto(g, Dial) /\ stack[g] # <<>>
      BY <2>4 DEF Recover, At
    <3>2. stack'[g] = <<Dial>> \o Tail(stack[g])
      BY <1>2, <3>1 DEF Goto, TypeOK
    <3>3. stack'[g] # <<>> /\ Head(stack'[g]) = Dial
      BY <1>2, <3>1, <3>2, GotoIs, Calls DEF TypeOK
    <3>4. Replacing(g)'
      BY <3>3 DEF Replacing, Dial, Call
    <3> QED BY <3>4 DEF FlaggedIsReplaced
  <2>5. CASE DialRefused(g)
    <3>1. Push(g, Call("connect", None), Dial) /\ stack[g] # <<>>
      BY <2>5 DEF DialRefused, At
    <3>2. stack'[g] = <<Call("connect", None), Dial>> \o Tail(stack[g])
      BY <1>2, <3>1 DEF Push, TypeOK
    <3>3. stack'[g] # <<>> /\ Head(stack'[g]) = Call("connect", None)
      BY <1>2, <3>1, <3>2, PushIs, Calls DEF TypeOK
    <3>4. Replacing(g)'
      BY <3>3 DEF Replacing, Call
    <3> QED BY <3>4 DEF FlaggedIsReplaced
  <2>6. ASSUME NEW l \in Links, ConnectRefused(g, l) PROVE FlaggedIsReplaced'
    <3>1. Push(g, Call("recover", None), Call("fallback", l)) /\ stack[g] # <<>>
      BY <2>6 DEF ConnectRefused, At
    <3>2. stack'[g] = <<Call("recover", None), Call("fallback", l)>> \o Tail(stack[g])
      BY <1>2, <3>1 DEF Push, TypeOK
    <3>3. Call("recover", None) \in Frame /\ Call("fallback", l) \in Frame
      BY Calls DEF NoLink
    <3>4. stack'[g] # <<>> /\ Head(stack'[g]) = Call("recover", None)
      BY <1>2, <3>1, <3>2, <3>3, PushIs DEF TypeOK
    <3>5. Replacing(g)'
      BY <3>4 DEF Replacing, IsRecovering, Call
    <3> QED BY <3>5 DEF FlaggedIsReplaced
  <2>7. ASSUME NEW l \in Links, StartReading(g, l), Unwatched(l), stack[g] # <<>>
        PROVE  FlaggedIsReplaced'
    <3>1. stack'[g][1] = Call("register", l) /\ stack'[g] # <<>>
          /\ stack'[g] = <<Call("register", l)>> \o Tail(stack[g])
      <4>1. stack'[g][1] = Call("register", l) /\ stack'[g] # <<>>
            /\ g # Worker(l) /\ g # Check(l)
        BY <1>2, <2>7, CarriedStart
      <4> QED BY <1>2, <2>7, <4>1 DEF StartReading, TypeOK
    <3>2. Head(stack'[g]) = Call("register", l)
      BY <1>2, <2>7, <3>1, GotoIs, Calls DEF TypeOK
    <3>3. Replacing(g)'
      BY <3>1, <3>2 DEF Replacing, Call
    <3> QED BY <3>3 DEF FlaggedIsReplaced
  <2>8. CASE Fallback(g)
    BY <1>2, <2>7, <2>8, StartFallback
  <2>9. ASSUME NEW l \in Links, Connected(g, l) \/ Dialled(g, l) PROVE FlaggedIsReplaced'
    BY <1>2, <2>7, <2>9, OpensAndReads
  <2>11. CASE Unanswered(g)
    <3>1. stack'[g] = <<Call("waits", None)>> \o Tail(stack[g])
      BY <1>2, <2>11, UnansweredMoves DEF Goto, TypeOK
    <3>2. stack'[g] # <<>> /\ Head(stack'[g]).at = "waits"
      BY <1>2, <2>11, <3>1, UnansweredMoves, GotoIs DEF TypeOK
    <3> QED BY <3>2 DEF Replacing, FlaggedIsReplaced
  <2>10. CASE \/ Recover(g) /\ IsRecovering(Head(stack[g]))
              \/ StoreWriter(g) \/ ReadFails(g) \/ ReadEnds(g) \/ BeatFails(g)
              \/ WatchFails(g) \/ WatchEnds(g) \/ WriteDone(g) \/ WriteFails(g)
              \/ Write(g) /\ writer # None
    <3>1. ~Replacing(g)
      BY <2>10 DEF Recover, StoreWriter, ReadFails, ReadEnds, BeatFails, WatchFails,
                   WatchEnds, WriteDone, WriteFails, Write, At, Replacing
    <3>2. recovering' = recovering /\ conns' = conns
      BY <2>10 DEF Recover, StoreWriter, ReadFails, ReadEnds, BeatFails, WatchFails,
                   WatchEnds, WriteDone, WriteFails, Write
    <3>3. \A h \in Procs : h # g => stack'[h] = stack[h]
      BY <1>2, <2>10 DEF Recover, StoreWriter, ReadFails, ReadEnds, BeatFails, WatchFails,
                   WatchEnds, WriteDone, WriteFails, Write, Goto, Push, Return, TypeOK
    <3>4. \A h \in Procs : Replacing(h) => Replacing(h)'
      BY <1>2, <3>1, <3>2, <3>3, ReplacingKept
    <3> QED BY <1>2, <3>2, <3>4 DEF FlaggedIsReplaced
  <2> QED BY <1>2, <2>1, <2>2, <2>3, <2>4, <2>5, <2>6, <2>8, <2>9, <2>10, <2>11 DEF Step
<1> QED BY <1>1, <1>2 DEF Next

-----------------------------------------------------------------------------
(* A link that socket_write may use is read.                               *)

LEMMA WriterNext ==
  TypeOK /\ StartInv /\ WriterIsRead /\ [Next]_vars => WriterIsRead'
<1>1. ASSUME WriterIsRead, UNCHANGED vars PROVE WriterIsRead'
  BY <1>1 DEF vars, WriterIsRead, At, LinkOf
<1>2. ASSUME TypeOK, StartInv, WriterIsRead, NEW g \in Procs, Step(g), panicked = "no"
      PROVE  WriterIsRead'
  <2>1. CASE ConnectFails(g) \/ DialsExhausted(g)
    BY <2>1 DEF ConnectFails, DialsExhausted, Panic, WriterIsRead
  <2>2. CASE Write(g) /\ writer = None
    BY <2>2 DEF Write, Panic, WriterIsRead
  <2>3. CASE StoreWriter(g)
    <3>1. stack[g] # <<>> /\ LinkOf(g) \in Links
      BY <1>2, <2>3, HeadIs DEF StoreWriter
    <3>2. Call("read", LinkOf(g)) \in Frame
      BY <3>1, Calls
    <3>3. stack'[g] = <<Call("read", LinkOf(g))>> \o Tail(stack[g])
      BY <1>2, <2>3 DEF StoreWriter, Goto, TypeOK
    <3>4. stack'[g] # <<>> /\ Head(stack'[g]) = Call("read", LinkOf(g))
      BY <1>2, <3>1, <3>2, <3>3, GotoIs DEF TypeOK
    <3>5. writer' = LinkOf(g)
      BY <2>3 DEF StoreWriter
    <3>6. At(g, "read")' /\ LinkOf(g)' = writer'
      BY <3>4, <3>5 DEF At, LinkOf, Call
    <3> QED BY <3>6 DEF WriterIsRead
  <2>4. ASSUME NEW l \in Links, StartReading(g, l), Unwatched(l), ~At(g, "read"), stack[g] # <<>>,
               writer' = writer, panicked' = panicked, conn' = conn \/ Opens(l)
        PROVE  WriterIsRead'
    <3>1. ASSUME writer # None, conn'[writer] # "closed" PROVE conn[writer] # "closed"
      BY <1>2, <2>4, <3>1 DEF Opens, TypeOK, NoLink
    <3>2. ASSUME NEW h \in Procs, At(h, "read") PROVE stack'[h] = stack[h]
      <4>1. h # g /\ h # Worker(l) /\ h # Check(l)
        BY <2>4, <3>2 DEF At, Unwatched
      <4> QED BY <1>2, <2>4, <4>1, CarriedStart
    <3>3. \A h \in Procs : At(h, "read") => At(h, "read")' /\ LinkOf(h)' = LinkOf(h)
      BY <3>2 DEF At, LinkOf
    <3> QED BY <1>2, <2>4, <3>1, <3>3 DEF WriterIsRead
  <2>5. CASE Fallback(g)
    <3>1. /\ LinkOf(g) \in Links /\ Unwatched(LinkOf(g)) /\ stack[g] # <<>>
          /\ StartReading(g, LinkOf(g))
      BY <1>2, <2>5, StartFallback
    <3>2. ~At(g, "read") /\ writer' = writer /\ panicked' = panicked /\ conn' = conn
      BY <2>5 DEF Fallback, At
    <3> QED BY <2>4, <3>1, <3>2
  <2>6. ASSUME NEW l \in Links, Connected(g, l) \/ Dialled(g, l) PROVE WriterIsRead'
    <3>1. Unwatched(l) /\ stack[g] # <<>> /\ StartReading(g, l)
      BY <1>2, <2>6, OpensAndReads
    <3>2. ~At(g, "read") /\ writer' = writer /\ panicked' = panicked /\ Opens(l)
      BY <2>6 DEF Connected, Dialled, At
    <3> QED BY <2>4, <3>1, <3>2
  <2>7. ASSUME \A h \in Procs : h # g => stack'[h] = stack[h], ~At(g, "read"),
               writer' = writer, panicked' = panicked,
               conn' = conn \/ (\E l \in Links : Opens(l)) \/ (\E l \in Links : Closes(l))
        PROVE  WriterIsRead'
    <3>1. ASSUME writer # None, conn'[writer] # "closed" PROVE conn[writer] # "closed"
      BY <1>2, <2>7, <3>1 DEF Opens, Closes, TypeOK, NoLink
    <3>2. \A h \in Procs : At(h, "read") => At(h, "read")' /\ LinkOf(h)' = LinkOf(h)
      BY <2>7 DEF At, LinkOf
    <3> QED BY <1>2, <2>7, <3>1, <3>2 DEF WriterIsRead
  <2>8. ASSUME NEW l \in Links, ConnectRefused(g, l) PROVE WriterIsRead'
    <3>1. \A h \in Procs : h # g => stack'[h] = stack[h]
      BY <1>2, <2>8 DEF ConnectRefused, Push, TypeOK
    <3>2. ~At(g, "read") /\ writer' = writer /\ panicked' = panicked /\ Opens(l)
      BY <2>8 DEF ConnectRefused, At
    <3> QED BY <2>7, <3>1, <3>2
  <2>9. CASE ReadFails(g)
    <3>1. LinkOf(g) \in Links /\ conn'[LinkOf(g)] = "closed"
      BY <1>2, <2>9, HeadIs DEF ReadFails, Closes, TypeOK
    <3>2. \A h \in Procs : h # g => stack'[h] = stack[h]
      BY <1>2, <2>9 DEF ReadFails, Push, TypeOK
    <3>3. ASSUME writer # None, conn'[writer] # "closed"
          PROVE  conn[writer] # "closed" /\ writer # LinkOf(g)
      BY <1>2, <2>9, <3>1, <3>3 DEF ReadFails, Closes, TypeOK, NoLink
    <3>4. \A h \in Procs : h # g /\ At(h, "read") => At(h, "read")' /\ LinkOf(h)' = LinkOf(h)
      BY <3>2 DEF At, LinkOf
    <3>5. writer' = writer /\ panicked' = panicked
      BY <2>9 DEF ReadFails
    <3> QED BY <1>2, <3>3, <3>4, <3>5 DEF WriterIsRead
  <2>11. CASE Unanswered(g)
    <3>1. \A h \in Procs : h # g => stack'[h] = stack[h]
      BY <1>2, <2>11, UnansweredMoves DEF Goto, TypeOK
    <3>2. ~At(g, "read") /\ writer' = writer /\ panicked' = panicked /\ conn' = conn
      BY <1>2, <2>11, UnansweredMoves DEF At
    <3> QED BY <2>7, <3>1, <3>2
  <2>10. CASE \/ Recover(g) \/ DialRefused(g) \/ Register(g) \/ ReadEnds(g) \/ BeatFails(g)
              \/ WatchFails(g) \/ WatchEnds(g) \/ WriteDone(g) \/ WriteFails(g)
              \/ Write(g) /\ writer # None
    <3>1. \A h \in Procs : h # g => stack'[h] = stack[h]
      BY <1>2, <2>10 DEF Recover, DialRefused, Register, ReadEnds, BeatFails, WatchFails,
                   WatchEnds, WriteDone, WriteFails, Write, Goto, Push, Return, TypeOK
    <3>2. ~At(g, "read") /\ writer' = writer /\ panicked' = panicked
      BY <2>10 DEF Recover, DialRefused, Register, ReadEnds, BeatFails, WatchFails,
                   WatchEnds, WriteDone, WriteFails, Write, At
    <3>3. conn' = conn \/ \E l \in Links : Closes(l)
      <4>1. BeatFails(g) \/ WatchFails(g) \/ WriteFails(g) => LinkOf(g) \in Links
        BY <1>2, HeadIs DEF BeatFails, WatchFails, WriteFails
      <4> QED BY <2>10, <4>1 DEF Recover, DialRefused, Register, ReadEnds, BeatFails, WatchFails,
                   WatchEnds, WriteDone, WriteFails, Write
    <3> QED BY <2>7, <3>1, <3>2, <3>3
  <2> QED BY <1>2, <2>1, <2>2, <2>3, <2>5, <2>6, <2>8, <2>9, <2>10, <2>11 DEF Step
<1> QED BY <1>1, <1>2 DEF Next

-----------------------------------------------------------------------------
(* Who reads a link.                                                       *)

Readers == {"fallback", "register", "store", "read", "end"}

(* A call of read_tcp, from when it is settled until it has returned.      *)
Reading(g, i) == i \in DOMAIN stack[g] /\ stack[g][i].at \in Readers

(* No link is handed to two calls of read_tcp, whichever goroutines and    *)
(* however deep in their stacks they are.                                  *)
OneReader ==
  \A g, h \in Procs : \A i \in DOMAIN stack[g], j \in DOMAIN stack[h] :
    Reading(g, i) /\ Reading(h, j) /\ stack[g][i].link = stack[h][j].link =>
      g = h /\ i = j

(* Nobody reads a link that is not dialled yet.                            *)
ReadIsDialled ==
  \A g \in Procs : \A i \in DOMAIN stack[g] :
    Reading(g, i) => conn[stack[g][i].link] # "none"

(* A call of read_tcp after a step of g was one before it, of that link.   *)
ReadBefore(g, k, h, j) ==
  Reading(h, j)' =>
    /\ Reading(h, Was(g, k, h, j))
    /\ stack'[h][j].link = stack[h][Was(g, k, h, j)].link

(* Link l is dialled by this step.                                         *)
New(l) == conn[l] = "none" /\ conn'[l] # "none"

(* The only new call of read_tcp after a step of g is at n, for a new link.*)
ReadMoves(g, k, n) ==
  \A h \in Procs : \A j \in DOMAIN stack'[h] :
    /\ j \in Int
    /\ ReadBefore(g, k, h, j) \/ (h = g /\ j = n /\ New(stack'[g][n].link))

LEMMA ReadersKept ==
  ASSUME OneReader, ReadIsDialled, NEW g \in Procs, NEW k \in {-1, 0, 1}, NEW n,
         ReadMoves(g, k, n), TypeOK,
         \A l \in Links : conn[l] # "none" => conn'[l] # "none"
  PROVE  OneReader' /\ ReadIsDialled'
<1>1. ASSUME NEW h \in Procs, NEW j \in DOMAIN stack'[h], Reading(h, j)', ReadBefore(g, k, h, j)
      PROVE  /\ Reading(h, Was(g, k, h, j)) /\ Was(g, k, h, j) \in DOMAIN stack[h]
             /\ stack'[h][j].link = stack[h][Was(g, k, h, j)].link
             /\ conn[stack'[h][j].link] # "none" /\ stack'[h][j].link \in Links
  <2> DEFINE i == Was(g, k, h, j)
  <2>1. Reading(h, i) /\ stack'[h][j].link = stack[h][i].link
    BY <1>1 DEF ReadBefore
  <2> HIDE DEF i
  <2>2. i \in DOMAIN stack[h] /\ stack[h][i].at \in Readers /\ stack[h] \in Seq(Frame)
    BY <2>1 DEF Reading, TypeOK
  <2>3. stack[h][i] \in Frame
    BY <2>2
  <2>4. stack[h][i].link \in Links
    BY <2>2, <2>3 DEF Frame, Readers
  <2>5. conn[stack[h][i].link] # "none"
    BY <2>1, <2>2 DEF ReadIsDialled
  <2> QED BY <2>1, <2>2, <2>4, <2>5 DEF i
<1>2. OneReader'
  <2> SUFFICES ASSUME NEW a \in Procs, NEW b \in Procs,
                      NEW i \in DOMAIN stack'[a], NEW j \in DOMAIN stack'[b],
                      Reading(a, i)', Reading(b, j)', stack'[a][i].link = stack'[b][j].link
               PROVE  a = b /\ i = j
    BY DEF OneReader
  <2>1. i \in Int /\ j \in Int
    BY DEF ReadMoves
  <2>2. ReadBefore(g, k, a, i) \/ (a = g /\ i = n /\ New(stack'[a][i].link))
    BY DEF ReadMoves
  <2>3. ReadBefore(g, k, b, j) \/ (b = g /\ j = n /\ New(stack'[b][j].link))
    BY DEF ReadMoves
  <2>4. CASE ReadBefore(g, k, a, i) /\ ReadBefore(g, k, b, j)
    <3>1. a = b /\ Was(g, k, a, i) = Was(g, k, b, j)
      BY <1>1, <2>4 DEF OneReader
    <3> QED BY <2>1, <3>1 DEF Was
  <2>5. CASE ~ReadBefore(g, k, a, i) /\ ReadBefore(g, k, b, j)
    BY <1>1, <2>2, <2>5 DEF New
  <2>6. CASE ReadBefore(g, k, a, i) /\ ~ReadBefore(g, k, b, j)
    BY <1>1, <2>3, <2>6 DEF New
  <2>7. CASE ~ReadBefore(g, k, a, i) /\ ~ReadBefore(g, k, b, j)
    BY <2>2, <2>3, <2>7
  <2> QED BY <2>4, <2>5, <2>6, <2>7
<1>3. ReadIsDialled'
  <2> SUFFICES ASSUME NEW h \in Procs, NEW j \in DOMAIN stack'[h], Reading(h, j)'
               PROVE  conn'[stack'[h][j].link] # "none"
    BY DEF ReadIsDialled
  <2>1. CASE ReadBefore(g, k, h, j)
    BY <1>1, <2>1
  <2>2. CASE h = g /\ j = n /\ New(stack'[g][n].link)
    BY <2>2 DEF New
  <2> QED BY <2>1, <2>2 DEF ReadMoves
<1> QED BY <1>2, <1>3

(* Which calls of read_tcp there are when the innermost call is replaced,  *)
(* calls, returns, or when read_tcp is called.                             *)
LEMMA OthersRead ==
  ASSUME TypeOK, NEW g \in Procs, NEW k, NEW h \in Procs, h # g,
         stack'[h] = stack[h] \/ \A j \in DOMAIN stack'[h] : stack'[h][j].at \notin Readers /\ j \in Int,
         NEW j \in DOMAIN stack'[h]
  PROVE  j \in Int /\ ReadBefore(g, k, h, j)
BY DEF TypeOK, ReadBefore, Reading, Was

LEMMA GotoReads ==
  ASSUME TypeOK, NEW g \in Procs, stack[g] # <<>>, NEW f \in Frame,
         stack'[g] = <<f>> \o Tail(stack[g]),
         \A h \in Procs : h # g =>
           stack'[h] = stack[h] \/ \A j \in DOMAIN stack'[h] : stack'[h][j].at \notin Readers /\ j \in Int,
         f.at \in Readers => \/ Head(stack[g]).at \in Readers /\ f.link = Head(stack[g]).link
                             \/ New(f.link)
  PROVE  ReadMoves(g, 0, 1)
<1>1. stack[g] \in Seq(Frame)
  BY DEF TypeOK
<1>2. /\ stack'[g][1] = f /\ DOMAIN stack'[g] = DOMAIN stack[g]
      /\ \A i \in DOMAIN stack[g] : i # 1 => stack'[g][i] = stack[g][i]
  BY <1>1, GotoIs
<1>3. /\ DOMAIN stack[g] = 1 .. Len(stack[g]) /\ Len(stack[g]) \in Nat /\ 1 \in DOMAIN stack[g]
      /\ Head(stack[g]) = stack[g][1]
  BY <1>1
<1>4. ASSUME NEW j \in DOMAIN stack'[g]
      PROVE  j \in Int /\ (ReadBefore(g, 0, g, j) \/ (j = 1 /\ New(stack'[g][1].link)))
  <2>1. j \in DOMAIN stack[g] /\ j \in Int /\ j + 0 = j
    BY <1>2, <1>3, <1>4
  <2>2. CASE j = 1
    BY <1>2, <1>3, <2>1, <2>2 DEF ReadBefore, Reading, Was
  <2>3. CASE j # 1
    <3>1. stack'[g][j] = stack[g][j]
      BY <1>2, <2>1, <2>3
    <3> QED BY <2>1, <3>1 DEF ReadBefore, Reading, Was
  <2> QED BY <2>1, <2>2, <2>3
<1> QED BY <1>4, OthersRead DEF ReadMoves

LEMMA PushReads ==
  ASSUME TypeOK, NEW g \in Procs, stack[g] # <<>>, NEW f \in Frame, NEW a \in Frame, Push(g, f, a),
         f.at \notin Readers,
         a.at \in Readers => \/ Head(stack[g]).at \in Readers /\ a.link = Head(stack[g]).link
                             \/ New(a.link)
  PROVE  ReadMoves(g, -1, 2)
<1>1. stack \in [Procs -> Seq(Frame)]
  BY DEF TypeOK
<1>2. stack'[g] = <<f, a>> \o Tail(stack[g]) /\ \A h \in Procs : h # g => stack'[h] = stack[h]
  BY <1>1 DEF Push
<1>3. /\ stack'[g][1] = f /\ stack'[g][2] = a
      /\ \A i \in DOMAIN stack'[g] :
           /\ i \in Int
           /\ i # 1 /\ i # 2 => i - 1 \in DOMAIN stack[g] /\ stack'[g][i] = stack[g][i - 1]
  BY <1>1, <1>2, PushIs
<1>4. 1 \in DOMAIN stack[g] /\ Head(stack[g]) = stack[g][1]
  BY <1>1
<1>5. ASSUME NEW j \in DOMAIN stack'[g]
      PROVE  j \in Int /\ (ReadBefore(g, -1, g, j) \/ (j = 2 /\ New(stack'[g][2].link)))
  <2>1. CASE j = 1
    BY <1>3, <2>1 DEF ReadBefore, Reading
  <2>2. CASE j = 2
    <3>1. j \in Int /\ j + -1 = 1
      BY <2>2
    <3> QED BY <1>3, <1>4, <2>2, <3>1 DEF ReadBefore, Reading, Was
  <2>3. CASE j # 1 /\ j # 2
    <3>1. j - 1 \in DOMAIN stack[g] /\ stack'[g][j] = stack[g][j - 1] /\ j \in Int /\ j + -1 = j - 1
      BY <1>3, <1>5, <2>3
    <3> QED BY <3>1 DEF ReadBefore, Reading, Was
  <2> QED BY <2>1, <2>2, <2>3
<1> QED BY <1>2, <1>5, OthersRead DEF ReadMoves

LEMMA ReturnReads ==
  ASSUME TypeOK, NEW g \in Procs, stack[g] # <<>>, Return(g)
  PROVE  ReadMoves(g, 1, 0)
<1>1. stack \in [Procs -> Seq(Frame)]
  BY DEF TypeOK
<1>2. stack'[g] = Tail(stack[g]) /\ \A h \in Procs : h # g => stack'[h] = stack[h]
  BY <1>1 DEF Return
<1>3. \A i \in DOMAIN stack'[g] : i \in Int /\ i + 1 \in DOMAIN stack[g] /\ stack'[g][i] = stack[g][i + 1]
  BY <1>1, <1>2, ReturnIs
<1>4. ASSUME NEW j \in DOMAIN stack'[g] PROVE j \in Int /\ ReadBefore(g, 1, g, j)
  BY <1>3, <1>4 DEF ReadBefore, Reading, Was
<1> QED BY <1>2, <1>4, OthersRead DEF ReadMoves

LEMMA StartReads ==
  ASSUME TypeOK, NEW g \in Procs, stack[g] # <<>>, NEW l \in Links, StartReading(g, l),
         Unwatched(l), New(l) \/ (Head(stack[g]).at \in Readers /\ Head(stack[g]).link = l)
  PROVE  ReadMoves(g, 0, 1)
<1>1. /\ g # Worker(l) /\ g # Check(l)
      /\ \A h \in Procs : h # g /\ h # Worker(l) /\ h # Check(l) => stack'[h] = stack[h]
  BY CarriedStart
<1>2. Worker(l) # Check(l) /\ Worker(l) \in Procs /\ Check(l) \in Procs
  BY Names
<1>3. /\ stack'[g] = <<Call("register", l)>> \o Tail(stack[g])
      /\ stack'[Worker(l)] = <<Call("beat", l)>>
      /\ stack'[Check(l)] = <<Call("watch", l)>>
  BY <1>1, <1>2 DEF StartReading, TypeOK
<1>4. ASSUME NEW h \in Procs, h = Worker(l) \/ h = Check(l), NEW j \in DOMAIN stack'[h]
      PROVE  stack'[h][j].at \notin Readers /\ j \in Int
  <2>1. j = 1 /\ stack'[h][j].at \in {"beat", "watch"}
    BY <1>3, <1>4 DEF Call
  <2> QED BY <2>1 DEF Readers
<1>5. Call("register", l) \in Frame /\ Call("register", l).link = l
  BY Calls DEF Call
<1> QED BY <1>1, <1>3, <1>4, <1>5, GotoReads

LEMMA ReadersNext ==
  TypeOK /\ StartInv /\ OneReader /\ ReadIsDialled /\ [Next]_vars => OneReader' /\ ReadIsDialled'
<1>1. ASSUME OneReader, ReadIsDialled, UNCHANGED vars PROVE OneReader' /\ ReadIsDialled'
  BY <1>1 DEF vars, OneReader, ReadIsDialled, Reading
<1>2. ASSUME TypeOK, StartInv, OneReader, ReadIsDialled, NEW g \in Procs, Step(g)
      PROVE  OneReader' /\ ReadIsDialled'
  <2>1. \A l \in Links : conn[l] # "none" => conn'[l] # "none"
    <3>1. conn' = conn \/ Closes(LinkOf(g)) \/ \E l \in Links : Opens(l)
      BY <1>2, UnansweredMoves DEF Step, ConnectFails, Fallback, Recover, DialsExhausted, DialRefused, Register,
                  StoreWriter, ReadFails, ReadEnds, BeatFails, WatchFails, WatchEnds, Write,
                  WriteDone, WriteFails, Connected, ConnectRefused, Dialled
    <3> QED BY <1>2, <3>1 DEF Closes, Opens, TypeOK
  <2>2. \A k \in {-1, 0, 1}, n \in {0, 1, 2} : ReadMoves(g, k, n) => OneReader' /\ ReadIsDialled'
    BY <1>2, <2>1, ReadersKept
  <2>3. ASSUME NEW f \in Frame, Goto(g, f), stack[g] # <<>>,
               f.at \in Readers => Head(stack[g]).at \in Readers /\ f.link = LinkOf(g)
        PROVE  ReadMoves(g, 0, 1)
    <3>1. stack'[g] = <<f>> \o Tail(stack[g]) /\ \A h \in Procs : h # g => stack'[h] = stack[h]
      BY <1>2, <2>3 DEF Goto, TypeOK
    <3> QED BY <1>2, <2>3, <3>1, GotoReads DEF LinkOf
  <2>4. CASE ConnectFails(g) \/ DialsExhausted(g) \/ (Write(g) /\ writer = None)
    <3>1. \A h \in Procs : stack'[h] = <<>>
      BY <2>4 DEF ConnectFails, DialsExhausted, Write, Panic
    <3>2. ReadMoves(g, 0, 0)
      BY <3>1 DEF ReadMoves
    <3> QED BY <2>2, <3>2
  <2>5. CASE Write(g) /\ writer # None
    <3>1. PICK f : f.at = "write" /\ stack' = [stack EXCEPT ![g] = <<f>>]
      <4> DEFINE f == [Call("write", writer) EXCEPT !.flag = recovering[writer]]
      <4>1. f.at = "write"
        BY DEF Call
      <4>2. stack' = [stack EXCEPT ![g] = <<f>>]
        BY <2>5 DEF Write
      <4> HIDE DEF f
      <4> QED BY <4>1, <4>2
    <3>2. stack'[g] = <<f>> /\ \A h \in Procs : h # g => stack'[h] = stack[h]
      BY <1>2, <3>1 DEF TypeOK
    <3>3. ASSUME NEW j \in DOMAIN stack'[g] PROVE j \in Int /\ ReadBefore(g, 0, g, j)
      <4>1. j = 1 /\ stack'[g][j].at = "write"
        BY <3>1, <3>2, <3>3
      <4> QED BY <4>1 DEF ReadBefore, Reading, Readers
    <3>4. ReadMoves(g, 0, 0)
      BY <1>2, <3>2, <3>3, OthersRead DEF ReadMoves
    <3> QED BY <2>2, <3>4
  <2>6. CASE ReadEnds(g) \/ WatchEnds(g) \/ WriteDone(g)
    <3>1. stack[g] # <<>> /\ Return(g)
      BY <2>6 DEF ReadEnds, WatchEnds, WriteDone, At
    <3> QED BY <1>2, <2>2, <3>1, ReturnReads
  <2>7. CASE Recover(g)
    <3>1. stack[g] # <<>> /\ (Return(g) \/ Goto(g, Dial))
      BY <2>7 DEF Recover, At
    <3>2. Dial \in Frame /\ Dial.at \notin Readers
      BY Calls DEF Dial, Call, Readers
    <3> QED BY <1>2, <2>2, <2>3, <3>1, <3>2, ReturnReads
  <2>8. CASE DialRefused(g)
    <3>1. stack[g] # <<>> /\ Push(g, Call("connect", None), Dial)
      BY <2>8 DEF DialRefused, At
    <3>2. /\ Dial \in Frame /\ Dial.at \notin Readers /\ Call("connect", None) \in Frame
          /\ Call("connect", None).at \notin Readers
      BY Calls DEF Dial, Call, Readers
    <3> QED BY <1>2, <2>2, <3>1, <3>2, PushReads
  <2>17. CASE Unanswered(g)
    <3>1. Call("waits", None).at \notin Readers
      BY DEF Call, Readers
    <3> QED BY <1>2, <2>2, <2>3, <2>17, <3>1, UnansweredMoves
  <2>9. CASE Register(g)
    <3>1. stack[g] # <<>> /\ LinkOf(g) \in Links /\ Head(stack[g]).at = "register"
      BY <1>2, <2>9, HeadIs DEF Register, At
    <3>2. Call("store", LinkOf(g)) \in Frame /\ Call("store", LinkOf(g)).link = LinkOf(g)
      BY <3>1, Calls DEF Call
    <3> QED BY <2>2, <2>3, <2>9, <3>1, <3>2 DEF Register, Readers
  <2>10. CASE StoreWriter(g)
    <3>1. stack[g] # <<>> /\ LinkOf(g) \in Links /\ Head(stack[g]).at = "store"
      BY <1>2, <2>10, HeadIs DEF StoreWriter, At
    <3>2. Call("read", LinkOf(g)) \in Frame /\ Call("read", LinkOf(g)).link = LinkOf(g)
      BY <3>1, Calls DEF Call
    <3> QED BY <2>2, <2>3, <2>10, <3>1, <3>2 DEF StoreWriter, Readers
  <2>11. CASE ReadFails(g)
    <3>1. stack[g] # <<>> /\ LinkOf(g) \in Links /\ Head(stack[g]).at = "read"
      BY <1>2, <2>11, HeadIs DEF ReadFails, At
    <3>2. /\ Call("recover", LinkOf(g)) \in Frame /\ Call("recover", LinkOf(g)).at = "recover"
          /\ Call("end", LinkOf(g)) \in Frame /\ Call("end", LinkOf(g)).link = LinkOf(g)
      BY <3>1, Calls DEF Call, NoLink
    <3>3. ReadMoves(g, -1, 2)
      BY <1>2, <2>11, <3>1, <3>2, PushReads DEF ReadFails, Readers, LinkOf
    <3> QED BY <2>2, <3>3
  <2>12. CASE BeatFails(g) \/ WatchFails(g)
    <3>1. stack[g] # <<>> /\ LinkOf(g) \in Links /\ Goto(g, Call("recover", LinkOf(g)))
      BY <1>2, <2>12, HeadIs DEF BeatFails, WatchFails
    <3>2. Call("recover", LinkOf(g)) \in Frame /\ Call("recover", LinkOf(g)).at \notin Readers
      BY <3>1, Calls DEF Call, NoLink, Readers
    <3> QED BY <2>2, <2>3, <3>1, <3>2
  <2>13. CASE WriteFails(g)
    <3> DEFINE f == [Call("recover", None) EXCEPT !.flag = Head(stack[g]).flag]
    <3>1. stack[g] # <<>> /\ Head(stack[g]).flag \in BOOLEAN
      BY <1>2, <2>13, HeadIs DEF WriteFails
    <3>2. f \in Frame
      BY <3>1, Calls
    <3>3. f.at \notin Readers
      BY DEF Call, Readers
    <3>4. Goto(g, f)
      BY <2>13 DEF WriteFails
    <3> HIDE DEF f
    <3> QED BY <2>2, <2>3, <3>1, <3>2, <3>3, <3>4
  <2>14. CASE Fallback(g)
    <3>1. /\ LinkOf(g) \in Links /\ Unwatched(LinkOf(g)) /\ stack[g] # <<>>
          /\ StartReading(g, LinkOf(g))
      BY <1>2, <2>14, StartFallback
    <3>2. Head(stack[g]).at \in Readers
      BY <2>14 DEF Fallback, At, Readers
    <3>3. ReadMoves(g, 0, 1)
      BY <1>2, <3>1, <3>2, StartReads DEF LinkOf
    <3> QED BY <2>2, <3>3
  <2>15. ASSUME NEW l \in Links, Connected(g, l) \/ Dialled(g, l)
         PROVE  OneReader' /\ ReadIsDialled'
    <3>1. Unwatched(l) /\ stack[g] # <<>> /\ StartReading(g, l)
      BY <1>2, <2>15, OpensAndReads
    <3>2. New(l)
      BY <1>2, <2>15 DEF Connected, Dialled, Opens, New, TypeOK
    <3>3. ReadMoves(g, 0, 1)
      BY <1>2, <3>1, <3>2, StartReads
    <3> QED BY <2>2, <3>3
  <2>16. ASSUME NEW l \in Links, ConnectRefused(g, l) PROVE OneReader' /\ ReadIsDialled'
    <3>1. stack[g] # <<>> /\ Push(g, Call("recover", None), Call("fallback", l))
      BY <2>16 DEF ConnectRefused, At
    <3>2. New(l)
      BY <1>2, <2>16 DEF ConnectRefused, Opens, New, TypeOK
    <3>3. /\ Call("recover", None) \in Frame /\ Call("recover", None).at \notin Readers
          /\ Call("fallback", l) \in Frame /\ Call("fallback", l).link = l
      BY Calls DEF Call, NoLink, Readers
    <3>4. ReadMoves(g, -1, 2)
      BY <1>2, <3>1, <3>2, <3>3, PushReads
    <3> QED BY <2>2, <3>4
  <2> QED BY <1>2, <2>4, <2>5, <2>6, <2>7, <2>8, <2>9, <2>10, <2>11, <2>12, <2>13, <2>14,
             <2>15, <2>16, <2>17 DEF Step
<1> QED BY <1>1, <1>2 DEF Next

LEMMA ReadersInit == Init => OneReader /\ ReadIsDialled
<1>1. ASSUME Init, NEW g \in Procs, NEW i \in DOMAIN stack[g]
      PROVE  ~Reading(g, i)
  <2>1. g = Main /\ i = 1 /\ stack[g][i].at = "connect"
    BY <1>1 DEF Init, Call
  <2> QED BY <2>1 DEF Reading, Readers
<1> QED BY <1>1 DEF OneReader, ReadIsDialled

-----------------------------------------------------------------------------
(* The registered link is marked as recovering only while a goroutine is   *)
(* on the way to replace it: whoever returns from recover_socket because   *)
(* of the mark leaves the recovery to somebody.                            *)
THEOREM FlaggedIsReplacedCorrect == Spec => []FlaggedIsReplaced
<1>1. Init => FlaggedIsReplaced
  BY DEF Init, FlaggedIsReplaced
<1> QED BY <1>1, InitTypes, StartInit, TypeNext, StartNext, FlaggedNext, PTL DEF Spec

(* A connection that socket_write may use, read_tcp reads: what the router *)
(* answers on it is not lost.                                              *)
THEOREM WriterIsReadCorrect == Spec => []WriterIsRead
<1>1. Init => WriterIsRead
  BY DEF Init, WriterIsRead
<1> QED BY <1>1, InitTypes, StartInit, TypeNext, StartNext, WriterNext, PTL DEF Spec

(* No link is read by two calls of read_tcp, not even while a call that    *)
(* was refused (connect_new_socket) waits for recover_socket to return     *)
(* before it reads its own link: nobody takes bytes out of the middle of a *)
(* frame of another reader, and each link has one pair of heartbeats.      *)
THEOREM OneReaderCorrect == Spec => []OneReader
BY InitTypes, StartInit, ReadersInit, TypeNext, StartNext, ReadersNext, PTL DEF Spec
===============================================================================
