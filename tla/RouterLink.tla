------------------------------ MODULE RouterLink ------------------------------
(***************************************************************************)
(* The TCP link of package socket to the router (package messages has the  *)
(* same code for its own link): how it is connected, watched and recovered.*)
(*                                                                         *)
(* Whichever goroutine notices that the link is broken recovers it, and    *)
(* then becomes the reader of the new one: it calls recover_socket, which  *)
(* calls read_tcp, which calls recover_socket when that link breaks, and   *)
(* so on. Each goroutine therefore has a stack of calls here. What the     *)
(* link carries is the subject of WsSession; when the answers to           *)
(* heartbeats are late is the subject of Heartbeat.                        *)
(***************************************************************************)
EXTENDS Naturals, Sequences, FiniteSets

CONSTANTS
  Links,     \* TCP connections, each with its router_conn_obj; bounds the dials
  Writers,   \* goroutines that call socket_write
  MaxWaits,  \* bound: hand-shakes that the router leaves unanswered
  None       \* no link

ASSUME ConstantsAssumption == None \notin Links /\ MaxWaits \in Nat

VARIABLES
  conn,       \* TCP connection: "none", "open", "closed" (by this server)
  recovering, \* the flag in each router_conn_obj
  conns,      \* the link in router_conns (one router, one entry)
  writer,     \* socket_writer_pointer
  ended,      \* links whose read_tcp has returned, closing heartbeat_chan
  stack,      \* the calls of each goroutine, the innermost first
  panicked    \* "no", "router" (could not connect), "nil" (no link to write to)

vars == <<conn, recovering, conns, writer, ended, stack, panicked>>

NoLink == Links \cup {None}

Main == <<"main", None>>
Worker(l) == <<"heartbeat_worker", l>>
Check(l) == <<"heartbeat_check", l>>
Procs == {Main} \cup {Worker(l) : l \in Links} \cup {Check(l) : l \in Links}
           \cup {<<"writer", w>> : w \in Writers}

(* What a call will do next: connect_new_socket ("connect", "fallback"),   *)
(* recover_socket ("recover", "dial"), read_tcp ("register" to "end"), the *)
(* heartbeat goroutines ("beat", "watch") and socket_write ("write"). One  *)
(* at "waits" reads an answer to op 2 or 3 that never comes.               *)
Frame == [at : {"register", "store", "read", "end", "fallback", "beat", "watch"},
          link : Links, flag : {FALSE}]
     \cup [at : {"connect", "dial", "waits"}, link : {None}, flag : {FALSE}]
     \cup [at : {"recover"}, link : NoLink, flag : BOOLEAN]
     \cup [at : {"write"}, link : Links, flag : BOOLEAN]

Call(at, l) == [at |-> at, link |-> l, flag |-> FALSE]
Dial == Call("dial", None)

TypeOK ==
  /\ conn \in [Links -> {"none", "open", "closed"}]
  /\ recovering \in [Links -> BOOLEAN]
  /\ conns \in NoLink
  /\ writer \in NoLink
  /\ ended \subseteq Links
  /\ stack \in [Procs -> Seq(Frame)]
  /\ panicked \in {"no", "router", "nil"}

Init ==
  /\ conn = [l \in Links |-> "none"]
  /\ recovering = [l \in Links |-> FALSE]
  /\ conns = None
  /\ writer = None
  /\ ended = {}
  /\ stack = [g \in Procs |-> IF g = Main THEN <<Call("connect", None)>> ELSE <<>>]
  /\ panicked = "no"

At(g, at) == stack[g] # <<>> /\ Head(stack[g]).at = at
LinkOf(g) == Head(stack[g]).link

Goto(g, f) == stack' = [stack EXCEPT ![g] = <<f>> \o Tail(@)]
Push(g, f, after) == stack' = [stack EXCEPT ![g] = <<f, after>> \o Tail(@)]
Return(g) == stack' = [stack EXCEPT ![g] = Tail(@)]

(* A panic in any goroutine ends the process.                              *)
Panic(why) == panicked' = why /\ stack' = [g \in Procs |-> <<>>]

(* read_tcp(l) begins by starting the heartbeat goroutines of l.           *)
StartReading(g, l) ==
  stack' = [stack EXCEPT ![g] = <<Call("register", l)>> \o Tail(@),
                         ![Worker(l)] = <<Call("beat", l)>>,
                         ![Check(l)] = <<Call("watch", l)>>]

Opens(l) == conn[l] = "none" /\ conn' = [conn EXCEPT ![l] = "open"]
Closes(l) == conn' = [conn EXCEPT ![l] = "closed"]

-----------------------------------------------------------------------------
(* connect_new_socket: dial, send op 2 and read the answer.                *)

(* The answers to op 2 and to op 3, in recover_socket, are read without a  *)
(* deadline: a router that accepts the connection and does not answer      *)
(* keeps the goroutine for ever.                                           *)
Unanswered(g) ==
  /\ At(g, "connect") \/ At(g, "dial")
  /\ Cardinality({h \in Procs : At(h, "waits")}) < MaxWaits
  /\ Goto(g, Call("waits", None))
  /\ UNCHANGED <<conn, recovering, conns, writer, ended, panicked>>

ConnectFails(g) ==
  /\ At(g, "connect")
  /\ Panic("router")
  /\ UNCHANGED <<conn, recovering, conns, writer, ended>>

Connected(g, l) ==
  /\ At(g, "connect")
  /\ Opens(l)
  /\ StartReading(g, l)
  /\ UNCHANGED <<recovering, conns, writer, ended, panicked>>

(* The router asks to recover instead: recover_socket is called with an    *)
(* object of its own, and afterwards the first connection is used.         *)
ConnectRefused(g, l) ==
  /\ At(g, "connect")
  /\ Opens(l)
  /\ Push(g, Call("recover", None), Call("fallback", l))
  /\ UNCHANGED <<recovering, conns, writer, ended, panicked>>

Fallback(g) ==
  /\ At(g, "fallback")
  /\ StartReading(g, LinkOf(g))
  /\ UNCHANGED <<conn, recovering, conns, writer, ended, panicked>>

-----------------------------------------------------------------------------
(* recover_socket. Its argument is a link's object or, without a link, an  *)
(* object of which only the flag is known.                                 *)

IsRecovering(f) == IF f.link = None THEN f.flag ELSE recovering[f.link]

Recover(g) ==
  /\ At(g, "recover")
  /\ IF IsRecovering(Head(stack[g]))
     THEN Return(g) /\ UNCHANGED recovering
     ELSE /\ recovering' = [l \in Links |-> recovering[l] \/ l = conns]
          /\ Goto(g, Dial)
  /\ UNCHANGED <<conn, conns, writer, ended, panicked>>

(* Fault: recover_socket returns instead of panicking.                     *)
DialsExhaustedReturns(g) ==
  /\ At(g, "dial")
  /\ Return(g)
  /\ UNCHANGED <<conn, recovering, conns, writer, ended, panicked>>

(* Three attempts were in vain. They are not counted: any may be the last, *)
(* and one that fails before changes nothing.                              *)
DialsExhausted(g) ==
  /\ At(g, "dial")
  /\ Panic("router")
  /\ UNCHANGED <<conn, recovering, conns, writer, ended>>

(* Fault: the new object is marked as recovering.                          *)
DialledFlagged(g, l) ==
  /\ At(g, "dial")
  /\ Opens(l)
  /\ StartReading(g, l)
  /\ recovering' = [recovering EXCEPT ![l] = TRUE]
  /\ UNCHANGED <<conns, writer, ended, panicked>>

(* Dial, send op 3, read the answer: the router knows this server ...      *)
Dialled(g, l) ==
  /\ At(g, "dial")
  /\ Opens(l)
  /\ StartReading(g, l)
  /\ UNCHANGED <<recovering, conns, writer, ended, panicked>>

(* ... or does not: connect_new_socket, and dial again once that returns.  *)
DialRefused(g) ==
  /\ At(g, "dial")
  /\ Push(g, Call("connect", None), Dial)
  /\ UNCHANGED <<conn, recovering, conns, writer, ended, panicked>>

-----------------------------------------------------------------------------
(* read_tcp: register the link, then read until that fails.                *)

Register(g) ==
  /\ At(g, "register")
  /\ conns' = LinkOf(g)
  /\ Goto(g, Call("store", LinkOf(g)))
  /\ UNCHANGED <<conn, recovering, writer, ended, panicked>>

StoreWriter(g) ==
  /\ At(g, "store")
  /\ writer' = LinkOf(g)
  /\ Goto(g, Call("read", LinkOf(g)))
  /\ UNCHANGED <<conn, recovering, conns, ended, panicked>>

(* Fault: read_tcp leaves the connection open.                             *)
ReadFailsUnclosed(g) ==
  /\ At(g, "read")
  /\ Push(g, Call("recover", LinkOf(g)), Call("end", LinkOf(g)))
  /\ UNCHANGED <<conn, recovering, conns, writer, ended, panicked>>

(* handle_conn_err: close, then recover.                                   *)
ReadFails(g) ==
  /\ At(g, "read")
  /\ Closes(LinkOf(g))
  /\ Push(g, Call("recover", LinkOf(g)), Call("end", LinkOf(g)))
  /\ UNCHANGED <<recovering, conns, writer, ended, panicked>>

ReadEnds(g) ==
  /\ At(g, "end")
  /\ ended' = ended \cup {LinkOf(g)}
  /\ Return(g)
  /\ UNCHANGED <<conn, recovering, conns, writer, panicked>>

-----------------------------------------------------------------------------
(* heartbeat_worker and heartbeat_check: a ping cannot be written; an      *)
(* answer is missing, late or unexpected; read_tcp has returned.           *)

BeatFails(g) ==
  /\ At(g, "beat")
  /\ Closes(LinkOf(g))
  /\ Goto(g, Call("recover", LinkOf(g)))
  /\ UNCHANGED <<recovering, conns, writer, ended, panicked>>

WatchFails(g) ==
  /\ At(g, "watch")
  /\ Closes(LinkOf(g))
  /\ Goto(g, Call("recover", LinkOf(g)))
  /\ UNCHANGED <<recovering, conns, writer, ended, panicked>>

WatchEnds(g) ==
  /\ At(g, "watch") /\ LinkOf(g) \in ended
  /\ Return(g)
  /\ UNCHANGED <<conn, recovering, conns, writer, ended, panicked>>

-----------------------------------------------------------------------------
(* socket_write: the object is copied, with the flag it has at that time.  *)

Write(g) ==
  /\ stack[g] = <<>> /\ g[1] = "writer"
  /\ IF writer = None
     THEN Panic("nil")
     ELSE /\ stack' = [stack EXCEPT ![g] =
                         <<[Call("write", writer) EXCEPT !.flag = recovering[writer]]>>]
          /\ UNCHANGED panicked
  /\ UNCHANGED <<conn, recovering, conns, writer, ended>>

WriteDone(g) ==
  /\ At(g, "write") /\ conn[LinkOf(g)] # "closed"
  /\ Return(g)
  /\ UNCHANGED <<conn, recovering, conns, writer, ended, panicked>>

(* Fault: the copy's own link is dialled, whatever its flag says.          *)
WriteFailsDialling(g) ==
  /\ At(g, "write")
  /\ Closes(LinkOf(g))
  /\ Goto(g, Call("dial", LinkOf(g)))
  /\ UNCHANGED <<recovering, conns, writer, ended, panicked>>

(* Fault: the link is marked before recover_socket is called.              *)
WriteFailsMarking(g) ==
  /\ At(g, "write")
  /\ Closes(LinkOf(g))
  /\ recovering' = [recovering EXCEPT ![LinkOf(g)] = TRUE]
  /\ Goto(g, Call("recover", LinkOf(g)))
  /\ UNCHANGED <<conns, writer, ended, panicked>>

WriteFails(g) ==
  /\ At(g, "write")
  /\ Closes(LinkOf(g))
  /\ Goto(g, [Call("recover", None) EXCEPT !.flag = Head(stack[g]).flag])
  /\ UNCHANGED <<recovering, conns, writer, ended, panicked>>

-----------------------------------------------------------------------------
Step(g) ==
  \/ Unanswered(g) \/ ConnectFails(g) \/ Fallback(g) \/ Recover(g) \/ DialsExhausted(g)
  \/ DialRefused(g) \/ Register(g) \/ StoreWriter(g) \/ ReadFails(g)
  \/ ReadEnds(g) \/ BeatFails(g) \/ WatchFails(g) \/ WatchEnds(g)
  \/ Write(g) \/ WriteDone(g) \/ WriteFails(g)
  \/ \E l \in Links : Connected(g, l) \/ ConnectRefused(g, l) \/ Dialled(g, l)

Next ==
  /\ panicked = "no"
  /\ \E g \in Procs : Step(g)

Spec == Init /\ [][Next]_vars

(* A goroutine that has something to do does it: a hand-shake succeeds,    *)
(* fails or is never answered, and on a connection that is closed a read   *)
(* or a ping fails and an answer is missing. That anyone notices trouble   *)
(* earlier, or calls socket_write, is not assumed, nor that the router     *)
(* answers anything.                                                       *)
Must(g) ==
  /\ stack[g] # <<>>
  /\ Head(stack[g]).at \in {"read", "beat", "watch"} => conn[LinkOf(g)] = "closed"

FairSpec ==
  Spec /\ \A g \in Procs : WF_vars(panicked = "no" /\ Must(g) /\ Step(g))

-----------------------------------------------------------------------------
(* Safety.                                                                 *)

(* A goroutine on its way to register a new link, if the router answers.   *)
Replacing(g) ==
  /\ stack[g] # <<>>
  /\ \/ Head(stack[g]).at \in {"dial", "connect", "waits", "fallback", "register"}
     \/ Head(stack[g]).at = "recover" /\ ~IsRecovering(Head(stack[g]))

(* The registered link is marked as recovering only while somebody is on   *)
(* the way to replace it, if only by waiting for the router: nobody        *)
(* returns from recover_socket in the belief that another goroutine        *)
(* recovers the link when none does.                                       *)
FlaggedIsReplaced ==
  panicked = "no" /\ conns # None /\ recovering[conns] => \E g \in Procs : Replacing(g)

(* A connection that socket_write may use is read by somebody, or about to *)
(* be: otherwise the router's messages and answers would be lost.          *)
WriterIsRead ==
  panicked = "no" /\ writer # None /\ conn[writer] # "closed" =>
    \E g \in Procs : At(g, "read") /\ LinkOf(g) = writer

-----------------------------------------------------------------------------
(* Liveness.                                                               *)

IsDown(l) == l # None /\ conn[l] = "closed"

(* A registered link that breaks is replaced, or the process panics, or a  *)
(* goroutine waits for a router that accepted its connection and never     *)
(* answers the hand-shake: then nobody recovers the link.                  *)
LinkComesBack ==
  IsDown(conns) ~>
    (~IsDown(conns) \/ panicked # "no" \/ \E g \in Procs : At(g, "waits"))

==============================================================================
