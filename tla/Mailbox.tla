------------------------------- MODULE Mailbox -------------------------------
(***************************************************************************)
(* What the table of message channels promises to everyone who uses it. A  *)
(* mailbox belongs to one connection. It is opened once, holds at most Cap *)
(* messages in the order in which they were put, takes messages only while *)
(* it is open, is first removed and then closed, by one goroutine and only *)
(* once, and what it holds when it is removed can still be taken.          *)
(***************************************************************************)
EXTENDS Naturals, Sequences

CONSTANTS
  Boxes,     \* one mailbox for each connection
  Messages,  \* what is put into mailboxes
  Cap        \* capacity of a mailbox

VARIABLES
  phase,     \* "new", "open", "removed" (nobody can find it any more), "closed"
  content    \* the messages in each mailbox

mailboxVars == <<phase, content>>

Init ==
  /\ phase = [w \in Boxes |-> "new"]
  /\ content = [w \in Boxes |-> <<>>]

Move(w, from, to) == phase[w] = from /\ phase' = [phase EXCEPT ![w] = to]

Open(w) == Move(w, "new", "open") /\ UNCHANGED content

Remove(w) == Move(w, "open", "removed") /\ UNCHANGED content

Close(w) == Move(w, "removed", "closed") /\ UNCHANGED content

Put(w, m) ==
  /\ phase[w] = "open"
  /\ Len(content[w]) < Cap
  /\ content' = [content EXCEPT ![w] = Append(@, m)]
  /\ UNCHANGED phase

Take(w) ==
  /\ content[w] # <<>>
  /\ content' = [content EXCEPT ![w] = Tail(@)]
  /\ UNCHANGED phase

Next ==
  \E w \in Boxes :
    Open(w) \/ Remove(w) \/ Close(w) \/ Take(w) \/ \E m \in Messages : Put(w, m)

Spec == Init /\ [][Next]_mailboxVars
==============================================================================
