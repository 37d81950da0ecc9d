------------------------------ MODULE Relations ------------------------------
(***************************************************************************)
(* Friend requests in package services. The relation of two users is kept  *)
(* in two rows of user_relations, one seen by each, and the chain of their *)
(* messages in two rows of chains_users. The HTTP handlers RequestRelation,*)
(* AcceptRelation and RemoveRelation write these rows one after the other, *)
(* without a transaction; handlers run concurrently, and any of them may   *)
(* stop between two writes.                                                *)
(*                                                                         *)
(* A failed UPDATE makes its handler return. A failed query of a helper    *)
(* does not: the helper answers the client through package errors, whose   *)
(* functions return the result of c.JSON, nil; the handler sees no error   *)
(* and carries on with what the helper returned besides.                   *)
(*                                                                         *)
(* An UPDATE of a row that does not exist creates it, and a column that    *)
(* was never written reads as FALSE or as the zero UUID, here None: so     *)
(* every row exists from the beginning. Names and times are left out, and  *)
(* so is the payload each handler sends after its writes. With the names   *)
(* goes GetUsernameByID, whose failure RequestRelation does not notice; no *)
(* handler asks whether the other user exists.                             *)
(***************************************************************************)
EXTENDS Naturals, FiniteSets

CONSTANTS
  Users,
  Chains,   \* the UUIDs that gocql.TimeUUID returns; bounds the chains drawn
  Reqs,     \* HTTP requests that are served at the same time
  Calls,    \* the (user, relationID) pairs of the requests that clients make
  None      \* no chain

ASSUME ConstantsAssumption ==
  /\ Calls \subseteq Users \X Users
  /\ None \notin Chains

VARIABLES
  row,      \* user_relations, by (user_id, relation_id)
  members,  \* chains_users: the users of each chain
  drawn,    \* chains that TimeUUID has returned
  req,      \* what each request is doing
  torn,     \* history: columns of a pair's rows that a request which failed
            \*   or overlapped another was the last to write
  unfilled  \* history: chains whose insertion was reported as failed

vars == <<row, members, drawn, req, torn, unfilled>>

Kinds == {"request", "accept", "remove"}
Columns == {"active", "friend", "chain"}
Row == [friend : BOOLEAN, requested : BOOLEAN, active : BOOLEAN, chain : Chains \cup {None}]

\* alone: no other request on the same two users has been served meanwhile.
Calling(kinds, chains, ats) ==
  [kind : kinds, user : Users, other : Users, chain : chains, at : ats, alone : BOOLEAN]
Request ==
  Calling({"request", "remove"}, {None}, {"own", "other"})
    \cup Calling({"accept"}, {None}, {"check"})
    \cup Calling({"accept"}, Chains, {"insert", "own", "other"})
Idle == [at |-> "idle"]

Pairs == {{u, v} : u, v \in Users}
PairOf(r) == {req[r].user, req[r].other}
Working(r) == req[r] # Idle
WorksOn(r, u, v) == Working(r) /\ PairOf(r) = {u, v}

TypeOK ==
  /\ row \in [Users \X Users -> Row]
  /\ members \in [Chains -> SUBSET Users]
  /\ drawn \subseteq Chains
  /\ req \in [Reqs -> Request \cup {Idle}]
  /\ torn \in [Pairs -> SUBSET Columns]
  /\ unfilled \subseteq Chains

NewRow == [friend |-> FALSE, requested |-> FALSE, active |-> FALSE, chain |-> None]

Init ==
  /\ row = [p \in Users \X Users |-> NewRow]
  /\ members = [c \in Chains |-> {}]
  /\ drawn = {}
  /\ req = [r \in Reqs |-> Idle]
  /\ torn = [p \in Pairs |-> {}]
  /\ unfilled = {}

-----------------------------------------------------------------------------
(* A request arrives. The user is known (Authenticate); the relation is    *)
(* any UUID.                                                               *)
First(kind) == IF kind = "accept" THEN "check" ELSE "own"

Overlaps(r, u, v) == \E q \in Reqs \ {r} : WorksOn(q, u, v)

Start(r, kind, u, v) ==
  /\ ~Working(r)
  /\ req' = [q \in Reqs |->
       IF q = r
       THEN [kind |-> kind, user |-> u, other |-> v, chain |-> None, at |-> First(kind),
             alone |-> ~Overlaps(r, u, v)]
       ELSE IF WorksOn(q, u, v) THEN [req[q] EXCEPT !.alone = FALSE] ELSE req[q]]
  /\ UNCHANGED <<row, members, drawn, torn, unfilled>>

Goto(r, at) == req' = [req EXCEPT ![r].at = at]

(* The columns a request writes, and whether it leaves them in agreement.  *)
Writes(kind) ==
  CASE kind = "request" -> {"active"}
    [] kind = "accept"  -> {"friend", "chain"}
    [] kind = "remove"  -> {"active", "friend"}

Return(r, ok) ==
  /\ req' = [req EXCEPT ![r] = Idle]
  /\ torn' = [torn EXCEPT ![PairOf(r)] =
                IF ok /\ req[r].alone THEN @ \ Writes(req[r].kind) ELSE @ \cup Writes(req[r].kind)]

(* An UPDATE fails before it has any effect, and the handler returns; or   *)
(* the server stops.                                                       *)
Fail(r) ==
  /\ Working(r)
  /\ Return(r, FALSE)
  /\ UNCHANGED <<row, members, drawn, unfilled>>

-----------------------------------------------------------------------------
(* AcceptRelation: CheckExistingRelationChain reads the user's own row ... *)
Chain(r) == row[<<req[r].user, req[r].other>>].chain

ReuseChain(r) ==
  /\ Chain(r) # None
  /\ req' = [req EXCEPT ![r].chain = Chain(r), ![r].at = "own"]
  /\ UNCHANGED <<drawn, torn>>

DrawChain(r) ==
  \E c \in Chains \ drawn :
    /\ drawn' = drawn \cup {c}
    /\ req' = [req EXCEPT ![r].chain = c, ![r].at = "insert"]

(* Fault: the zero UUID is taken for a chain.                              *)
CheckValidatesNull(r) ==
  /\ req[r].at = "check"
  /\ req' = [req EXCEPT ![r].chain = Chain(r), ![r].at = "own"]
  /\ UNCHANGED <<row, members, drawn, torn, unfilled>>

(* Fault: a new chain is made whether or not there is one.                 *)
CheckNeverValid(r) ==
  /\ req[r].at = "check"
  /\ DrawChain(r)
  /\ UNCHANGED <<row, members, torn, unfilled>>

(* A read that fails passes for a row without a chain.                     *)
Check(r) ==
  /\ req[r].at = "check"
  /\ \/ ReuseChain(r)
     \/ Chain(r) = None /\ DrawChain(r) /\ UNCHANGED torn
     \/ DrawChain(r) /\ torn' = [torn EXCEPT ![PairOf(r)] = @ \cup {"chain"}]
  /\ UNCHANGED <<row, members, unfilled>>

(* Fault: InsertChainsUsers leaves the last user out.                      *)
InsertAllButLast(r) == members' = [members EXCEPT ![req[r].chain] = {req[r].user}]

(* ... InsertChainsUsers, a logged batch, writes all its rows or none ...  *)
InsertChainsUsers(r) == members' = [members EXCEPT ![req[r].chain] = @ \cup PairOf(r)]

(* A batch that is reported as failed may have been applied all the same,  *)
(* and AcceptRelation goes on either way.                                  *)
Insert(r) ==
  /\ req[r].at = "insert"
  /\ \/ InsertChainsUsers(r) /\ UNCHANGED unfilled
     \/ /\ unfilled' = unfilled \cup {req[r].chain}
        /\ InsertChainsUsers(r) \/ UNCHANGED members
  /\ Goto(r, "own")
  /\ UNCHANGED <<row, drawn, torn>>

-----------------------------------------------------------------------------
(* ... and all three handlers update the user's own row and then the       *)
(* relation's. Columns set to UnsetValue keep their values.                *)

(* Fault: a request leaves the other row's requested column alone.         *)
UpdatedKeepingRequested(old, kind, chain, mine) ==
  CASE kind = "request" -> [old EXCEPT !.requested = @ \/ mine, !.active = TRUE]
    [] kind = "accept"  -> [old EXCEPT !.chain = chain, !.friend = TRUE]
    [] kind = "remove"  -> [old EXCEPT !.friend = FALSE, !.requested = FALSE, !.active = FALSE]

(* Fault: the other user's row is not removed.                             *)
UpdatedOneSided(old, kind, chain, mine) ==
  CASE kind = "request" -> [old EXCEPT !.requested = mine, !.active = TRUE]
    [] kind = "accept"  -> [old EXCEPT !.chain = chain, !.friend = TRUE]
    [] kind = "remove"  -> [old EXCEPT !.friend = FALSE, !.requested = FALSE, !.active = @ /\ ~mine]

Updated(old, kind, chain, mine) ==
  CASE kind = "request" -> [old EXCEPT !.requested = mine, !.active = TRUE]
    [] kind = "accept"  -> [old EXCEPT !.chain = chain, !.friend = TRUE]
    [] kind = "remove"  -> [old EXCEPT !.friend = FALSE, !.requested = FALSE, !.active = FALSE]

UpdateRow(r, p, mine) ==
  row' = [row EXCEPT ![p] = Updated(@, req[r].kind, req[r].chain, mine)]

(* A query that is reported as failed may have been applied all the same.  *)
UpdateOwn(r) ==
  /\ req[r].at = "own"
  /\ UpdateRow(r, <<req[r].user, req[r].other>>, TRUE)
  /\ \/ Goto(r, "other") /\ UNCHANGED torn
     \/ Return(r, FALSE)
  /\ UNCHANGED <<members, drawn, unfilled>>

UpdateOther(r) ==
  /\ req[r].at = "other"
  /\ UpdateRow(r, <<req[r].other, req[r].user>>, FALSE)
  /\ \E ok \in BOOLEAN : Return(r, ok)
  /\ UNCHANGED <<members, drawn, unfilled>>

-----------------------------------------------------------------------------
Next ==
  \E r \in Reqs :
    \/ \E kind \in Kinds, call \in Calls : Start(r, kind, call[1], call[2])
    \/ Check(r) \/ Insert(r) \/ UpdateOwn(r) \/ UpdateOther(r) \/ Fail(r)

Spec == Init /\ [][Next]_vars

-----------------------------------------------------------------------------
(* RelationsMapper: the three lists that a user is shown.                  *)
Active(u, v) == row[<<u, v>>].active
Friends(u) == {v \in Users : Active(u, v) /\ row[<<u, v>>].friend}
Requested(u) == {v \in Users : Active(u, v) /\ ~row[<<u, v>>].friend /\ row[<<u, v>>].requested}
Requests(u) == {v \in Users : Active(u, v) /\ ~row[<<u, v>>].friend /\ ~row[<<u, v>>].requested}

(* ChainRequestMiddleware: who may read and write a chain. A chain of one  *)
(* user, who is a relation of their own, is of no use.                     *)
MayUse(u, c) == Cardinality(members[c]) = 2 /\ u \in members[c]

(* A friend always comes with a chain, and exactly the two users of a row  *)
(* may use the chain it names, whatever overlaps or stops: so the friends  *)
(* that RelationsMapper lists can write to each other, and nobody else can *)
(* read it. Only a chain whose insertion failed may be used by nobody: for *)
(* good, as later acceptances find it in the row.                          *)
FriendsShareAChain ==
  \A u, v \in Users :
    LET o == row[<<u, v>>] IN
    /\ o.friend => o.chain # None
    /\ o.chain # None /\ u # v =>
         \/ \A w \in Users : MayUse(w, o.chain) <=> w \in {u, v}
         \/ o.chain \in unfilled /\ \A w \in Users : ~MayUse(w, o.chain)

(* Two users never both stand as the one who requested, however their      *)
(* requests overlap, unless a RequestRelation is between its two writes or *)
(* has failed there.                                                       *)
RequestedOnce ==
  \A u, v \in Users : u # v /\ row[<<u, v>>].requested /\ row[<<v, u>>].requested =>
    \/ "active" \in torn[{u, v}]
    \/ \E r \in Reqs : WorksOn(r, u, v) /\ req[r].kind = "request" /\ req[r].at = "other"

(* While no request of two users is served, what each of them is shown of  *)
(* the other agrees, and their messages go to the same chain, except in    *)
(* columns that a failed or overlapping request was the last to write: one *)
(* request that is served alone sets right what went wrong before it.      *)
RelationsAgree ==
  \A u, v \in Users :
    u # v /\ ~(\E r \in Reqs : WorksOn(r, u, v)) =>
      /\ "active" \notin torn[{u, v}] /\ "friend" \notin torn[{u, v}] =>
           /\ v \in Friends(u) <=> u \in Friends(v)
           /\ v \in Requested(u) <=> u \in Requests(v)
      /\ "chain" \notin torn[{u, v}] => row[<<u, v>>].chain = row[<<v, u>>].chain

(* The chain of two users is replaced by another, which hides all messages *)
(* they have exchanged, only after an AcceptRelation or its reading of the *)
(* chain failed, or while two requests overlap; RemoveRelation keeps it    *)
(* for a later acceptance.                                                 *)
ChainKept ==
  [][\A u, v \in Users :
       row[<<u, v>>].chain # None /\ row[<<u, v>>].chain # row'[<<u, v>>].chain =>
         \/ "chain" \in torn[{u, v}]
         \/ \E r \in Reqs : WorksOn(r, u, v) /\ ~req[r].alone]_vars
==============================================================================
