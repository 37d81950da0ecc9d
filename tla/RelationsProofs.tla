--------------------------- MODULE RelationsProofs ---------------------------
(***************************************************************************)
(* Proofs about Relations, for any users, requests and chains.             *)
(***************************************************************************)
EXTENDS Relations, FiniteSetTheorems, TLAPS

-----------------------------------------------------------------------------
(* Types.                                                                  *)

(* What a request is that is being served, and at each of its steps.       *)
LEMMA RequestType ==
  ASSUME TypeOK, NEW r \in Reqs, Working(r)
  PROVE  /\ req[r] \in Request
         /\ req[r].user \in Users /\ req[r].other \in Users /\ req[r].alone \in BOOLEAN
         /\ req[r].kind \in Kinds /\ req[r].chain \in Chains \cup {None}
         /\ req[r].at = "check" => req[r] \in Calling({"accept"}, {None}, {"check"})
         /\ req[r].at = "insert" =>
              req[r] \in Calling({"accept"}, Chains, {"insert", "own", "other"})
         /\ req[r].at \in {"own", "other"} =>
              \/ req[r] \in Calling({"request", "remove"}, {None}, {"own", "other"})
              \/ req[r] \in Calling({"accept"}, Chains, {"insert", "own", "other"})
<1>1. req[r] \in Request
  BY DEF TypeOK, Working
<1> QED
  BY <1>1 DEF Request, Calling, Kinds

(* Its two users are a pair.                                               *)
LEMMA PairType ==
  ASSUME TypeOK, NEW r \in Reqs, Working(r)
  PROVE  PairOf(r) \in Pairs
BY RequestType DEF PairOf, Pairs

(* A handler that returns leaves requests and torn columns well typed.     *)
LEMMA ReturnType ==
  ASSUME TypeOK, NEW r \in Reqs, Working(r), NEW ok \in BOOLEAN, Return(r, ok)
  PROVE  /\ req' \in [Reqs -> Request \cup {Idle}]
         /\ torn' \in [Pairs -> SUBSET Columns]
<1>1. req' \in [Reqs -> Request \cup {Idle}]
  BY DEF Return, TypeOK
<1>2. Writes(req[r].kind) \subseteq Columns
  BY RequestType DEF Writes, Columns, Kinds
<1>3. torn[PairOf(r)] \subseteq Columns
  BY PairType DEF TypeOK
<1>4. torn' \in [Pairs -> SUBSET Columns]
  BY <1>2, <1>3, PairType DEF Return, TypeOK
<1> QED
  BY <1>1, <1>4

(* What a query leaves of a row is a row.                                  *)
LEMMA UpdatedType ==
  ASSUME NEW old \in Row, NEW kind \in Kinds, NEW chain \in Chains \cup {None}, NEW mine \in BOOLEAN
  PROVE  Updated(old, kind, chain, mine) \in Row
BY DEF Updated, Row, Kinds

(* So does an UPDATE leave the table well typed.                           *)
LEMMA UpdateRowType ==
  ASSUME TypeOK, NEW r \in Reqs, Working(r), NEW p \in Users \X Users, NEW mine \in BOOLEAN,
         UpdateRow(r, p, mine)
  PROVE  row' \in [Users \X Users -> Row]
<1>1. Updated(row[p], req[r].kind, req[r].chain, mine) \in Row
  BY RequestType, UpdatedType DEF TypeOK
<1> QED
  BY <1>1 DEF UpdateRow, TypeOK

(* What Insert does to the users of the chain, whether it fails or not.    *)
InsertsOrNot(r) ==
  \/ InsertChainsUsers(r) /\ UNCHANGED unfilled
  \/ InsertChainsUsers(r) /\ unfilled' = unfilled \cup {req[r].chain}
  \/ UNCHANGED members /\ unfilled' = unfilled \cup {req[r].chain}

LEMMA InsertCases ==
  ASSUME NEW r \in Reqs, Insert(r)
  PROVE  InsertsOrNot(r)
BY DEF Insert, InsertsOrNot

(* Every reachable state is well typed.                                    *)
THEOREM TypeCorrect == Spec => []TypeOK
<1>1. Init => TypeOK
  <2> SUFFICES ASSUME Init PROVE TypeOK
    OBVIOUS
  <2>1. NewRow \in Row
    BY DEF NewRow, Row
  <2> QED
    BY <2>1 DEF Init, TypeOK
<1>2. TypeOK /\ [Next]_vars => TypeOK'
  <2> SUFFICES ASSUME TypeOK, [Next]_vars PROVE TypeOK'
    OBVIOUS
  <2>1. CASE UNCHANGED vars
    BY <2>1 DEF vars, TypeOK
  <2>2. CASE Next
    <3>1. PICK r \in Reqs :
            \/ \E kind \in Kinds, call \in Calls : Start(r, kind, call[1], call[2])
            \/ Check(r) \/ Insert(r) \/ UpdateOwn(r) \/ UpdateOther(r) \/ Fail(r)
      BY <2>2 DEF Next
    <3>2. ASSUME NEW kind \in Kinds, NEW call \in Calls, Start(r, kind, call[1], call[2])
          PROVE  TypeOK'
      <4>1. call[1] \in Users /\ call[2] \in Users
        BY ConstantsAssumption
      <4>2. ASSUME NEW q \in Reqs PROVE req'[q] \in Request \cup {Idle}
        <5>1. CASE q = r
          <6>1. req'[q] = [kind |-> kind, user |-> call[1], other |-> call[2], chain |-> None,
                           at |-> First(kind), alone |-> ~Overlaps(r, call[1], call[2])]
            BY <3>2, <5>1 DEF Start
          <6>2. Overlaps(r, call[1], call[2]) \in BOOLEAN
            BY DEF Overlaps, WorksOn, Working
          <6> QED
            BY <4>1, <6>1, <6>2 DEF Request, Calling, Kinds, First
        <5>2. CASE q # r /\ WorksOn(q, call[1], call[2])
          <6>1. req'[q] = [req[q] EXCEPT !.alone = FALSE]
            BY <3>2, <5>2 DEF Start
          <6>2. req[q] \in Request
            BY <5>2, RequestType DEF WorksOn
          <6> QED
            BY <6>1, <6>2 DEF Request, Calling
        <5>3. CASE q # r /\ ~WorksOn(q, call[1], call[2])
          BY <3>2, <5>3 DEF Start, TypeOK
        <5> QED
          BY <5>1, <5>2, <5>3
      <4>3. req' \in [Reqs -> Request \cup {Idle}]
        BY <3>2, <4>2 DEF Start
      <4> QED
        BY <3>2, <4>3 DEF Start, TypeOK
    <3>3. CASE Check(r)
      <4>1. Working(r) /\ req[r] \in Calling({"accept"}, {None}, {"check"})
        BY <3>3, RequestType DEF Check, Working, Idle
      <4>2. Chain(r) \in Chains \cup {None}
        BY <4>1, RequestType DEF Chain, TypeOK, Row
      <4>3. ASSUME NEW c \in Chains, NEW at \in {"insert", "own"}
            PROVE  [req[r] EXCEPT !.chain = c, !.at = at] \in Request
        BY <4>1 DEF Request, Calling
      <4>4. CASE ReuseChain(r)
        BY <3>3, <4>2, <4>3, <4>4 DEF Check, ReuseChain, TypeOK
      <4>5. ASSUME DrawChain(r)
            PROVE  req' \in [Reqs -> Request \cup {Idle}] /\ drawn' \subseteq Chains
        <5>1. PICK c \in Chains \ drawn :
                /\ drawn' = drawn \cup {c}
                /\ req' = [req EXCEPT ![r].chain = c, ![r].at = "insert"]
          BY <4>5 DEF DrawChain
        <5> QED
          BY <4>3, <5>1 DEF TypeOK
      <4>6. CASE DrawChain(r) /\ UNCHANGED torn
        BY <3>3, <4>5, <4>6 DEF Check, TypeOK
      <4>7. CASE DrawChain(r) /\ torn' = [torn EXCEPT ![PairOf(r)] = @ \cup {"chain"}]
        <5>1. torn' \in [Pairs -> SUBSET Columns]
          <6>1. torn[PairOf(r)] \cup {"chain"} \subseteq Columns
            BY <4>1, PairType DEF TypeOK, Columns
          <6> QED
            BY <4>7, <6>1 DEF TypeOK
        <5> QED
          BY <3>3, <4>5, <4>7, <5>1 DEF Check, TypeOK
      <4> QED
        BY <3>3, <4>4, <4>6, <4>7 DEF Check
    <3>4. CASE Insert(r)
      <4>1. Working(r) /\ req[r] \in Calling({"accept"}, Chains, {"insert", "own", "other"})
        BY <3>4, RequestType DEF Insert, Working, Idle
      <4>2. ASSUME InsertsOrNot(r)
            PROVE  members' \in [Chains -> SUBSET Users] /\ unfilled' \subseteq Chains
        BY <4>1, <4>2 DEF InsertsOrNot, InsertChainsUsers, PairOf, TypeOK, Calling
      <4>3. [req[r] EXCEPT !.at = "own"] \in Request
        BY <4>1 DEF Request, Calling
      <4> QED
        BY <3>4, <4>2, <4>3, InsertCases DEF Insert, Goto, TypeOK
    <3>5. CASE UpdateOwn(r)
      <4>1. Working(r) /\ req[r].at = "own"
        BY <3>5 DEF UpdateOwn, Working, Idle
      <4>2. row' \in [Users \X Users -> Row]
        BY <3>5, <4>1, RequestType, UpdateRowType DEF UpdateOwn
      <4>3. CASE Goto(r, "other") /\ UNCHANGED torn
        <5>1. [req[r] EXCEPT !.at = "other"] \in Request
          BY <4>1, RequestType DEF Request, Calling
        <5> QED
          BY <3>5, <4>2, <4>3, <5>1 DEF UpdateOwn, Goto, TypeOK
      <4>4. CASE Return(r, FALSE)
        BY <3>5, <4>1, <4>2, <4>4, ReturnType DEF UpdateOwn, TypeOK
      <4> QED
        BY <3>5, <4>3, <4>4 DEF UpdateOwn
    <3>6. CASE UpdateOther(r)
      <4>1. Working(r)
        BY <3>6 DEF UpdateOther, Working, Idle
      <4>2. row' \in [Users \X Users -> Row]
        BY <3>6, <4>1, RequestType, UpdateRowType DEF UpdateOther
      <4> QED
        BY <3>6, <4>1, <4>2, ReturnType DEF UpdateOther, TypeOK
    <3>7. CASE Fail(r)
      BY <3>7, ReturnType DEF Fail, TypeOK
    <3> QED
      BY <3>1, <3>2, <3>3, <3>4, <3>5, <3>6, <3>7
  <2> QED
    BY <2>1, <2>2
<1> QED
  BY <1>1, <1>2, PTL DEF Spec

-----------------------------------------------------------------------------
(* RequestedOnce is inductive as it stands.                                *)

(* Every step of a request keeps RequestedOnce.                            *)
LEMMA RequestedStep ==
  ASSUME TypeOK, RequestedOnce, [Next]_vars
  PROVE  RequestedOnce'
<1> SUFFICES ASSUME NEW u \in Users, NEW v \in Users, u # v,
                    row'[<<u, v>>].requested, row'[<<v, u>>].requested
             PROVE  \/ "active" \in torn'[{u, v}]
                    \/ \E r \in Reqs : /\ WorksOn(r, u, v)'
                                       /\ req'[r].kind = "request" /\ req'[r].at = "other"
  BY DEF RequestedOnce
<1> DEFINE Between(q) == WorksOn(q, u, v) /\ req[q].kind = "request" /\ req[q].at = "other"
<1>1. \/ ~row[<<u, v>>].requested \/ ~row[<<v, u>>].requested
      \/ "active" \in torn[{u, v}]
      \/ \E q \in Reqs : Between(q)
  BY DEF RequestedOnce
<1>2. CASE UNCHANGED vars
  BY <1>1, <1>2 DEF vars, WorksOn, Working, PairOf
<1>3. CASE Next
  <2>1. PICK r \in Reqs :
          \/ \E kind \in Kinds, call \in Calls : Start(r, kind, call[1], call[2])
          \/ Check(r) \/ Insert(r) \/ UpdateOwn(r) \/ UpdateOther(r) \/ Fail(r)
    BY <1>3 DEF Next
  <2>2. {u, v} \in Pairs
    BY DEF Pairs
  (* Another request that is between its writes stays there.               *)
  <2>3. ASSUME NEW q \in Reqs, Between(q), req'[q] = req[q]
        PROVE  Between(q)'
    BY <2>3 DEF WorksOn, Working, PairOf
  (* A handler that returns says so of its own pair.                       *)
  <2>4. ASSUME Working(r), NEW ok \in BOOLEAN, Return(r, ok), "active" \in torn[{u, v}],
               PairOf(r) # {u, v} \/ ~ok \/ req[r].kind = "accept"
        PROVE  "active" \in torn'[{u, v}]
    <3>1. CASE PairOf(r) # {u, v}
      BY <2>2, <2>4, <3>1 DEF Return, TypeOK
    <3>2. CASE PairOf(r) = {u, v} /\ ~ok
      BY <2>2, <2>4, <3>2 DEF Return, TypeOK
    <3>3. CASE PairOf(r) = {u, v} /\ req[r].kind = "accept"
      BY <2>2, <2>4, <3>3 DEF Return, TypeOK, Writes
    <3> QED
      BY <2>4, <3>1, <3>2, <3>3
  <2>5. ASSUME Working(r), Return(r, FALSE), Between(r)
        PROVE  "active" \in torn'[{u, v}]
    BY <2>2, <2>5 DEF Return, TypeOK, Writes, WorksOn
  <2>6. ASSUME NEW kind \in Kinds, NEW call \in Calls, Start(r, kind, call[1], call[2])
        PROVE  \/ "active" \in torn'[{u, v}]
               \/ \E q \in Reqs : Between(q)'
    <3>1. UNCHANGED <<row, torn>>
      BY <2>6 DEF Start
    <3>2. ASSUME NEW q \in Reqs, Between(q) PROVE Between(q)'
      <4>1. q # r
        BY <2>6, <3>2 DEF Start, WorksOn
      <4>2. req[q] \in Request
        BY <3>2, RequestType DEF WorksOn
      <4>3. \/ req'[q] = req[q]
            \/ req'[q] = [req[q] EXCEPT !.alone = FALSE]
        BY <2>6, <4>1 DEF Start
      <4>4. CASE req'[q] = [req[q] EXCEPT !.alone = FALSE]
        <5>1. /\ req'[q].user = req[q].user /\ req'[q].other = req[q].other
              /\ req'[q].kind = req[q].kind /\ req'[q].at = req[q].at
          BY <4>2, <4>4 DEF Request, Calling
        <5> QED
          BY <3>2, <5>1 DEF WorksOn, Working, PairOf, Idle
      <4> QED
        BY <2>3, <3>2, <4>3, <4>4
    <3> QED
      BY <1>1, <3>1, <3>2
  <2>7. CASE Check(r)
    <3>1. UNCHANGED row /\ req[r].at = "check" /\ Working(r)
      BY <2>7 DEF Check, Working, Idle
    <3>2. ASSUME NEW q \in Reqs, Between(q) PROVE req'[q] = req[q]
      BY <2>7, <3>1, <3>2 DEF Check, ReuseChain, DrawChain, TypeOK
    <3>3. "active" \in torn[{u, v}] => "active" \in torn'[{u, v}]
      BY <2>2, <2>7 DEF Check, ReuseChain, TypeOK
    <3> QED
      BY <1>1, <2>3, <3>1, <3>2, <3>3
  <2>8. CASE Insert(r)
    <3>1. UNCHANGED <<row, torn>> /\ req[r].at = "insert"
      BY <2>8 DEF Insert
    <3>2. ASSUME NEW q \in Reqs, Between(q) PROVE req'[q] = req[q]
      BY <2>8, <3>1, <3>2 DEF Insert, Goto, TypeOK
    <3> QED
      BY <1>1, <2>3, <3>1, <3>2
  <2>9. CASE UpdateOwn(r)
    <3> DEFINE p == <<req[r].user, req[r].other>>
    <3>1. Working(r) /\ req[r].at = "own" /\ p \in Users \X Users
      BY <2>9, RequestType DEF UpdateOwn, Working, Idle
    <3>2. ASSUME NEW q \in Reqs, Between(q) PROVE req'[q] = req[q]
      BY <2>9, <3>1, <3>2 DEF UpdateOwn, Goto, Return, TypeOK
    <3>3. "active" \in torn[{u, v}] => "active" \in torn'[{u, v}]
      BY <2>4, <2>9, <3>1 DEF UpdateOwn
    <3>4. row'[p] = Updated(row[p], req[r].kind, req[r].chain, TRUE)
      BY <2>9, <3>1 DEF UpdateOwn, UpdateRow, TypeOK
    <3>5. \A o \in Users \X Users : o # p => row'[o] = row[o]
      BY <2>9, <3>1 DEF UpdateOwn, UpdateRow, TypeOK
    <3>6. row[p] \in Row /\ req[r].kind \in Kinds
      BY <3>1, RequestType DEF TypeOK
    <3>7. CASE p \notin {<<u, v>>, <<v, u>>} \/ req[r].kind # "request"
      <4>1. row[<<u, v>>].requested /\ row[<<v, u>>].requested
        BY <3>4, <3>5, <3>6, <3>7 DEF Updated, Row, Kinds
      <4> QED
        BY <1>1, <2>3, <3>2, <3>3, <4>1
    <3>8. CASE p \in {<<u, v>>, <<v, u>>} /\ req[r].kind = "request"
      <4>1. PairOf(r) = {u, v}
        BY <3>8 DEF PairOf
      <4>2. CASE Return(r, FALSE)
        BY <2>2, <3>8, <4>1, <4>2 DEF Return, TypeOK, Writes
      <4>3. CASE Goto(r, "other")
        <5>1. req'[r] = [req[r] EXCEPT !.at = "other"] /\ req[r] \in Request
          BY <3>1, <4>3, RequestType DEF Goto, TypeOK
        <5>2. /\ req'[r].user = req[r].user /\ req'[r].other = req[r].other
              /\ req'[r].kind = req[r].kind /\ req'[r].at = "other"
          BY <5>1 DEF Request, Calling
        <5> QED
          BY <3>8, <4>1, <5>2 DEF WorksOn, Working, PairOf, Idle
      <4> QED
        BY <2>9, <4>2, <4>3 DEF UpdateOwn
    <3> QED
      BY <3>7, <3>8
  <2>10. CASE UpdateOther(r)
    <3> DEFINE p == <<req[r].other, req[r].user>>
    <3>1. Working(r) /\ req[r].at = "other" /\ p \in Users \X Users
      BY <2>10, RequestType DEF UpdateOther, Working, Idle
    <3>2. PICK ok \in BOOLEAN : Return(r, ok)
      BY <2>10 DEF UpdateOther
    <3>3. ASSUME NEW q \in Reqs, q # r PROVE req'[q] = req[q]
      BY <3>2, <3>3 DEF Return, TypeOK
    <3>4. row'[p] = Updated(row[p], req[r].kind, req[r].chain, FALSE)
      BY <2>10, <3>1 DEF UpdateOther, UpdateRow, TypeOK
    <3>5. \A o \in Users \X Users : o # p => row'[o] = row[o]
      BY <2>10, <3>1 DEF UpdateOther, UpdateRow, TypeOK
    <3>6. row[p] \in Row /\ req[r].kind \in Kinds
      BY <3>1, RequestType DEF TypeOK
    <3>7. CASE p \in {<<u, v>>, <<v, u>>} /\ req[r].kind # "accept"
      BY <3>4, <3>6, <3>7 DEF Updated, Row, Kinds
    <3>8. CASE p \notin {<<u, v>>, <<v, u>>} \/ req[r].kind = "accept"
      <4>1. row[<<u, v>>].requested /\ row[<<v, u>>].requested
        BY <3>4, <3>5, <3>6, <3>8 DEF Updated, Row, Kinds
      <4>2. PairOf(r) # {u, v} \/ req[r].kind = "accept"
        <5>1. SUFFICES ASSUME PairOf(r) = {u, v} PROVE p \in {<<u, v>>, <<v, u>>}
          BY <3>8
        <5>2. {req[r].user, req[r].other} = {u, v}
          BY <5>1 DEF PairOf
        <5>3. \/ req[r].user = u /\ req[r].other = v
              \/ req[r].user = v /\ req[r].other = u
          BY <5>2
        <5> QED
          BY <5>3
      <4>3. ASSUME NEW q \in Reqs, Between(q) PROVE q # r
        BY <4>2, <4>3 DEF WorksOn
      <4> QED
        BY <1>1, <2>3, <2>4, <3>1, <3>2, <3>3, <4>1, <4>2, <4>3
    <3> QED
      BY <3>7, <3>8
  <2>11. CASE Fail(r)
    <3>1. Working(r) /\ Return(r, FALSE) /\ UNCHANGED row
      BY <2>11 DEF Fail
    <3>2. ASSUME NEW q \in Reqs, q # r PROVE req'[q] = req[q]
      BY <3>1, <3>2 DEF Return, TypeOK
    <3> QED
      BY <1>1, <2>3, <2>4, <2>5, <3>1, <3>2
  <2> QED
    BY <2>1, <2>6, <2>7, <2>8, <2>9, <2>10, <2>11
<1> QED
  BY <1>2, <1>3

(* However requests of two users overlap or fail, they never both stand as *)
(* the one who requested, but for a RequestRelation that is or was stopped *)
(* between its two updates (relation.services.go:40-90).                   *)
THEOREM RequestedOnceCorrect == Spec => []RequestedOnce
<1>1. Init => RequestedOnce
  BY DEF Init, RequestedOnce, NewRow
<1>2. TypeOK /\ RequestedOnce /\ [Next]_vars => RequestedOnce'
  BY RequestedStep
<1> QED
  BY <1>1, <1>2, TypeCorrect, PTL DEF Spec

-----------------------------------------------------------------------------
(* FriendsShareAChain needs to know where the chains come from: one that   *)
(* was not drawn has no users; one that is about to be inserted has none   *)
(* either, and belongs to one request; and one that a request or a row     *)
(* names otherwise has exactly its two users, or its insertion failed.     *)

Accepts(r) == Working(r) /\ req[r].kind = "accept" /\ req[r].at \in {"own", "other"}
Inserts(r) == Working(r) /\ req[r].at = "insert"
Holds(c, pair) == c \in drawn /\ members[c] = pair

Free(c) == Holds(c, {}) /\ c \notin unfilled
Kept(c, pair) == Holds(c, pair) \/ (Holds(c, {}) /\ c \in unfilled)

FreshAreEmpty == \A c \in Chains \ drawn : members[c] = {} /\ c \notin unfilled
RowsHold ==
  \A p \in Users \X Users : row[p].chain # None => Kept(row[p].chain, {p[1], p[2]})
FriendsHaveChains == \A p \in Users \X Users : row[p].friend => row[p].chain # None
AcceptsHold == \A r \in Reqs : Accepts(r) => Kept(req[r].chain, PairOf(r))
InsertsOwn ==
  \A r \in Reqs : Inserts(r) =>
    /\ Free(req[r].chain)
    /\ \A q \in Reqs \ {r} : Inserts(q) => req[q].chain # req[r].chain

ChainInv == FreshAreEmpty /\ RowsHold /\ FriendsHaveChains /\ AcceptsHold /\ InsertsOwn

(* The chain of a request that accepts or inserts is a chain.              *)
LEMMA AcceptType ==
  ASSUME TypeOK, NEW r \in Reqs, Accepts(r) \/ Inserts(r)
  PROVE  req[r].chain \in Chains /\ req[r].kind = "accept" /\ Working(r)
BY RequestType DEF Accepts, Inserts, Calling

(* A step that keeps the chains and rows, and leaves every request as it   *)
(* was, or idle, or beyond accepting, keeps the invariant.                 *)
LEMMA QuietStep ==
  ASSUME TypeOK, ChainInv, UNCHANGED <<row, members, drawn, unfilled>>,
         \A q \in Reqs : \/ req'[q] = req[q]
                         \/ ~Accepts(q)' /\ ~Inserts(q)'
  PROVE  ChainInv'
<1>1. FreshAreEmpty' /\ RowsHold' /\ FriendsHaveChains'
  BY DEF ChainInv, FreshAreEmpty, RowsHold, FriendsHaveChains, Holds, Kept, Free
<1>2. AcceptsHold'
  BY DEF ChainInv, AcceptsHold, Accepts, Holds, Kept, Free, Working, Idle, PairOf
<1>3. InsertsOwn'
  BY DEF ChainInv, InsertsOwn, Inserts, Holds, Kept, Free, Working, Idle
<1> QED
  BY <1>1, <1>2, <1>3 DEF ChainInv

(* A handler that returns accepts and inserts no more.                     *)
LEMMA ReturnQuiet ==
  ASSUME TypeOK, NEW r \in Reqs, NEW ok \in BOOLEAN, Return(r, ok)
  PROVE  \A q \in Reqs : \/ q # r /\ req'[q] = req[q]
                         \/ q = r /\ ~Working(q)'
BY DEF Return, TypeOK, Working, Idle

(* What an UPDATE does to the chain and the friend flag of a row.          *)
LEMMA UpdateChain ==
  ASSUME TypeOK, ChainInv, NEW r \in Reqs, Working(r), req[r].at \in {"own", "other"},
         NEW p \in Users \X Users, {p[1], p[2]} = PairOf(r), NEW mine \in BOOLEAN,
         UpdateRow(r, p, mine), UNCHANGED <<members, drawn, unfilled>>
  PROVE  RowsHold' /\ FriendsHaveChains'
<1>1. /\ row'[p] = Updated(row[p], req[r].kind, req[r].chain, mine)
      /\ \A o \in Users \X Users : o # p => row'[o] = row[o]
  BY DEF UpdateRow, TypeOK
<1>2. row[p] \in Row /\ req[r].kind \in Kinds
  BY RequestType DEF TypeOK
<1>3. CASE req[r].kind = "accept"
  <2>1. row'[p].chain = req[r].chain /\ row'[p].friend
    BY <1>1, <1>2, <1>3 DEF Updated, Row
  <2>2. Kept(req[r].chain, PairOf(r)) /\ req[r].chain # None
    BY <1>3, AcceptType, ConstantsAssumption DEF ChainInv, AcceptsHold, Accepts
  <2> QED
    BY <1>1, <2>1, <2>2 DEF ChainInv, RowsHold, FriendsHaveChains, Holds, Kept, Free
<1>4. CASE req[r].kind # "accept"
  <2>1. row'[p].chain = row[p].chain /\ (row'[p].friend => row[p].friend)
    BY <1>1, <1>2, <1>4 DEF Updated, Row, Kinds
  <2> QED
    BY <1>1, <2>1 DEF ChainInv, RowsHold, FriendsHaveChains, Holds, Kept, Free
<1> QED
  BY <1>3, <1>4

(* Every step of a request keeps the invariant.                            *)
LEMMA ChainStep ==
  ASSUME TypeOK, ChainInv, [Next]_vars
  PROVE  ChainInv'
<1>1. CASE UNCHANGED vars
  <2>1. UNCHANGED <<row, members, drawn, unfilled>> /\ \A q \in Reqs : req'[q] = req[q]
    BY <1>1 DEF vars
  <2> QED
    BY <2>1, QuietStep
<1>2. CASE Next
  <2>1. PICK r \in Reqs :
          \/ \E kind \in Kinds, call \in Calls : Start(r, kind, call[1], call[2])
          \/ Check(r) \/ Insert(r) \/ UpdateOwn(r) \/ UpdateOther(r) \/ Fail(r)
    BY <1>2 DEF Next
  <2>2. ASSUME NEW kind \in Kinds, NEW call \in Calls, Start(r, kind, call[1], call[2])
        PROVE  ChainInv'
    <3>1. ~Accepts(r)' /\ ~Inserts(r)'
      BY <2>2 DEF Start, Accepts, Inserts, First, Kinds
    <3>2. ASSUME NEW q \in Reqs, q # r, req'[q] # req[q]
          PROVE  /\ Working(q) /\ Working(q)' /\ req'[q].at = req[q].at
                 /\ req'[q].kind = req[q].kind /\ req'[q].chain = req[q].chain
                 /\ PairOf(q)' = PairOf(q)
      <4>1. WorksOn(q, call[1], call[2]) /\ req'[q] = [req[q] EXCEPT !.alone = FALSE]
        BY <2>2, <3>2 DEF Start
      <4>2. Working(q) /\ req[q] \in Request
        BY <4>1, RequestType DEF WorksOn
      <4>3. /\ req'[q].user = req[q].user /\ req'[q].other = req[q].other
            /\ req'[q].kind = req[q].kind /\ req'[q].at = req[q].at
            /\ req'[q].chain = req[q].chain /\ req'[q].at # "idle"
        BY <4>1, <4>2 DEF Request, Calling
      <4> QED
        BY <4>2, <4>3 DEF Working, PairOf, Idle
    <3>3. UNCHANGED <<row, members, drawn, unfilled>>
      BY <2>2 DEF Start
    <3>4. FreshAreEmpty' /\ RowsHold' /\ FriendsHaveChains'
      BY <3>3 DEF ChainInv, FreshAreEmpty, RowsHold, FriendsHaveChains, Holds, Kept, Free
    <3>5. \A q \in Reqs : Accepts(q)' =>
             Accepts(q) /\ req'[q].chain = req[q].chain /\ PairOf(q)' = PairOf(q)
      BY <3>1, <3>2 DEF Accepts, Working, Idle, PairOf
    <3>6. \A q \in Reqs : Inserts(q)' => Inserts(q) /\ req'[q].chain = req[q].chain
      BY <3>1, <3>2 DEF Inserts, Working, Idle
    <3>7. AcceptsHold'
      BY <3>3, <3>5 DEF ChainInv, AcceptsHold, Holds, Kept, Free
    <3>8. InsertsOwn'
      BY <3>3, <3>6 DEF ChainInv, InsertsOwn, Holds, Kept, Free
    <3> QED
      BY <3>4, <3>7, <3>8 DEF ChainInv
  <2>3. CASE Check(r)
    <3>1. Working(r) /\ req[r] \in Calling({"accept"}, {None}, {"check"})
      BY <2>3, RequestType DEF Check, Working, Idle
    <3>2. PICK p \in Users \X Users :
            p = <<req[r].user, req[r].other>> /\ {p[1], p[2]} = PairOf(r)
      <4>1. <<req[r].user, req[r].other>> \in Users \X Users
        BY <3>1, RequestType
      <4>2. /\ <<req[r].user, req[r].other>>[1] = req[r].user
            /\ <<req[r].user, req[r].other>>[2] = req[r].other
        OBVIOUS
      <4> QED
        BY <4>1, <4>2 DEF PairOf
    <3>3. UNCHANGED <<row, members, unfilled>>
      BY <2>3 DEF Check
    <3>4. CASE /\ row[p].chain # None
               /\ req' = [req EXCEPT ![r].chain = row[p].chain, ![r].at = "own"]
               /\ UNCHANGED drawn
      <4>1. /\ req'[r].chain = row[p].chain /\ req'[r].at = "own"
            /\ req'[r].user = req[r].user /\ req'[r].other = req[r].other
        BY <3>1, <3>4 DEF TypeOK, Calling
      <4>2. (\A q \in Reqs : q # r => req'[q] = req[q]) /\ UNCHANGED drawn
        BY <3>4 DEF TypeOK
      <4>3. FreshAreEmpty' /\ RowsHold' /\ FriendsHaveChains'
        BY <3>3, <4>2 DEF ChainInv, FreshAreEmpty, RowsHold, FriendsHaveChains, Holds, Kept, Free
      <4>4. Kept(row[p].chain, PairOf(r)) /\ PairOf(r)' = PairOf(r)
        BY <3>2, <3>4, <4>1 DEF ChainInv, RowsHold, PairOf
      <4>5. AcceptsHold'
        <5> SUFFICES ASSUME NEW q \in Reqs, Accepts(q)' PROVE Kept(req[q].chain, PairOf(q))'
          BY DEF AcceptsHold
        <5>1. CASE q = r
          BY <3>3, <4>1, <4>2, <4>4, <5>1 DEF Holds, Kept, Free
        <5>2. CASE q # r
          BY <3>3, <4>2, <5>2 DEF ChainInv, AcceptsHold, Accepts, Working, Idle, Holds, Kept, Free, PairOf
        <5> QED
          BY <5>1, <5>2
      <4>6. ~Inserts(r)'
        BY <4>1 DEF Inserts
      <4>7. InsertsOwn'
        BY <3>3, <4>2, <4>6 DEF ChainInv, InsertsOwn, Inserts, Working, Idle, Holds, Kept, Free
      <4> QED
        BY <4>3, <4>5, <4>7 DEF ChainInv
    <3>5. ASSUME NEW c \in Chains \ drawn, drawn' = drawn \cup {c},
                 req' = [req EXCEPT ![r].chain = c, ![r].at = "insert"]
          PROVE  ChainInv'
      <4>1. req'[r].chain = c /\ req'[r].at = "insert"
        BY <3>1, <3>5 DEF TypeOK, Calling
      <4>2. \A q \in Reqs : q # r => req'[q] = req[q]
        BY <3>5 DEF TypeOK
      <4>3. Free(c)'
        BY <3>3, <3>5 DEF ChainInv, FreshAreEmpty, Holds, Kept, Free
      <4>4. \A d, pair : /\ Holds(d, pair) => Holds(d, pair)' /\ d # c
                         /\ Kept(d, pair) => Kept(d, pair)'
                         /\ Free(d) => Free(d)' /\ d # c
        BY <3>3, <3>5 DEF Holds, Kept, Free
      <4>5. FreshAreEmpty' /\ FriendsHaveChains'
        BY <3>3, <3>5 DEF ChainInv, FreshAreEmpty, FriendsHaveChains
      <4>6. RowsHold'
        BY <3>3, <4>4 DEF ChainInv, RowsHold
      <4>7. AcceptsHold'
        <5> SUFFICES ASSUME NEW q \in Reqs, Accepts(q)' PROVE Kept(req[q].chain, PairOf(q))'
          BY DEF AcceptsHold
        <5>1. q # r
          BY <4>1 DEF Accepts
        <5>2. Accepts(q) /\ req'[q] = req[q]
          BY <4>2, <5>1 DEF Accepts, Working, Idle
        <5>3. Kept(req[q].chain, PairOf(q))
          BY <5>2 DEF ChainInv, AcceptsHold
        <5>4. UNCHANGED <<members, unfilled>> /\ drawn \subseteq drawn'
          BY <3>3, <3>5
        <5> QED
          BY <5>2, <5>3, <5>4 DEF Holds, Kept, PairOf
      <4>8. InsertsOwn'
        <5> SUFFICES ASSUME NEW q \in Reqs, Inserts(q)'
                     PROVE  /\ Free(req[q].chain)'
                            /\ \A o \in Reqs \ {q} : Inserts(o)' => req'[o].chain # req'[q].chain
          BY DEF InsertsOwn
        <5>1. ASSUME NEW o \in Reqs, o # r, Inserts(o)'
              PROVE  Inserts(o) /\ req'[o] = req[o] /\ Free(req[o].chain)
          BY <4>2, <5>1 DEF ChainInv, InsertsOwn, Inserts, Working, Idle
        <5>2. ASSUME NEW o \in Reqs, o # r, Inserts(o)'
              PROVE  req'[o].chain # c
          BY <4>4, <5>1, <5>2
        <5>3. CASE q = r
          BY <4>1, <4>3, <5>2, <5>3 DEF Holds, Kept, Free
        <5>4. CASE q # r
          <6>1. Free(req[q].chain)'
            BY <4>4, <5>1, <5>4 DEF Holds, Kept, Free
          <6>2. ASSUME NEW o \in Reqs \ {q}, Inserts(o)' PROVE req'[o].chain # req'[q].chain
            BY <4>1, <5>1, <5>2, <5>4, <6>2 DEF ChainInv, InsertsOwn
          <6> QED
            BY <6>1, <6>2
        <5> QED
          BY <5>3, <5>4
      <4> QED
        BY <4>5, <4>6, <4>7, <4>8 DEF ChainInv
    <3> QED
      BY <2>3, <3>2, <3>4, <3>5 DEF Check, ReuseChain, DrawChain, Chain
  <2>4. CASE Insert(r)
    <3> DEFINE c == req[r].chain
    <3>1. Inserts(r) /\ UNCHANGED <<row, drawn>>
      BY <2>4 DEF Insert, Inserts, Working, Idle
    <3>2. c \in Chains /\ req[r].kind = "accept" /\ c \in drawn /\ members[c] = {}
          /\ c \notin unfilled
      BY <3>1, AcceptType DEF ChainInv, InsertsOwn, Holds, Kept, Free
    <3>3. /\ \A d \in Chains : d # c => members'[d] = members[d]
          /\ \A d \in Chains : d # c => (d \in unfilled' <=> d \in unfilled)
          /\ members'[c] = PairOf(r) \/ (members'[c] = {} /\ c \in unfilled')
      <4>1. CASE InsertChainsUsers(r) /\ UNCHANGED unfilled
        BY <3>2, <4>1 DEF InsertChainsUsers, TypeOK
      <4>2. CASE InsertChainsUsers(r) /\ unfilled' = unfilled \cup {req[r].chain}
        BY <3>2, <4>2 DEF InsertChainsUsers, TypeOK
      <4>3. CASE UNCHANGED members /\ unfilled' = unfilled \cup {req[r].chain}
        BY <3>2, <4>3 DEF TypeOK
      <4> QED
        BY <2>4, <4>1, <4>2, <4>3, InsertCases DEF InsertsOrNot
    <3>4. \A q \in Reqs : q # r => req'[q] = req[q]
      BY <2>4 DEF Insert, Goto, TypeOK
    <3>5. ~Inserts(r)' /\ (Accepts(r)' => req'[r].chain = c /\ PairOf(r)' = PairOf(r))
      <4>1. req'[r] = [req[r] EXCEPT !.at = "own"] /\ req[r] \in Request
        BY <2>4, <3>1, RequestType DEF Insert, Goto, TypeOK, Inserts
      <4> QED
        BY <4>1 DEF Request, Calling, Inserts, PairOf
    <3>6. FreshAreEmpty'
      BY <3>1, <3>2, <3>3 DEF ChainInv, FreshAreEmpty
    <3>7. RowsHold' /\ FriendsHaveChains'
      <4>1. \A o \in Users \X Users : row[o].chain # None => row[o].chain # c
        BY <3>2 DEF ChainInv, RowsHold, Holds, Kept, Free
      <4>2. \A o \in Users \X Users : row[o].chain \in Chains \cup {None}
        BY DEF TypeOK, Row
      <4> QED
        BY <3>1, <3>3, <4>1, <4>2 DEF ChainInv, RowsHold, FriendsHaveChains, Holds, Kept, Free
    <3>8. AcceptsHold'
      <4> SUFFICES ASSUME NEW q \in Reqs, Accepts(q)' PROVE Kept(req[q].chain, PairOf(q))'
        BY DEF AcceptsHold
      <4>1. CASE q = r
        BY <3>1, <3>2, <3>3, <3>5, <4>1 DEF Holds, Kept, Free
      <4>2. CASE q # r
        <5>1. Accepts(q) /\ req'[q] = req[q]
          BY <3>4, <4>2 DEF Accepts, Working, Idle
        <5>2. Kept(req[q].chain, PairOf(q)) /\ req[q].chain \in Chains
          BY <5>1, AcceptType DEF ChainInv, AcceptsHold
        <5>3. req[q].chain # c
          BY <3>2, <5>2 DEF Holds, Kept, Free, PairOf
        <5> QED
          BY <3>1, <3>3, <5>1, <5>2, <5>3 DEF Holds, Kept, Free, PairOf
      <4> QED
        BY <4>1, <4>2
    <3>9. InsertsOwn'
      <4> SUFFICES ASSUME NEW q \in Reqs, Inserts(q)'
                   PROVE  /\ Free(req[q].chain)'
                          /\ \A o \in Reqs \ {q} : Inserts(o)' => req'[o].chain # req'[q].chain
        BY DEF InsertsOwn
      <4>1. q # r /\ req'[q] = req[q] /\ Inserts(q)
        BY <3>4, <3>5 DEF Inserts, Working, Idle
      <4>2. Free(req[q].chain) /\ req[q].chain # c /\ req[q].chain \in Chains
        BY <3>1, <4>1, AcceptType DEF ChainInv, InsertsOwn
      <4>3. Free(req[q].chain)'
        BY <3>1, <3>3, <4>1, <4>2 DEF Holds, Kept, Free
      <4>4. ASSUME NEW o \in Reqs \ {q}, Inserts(o)' PROVE req'[o].chain # req'[q].chain
        BY <3>4, <3>5, <4>1, <4>4 DEF ChainInv, InsertsOwn, Inserts, Working, Idle
      <4> QED
        BY <4>3, <4>4
    <3> QED
      BY <3>6, <3>7, <3>8, <3>9 DEF ChainInv
  <2>5. CASE UpdateOwn(r)
    <3>1. Working(r) /\ req[r].at = "own" /\ UNCHANGED <<members, drawn, unfilled>>
      BY <2>5 DEF UpdateOwn, Working, Idle
    <3>2. RowsHold' /\ FriendsHaveChains'
      BY <2>5, <3>1, RequestType, UpdateChain DEF UpdateOwn, PairOf
    <3>3. FreshAreEmpty'
      BY <3>1 DEF ChainInv, FreshAreEmpty
    <3>4. \A q \in Reqs : q # r => req'[q] = req[q]
      BY <2>5 DEF UpdateOwn, Goto, Return, TypeOK
    <3>5. /\ ~Inserts(r)'
          /\ Accepts(r)' => Accepts(r) /\ req'[r].chain = req[r].chain /\ PairOf(r)' = PairOf(r)
      <4>1. CASE Goto(r, "other")
        <5>1. req'[r] = [req[r] EXCEPT !.at = "other"] /\ req[r] \in Request
          BY <3>1, <4>1, RequestType DEF Goto, TypeOK
        <5> QED
          BY <3>1, <5>1 DEF Request, Calling, Inserts, Accepts, PairOf
      <4>2. CASE Return(r, FALSE)
        BY <4>2, ReturnQuiet DEF Inserts, Accepts
      <4> QED
        BY <2>5, <4>1, <4>2 DEF UpdateOwn
    <3>6. AcceptsHold'
      BY <3>1, <3>4, <3>5 DEF ChainInv, AcceptsHold, Accepts, Working, Idle, Holds, Kept, Free, PairOf
    <3>7. InsertsOwn'
      BY <3>1, <3>4, <3>5 DEF ChainInv, InsertsOwn, Inserts, Working, Idle, Holds, Kept, Free
    <3> QED
      BY <3>2, <3>3, <3>6, <3>7 DEF ChainInv
  <2>6. CASE UpdateOther(r)
    <3>1. Working(r) /\ req[r].at = "other" /\ UNCHANGED <<members, drawn, unfilled>>
      BY <2>6 DEF UpdateOther, Working, Idle
    <3>2. RowsHold' /\ FriendsHaveChains'
      BY <2>6, <3>1, RequestType, UpdateChain DEF UpdateOther, PairOf
    <3>3. FreshAreEmpty'
      BY <3>1 DEF ChainInv, FreshAreEmpty
    <3>4. \A q \in Reqs : \/ q # r /\ req'[q] = req[q]
                          \/ q = r /\ ~Working(q)'
      BY <2>6, ReturnQuiet DEF UpdateOther
    <3>5. AcceptsHold'
      BY <3>1, <3>4 DEF ChainInv, AcceptsHold, Accepts, Working, Idle, Holds, Kept, Free, PairOf
    <3>6. InsertsOwn'
      BY <3>1, <3>4 DEF ChainInv, InsertsOwn, Inserts, Working, Idle, Holds, Kept, Free
    <3> QED
      BY <3>2, <3>3, <3>5, <3>6 DEF ChainInv
  <2>7. CASE Fail(r)
    BY <2>7, QuietStep, ReturnQuiet DEF Fail, Accepts, Inserts
  <2> QED
    BY <2>1, <2>2, <2>3, <2>4, <2>5, <2>6, <2>7
<1> QED
  BY <1>1, <1>2

(* Two different users are a chain's worth of members.                     *)
LEMMA TwoUsers ==
  ASSUME NEW u, NEW v, u # v
  PROVE  Cardinality({u, v}) = 2
<1>1. IsFiniteSet({u}) /\ Cardinality({u}) = 1
  BY FS_Singleton
<1>2. {u} \cup {v} = {u, v} /\ v \notin {u}
  OBVIOUS
<1> QED
  BY <1>1, <1>2, FS_AddElement

(* Whatever fails or overlaps, a friend comes with a chain, and exactly    *)
(* the two users of a row may use the chain it names, or nobody where its  *)
(* insertion failed: AcceptRelation draws and inserts a chain before any   *)
(* row names it (relation.services.go:113).                                *)
THEOREM FriendsShareAChainCorrect == Spec => []FriendsShareAChain
<1>1. Init => ChainInv
  BY DEF Init, NewRow, ChainInv, FreshAreEmpty, RowsHold, FriendsHaveChains, AcceptsHold,
         InsertsOwn, Accepts, Inserts, Working
<1>2. TypeOK /\ ChainInv /\ [Next]_vars => ChainInv'
  BY ChainStep
<1>3. ChainInv => FriendsShareAChain
  <2> SUFFICES ASSUME ChainInv, NEW u \in Users, NEW v \in Users, NEW c, c = row[<<u, v>>].chain
               PROVE  /\ row[<<u, v>>].friend => c # None
                      /\ c # None /\ u # v =>
                           \/ \A w \in Users : MayUse(w, c) <=> w \in {u, v}
                           \/ c \in unfilled /\ \A w \in Users : ~MayUse(w, c)
    BY DEF FriendsShareAChain
  <2>1. <<u, v>> \in Users \X Users /\ <<u, v>>[1] = u /\ <<u, v>>[2] = v
    OBVIOUS
  <2>2. row[<<u, v>>].friend => c # None
    BY <2>1 DEF ChainInv, FriendsHaveChains
  <2>3. ASSUME c # None, u # v
        PROVE  \/ \A w \in Users : MayUse(w, c) <=> w \in {u, v}
               \/ c \in unfilled /\ \A w \in Users : ~MayUse(w, c)
    <3>1. Kept(c, {u, v})
      BY <2>1, <2>3 DEF ChainInv, RowsHold
    <3>2. Cardinality({u, v}) = 2
      BY <2>3, TwoUsers
    <3> QED
      BY <3>1, <3>2 DEF Kept, Holds, MayUse
  <2> QED
    BY <2>2, <2>3
<1> QED
  BY <1>1, <1>2, <1>3, TypeCorrect, PTL DEF Spec

-----------------------------------------------------------------------------
(* RelationsAgree and ChainKept speak of the two rows of a pair, which     *)
(* only the requests on that pair write. One that is alone finds its own   *)
(* row as it left it (OwnIsWritten) and the chain that it read             *)
(* (ChainIsRead); a column whose two copies differ is torn, or in the      *)
(* hands of a request that overlaps another or is between its writes.      *)

Agree(col, u, v) ==
  /\ col = "active" =>
       /\ row[<<u, v>>].active <=> row[<<v, u>>].active
       /\ row[<<u, v>>].active => (row[<<u, v>>].requested <=> ~row[<<v, u>>].requested)
  /\ col = "friend" => (row[<<u, v>>].friend <=> row[<<v, u>>].friend)
  /\ col = "chain" => row[<<u, v>>].chain = row[<<v, u>>].chain

\* r may be the reason why two copies of a column differ.
Parts(r, col, u, v) ==
  WorksOn(r, u, v) /\ col \in Writes(req[r].kind) /\ (~req[r].alone \/ req[r].at = "other")

\* What a request has made of its own row.
Written(o, kind, chain) ==
  /\ kind = "request" => o.active /\ o.requested
  /\ kind = "accept" => o.friend /\ o.chain = chain
  /\ kind = "remove" => ~o.active /\ ~o.friend

\* A request of u about v that no other overlaps.
Alone(r, u, v) == Working(r) /\ req[r].user = u /\ req[r].other = v /\ req[r].alone

AloneIsOnly(u, v) ==
  \A r, q \in Reqs : WorksOn(r, u, v) /\ req[r].alone /\ WorksOn(q, u, v) => q = r
OwnIsWritten(u, v) ==
  \A r \in Reqs : Alone(r, u, v) /\ req[r].at = "other" =>
    Written(row[<<u, v>>], req[r].kind, req[r].chain)
ColumnsAgree(u, v) ==
  u # v => \A col \in Columns :
    \/ col \in torn[{u, v}]
    \/ Agree(col, u, v)
    \/ \E r \in Reqs : Parts(r, col, u, v)
ChainIsRead(u, v) ==
  \A r \in Reqs :
    Alone(r, u, v) /\ req[r].kind = "accept" /\ req[r].at \in {"insert", "own", "other"} =>
      \/ "chain" \in torn[{u, v}]
      \/ {row[<<u, v>>].chain, row[<<v, u>>].chain} \subseteq {None, req[r].chain}

PairInv(u, v) == AloneIsOnly(u, v) /\ OwnIsWritten(u, v) /\ ColumnsAgree(u, v) /\ ChainIsRead(u, v)
AgreeInv == \A u, v \in Users : PairInv(u, v)

(* A request that is alone works on its pair.                              *)
LEMMA AloneWorks ==
  ASSUME NEW r, NEW u, NEW v, Alone(r, u, v)
  PROVE  WorksOn(r, u, v)
BY DEF Alone, WorksOn, PairOf

(* Nothing that happens elsewhere disturbs a pair.                         *)
LEMMA Elsewhere ==
  ASSUME NEW u \in Users, NEW v \in Users, PairInv(u, v),
         row'[<<u, v>>] = row[<<u, v>>], row'[<<v, u>>] = row[<<v, u>>],
         torn'[{u, v}] = torn[{u, v}],
         \A q \in Reqs : req'[q] = req[q] \/ (~WorksOn(q, u, v) /\ ~WorksOn(q, u, v)')
  PROVE  PairInv(u, v)'
<1>1. \A q \in Reqs : WorksOn(q, u, v)' => WorksOn(q, u, v) /\ req'[q] = req[q]
  BY DEF WorksOn, Working, PairOf
<1>2. \A q \in Reqs : WorksOn(q, u, v) => WorksOn(q, u, v)' /\ req'[q] = req[q]
  BY DEF WorksOn, Working, PairOf
<1>3. \A q \in Reqs : Alone(q, u, v)' => Alone(q, u, v) /\ req'[q] = req[q]
  <2> SUFFICES ASSUME NEW q \in Reqs, Alone(q, u, v)' PROVE Alone(q, u, v) /\ req'[q] = req[q]
    OBVIOUS
  <2>1. WorksOn(q, u, v)'
    BY DEF Alone, WorksOn, PairOf
  <2>2. req'[q] = req[q]
    BY <1>1, <2>1
  <2> QED
    BY <2>2 DEF Alone, Working
<1>4. AloneIsOnly(u, v)'
  BY <1>1 DEF PairInv, AloneIsOnly
<1>5. OwnIsWritten(u, v)'
  BY <1>3 DEF PairInv, OwnIsWritten
<1>6. ColumnsAgree(u, v)'
  <2>1. ASSUME NEW r \in Reqs, NEW col \in Columns, Parts(r, col, u, v)
        PROVE  Parts(r, col, u, v)'
    BY <1>2, <2>1 DEF Parts
  <2>2. \A col \in Columns : Agree(col, u, v) => Agree(col, u, v)'
    BY DEF Agree
  <2> QED
    BY <2>1, <2>2 DEF PairInv, ColumnsAgree
<1>7. ChainIsRead(u, v)'
  BY <1>3 DEF PairInv, ChainIsRead
<1> QED
  BY <1>4, <1>5, <1>6, <1>7 DEF PairInv

(* A request arrives: it is alone if no other is served, and no other is   *)
(* alone any more.                                                         *)
LEMMA StartAgrees ==
  ASSUME TypeOK, AgreeInv, NEW r \in Reqs, NEW kind \in Kinds, NEW x \in Users, NEW y \in Users,
         Start(r, kind, x, y), NEW u \in Users, NEW v \in Users
  PROVE  PairInv(u, v)'
<1>1. PairInv(u, v) /\ UNCHANGED <<row, torn>> /\ ~Working(r)
  BY DEF AgreeInv, Start
<1>2. /\ req'[r].kind = kind /\ req'[r].user = x /\ req'[r].other = y /\ req'[r].at = First(kind)
      /\ req'[r].alone = ~Overlaps(r, x, y)
  BY DEF Start
<1>3. ASSUME NEW q \in Reqs, q # r, WorksOn(q, x, y)
      PROVE  /\ req'[q].kind = req[q].kind /\ req'[q].user = req[q].user
             /\ req'[q].other = req[q].other /\ req'[q].at = req[q].at /\ ~req'[q].alone
             /\ Working(q)'
  <2>1. req'[q] = [req[q] EXCEPT !.alone = FALSE] /\ req[q] \in Request
    BY <1>3, RequestType DEF Start, WorksOn
  <2> QED
    BY <2>1 DEF Request, Calling, Working, Idle
<1>4. \A q \in Reqs : q # r /\ ~WorksOn(q, x, y) => req'[q] = req[q]
  BY DEF Start
<1>5. PairOf(r)' = {x, y}
  BY <1>2 DEF PairOf
<1>6. \A q \in Reqs : WorksOn(q, x, y) => PairOf(q) = {x, y} /\ PairOf(q)' = {x, y}
  BY <1>1, <1>3 DEF WorksOn, PairOf
<1>7. CASE {u, v} # {x, y}
  <2>1. ASSUME NEW q \in Reqs
        PROVE  req'[q] = req[q] \/ (~WorksOn(q, u, v) /\ ~WorksOn(q, u, v)')
    <3>1. CASE q = r
      BY <1>1, <1>5, <1>7, <3>1 DEF WorksOn
    <3>2. CASE q # r /\ WorksOn(q, x, y)
      BY <1>6, <1>7, <3>2 DEF WorksOn
    <3> QED
      BY <1>4, <3>1, <3>2
  <2> QED
    BY <1>1, <2>1, Elsewhere
<1>8. CASE {u, v} = {x, y}
  <2>1. \A q \in Reqs : WorksOn(q, u, v) <=> WorksOn(q, x, y)
    BY <1>8 DEF WorksOn
  <2>2. ASSUME NEW q \in Reqs, WorksOn(q, u, v)', q # r
        PROVE  WorksOn(q, x, y) /\ ~req'[q].alone
    <3>1. CASE WorksOn(q, x, y)
      BY <1>3, <2>2, <3>1
    <3>2. CASE ~WorksOn(q, x, y)
      <4>1. req'[q] = req[q]
        BY <1>4, <2>2, <3>2
      <4> QED
        BY <2>1, <2>2, <3>2, <4>1 DEF WorksOn, Working, PairOf
    <3> QED
      BY <3>1, <3>2
  <2>3. req'[r].alone => \A q \in Reqs : q # r => ~WorksOn(q, x, y)
    BY <1>2 DEF Overlaps
  <2>4. AloneIsOnly(u, v)'
    BY <2>2, <2>3 DEF AloneIsOnly
  <2>5. \A q \in Reqs : Alone(q, u, v)' => q = r
    <3> SUFFICES ASSUME NEW q \in Reqs, Alone(q, u, v)', q # r PROVE FALSE
      OBVIOUS
    <3>1. WorksOn(q, u, v)' /\ req'[q].alone
      BY DEF Alone, WorksOn, PairOf
    <3> QED
      BY <2>2, <3>1
  <2>6. OwnIsWritten(u, v)' /\ ChainIsRead(u, v)'
    BY <1>2, <2>5 DEF OwnIsWritten, ChainIsRead, First, Kinds
  <2>7. ASSUME NEW q \in Reqs, NEW col \in Columns, Parts(q, col, u, v)
        PROVE  Parts(q, col, u, v)'
    <3>1. q # r /\ WorksOn(q, x, y)
      BY <1>1, <2>1, <2>7 DEF Parts, WorksOn
    <3>2. WorksOn(q, u, v)'
      BY <1>3, <1>6, <1>8, <3>1 DEF WorksOn
    <3> QED
      BY <1>3, <2>7, <3>1, <3>2 DEF Parts
  <2>8. ColumnsAgree(u, v)'
    BY <1>1, <2>7 DEF PairInv, ColumnsAgree, Agree
  <2> QED
    BY <2>4, <2>6, <2>8 DEF PairInv
<1> QED
  BY <1>7, <1>8

(* A step of r that writes rows of its pair at most leaves others alone.   *)
LEMMA OtherPairs ==
  ASSUME AgreeInv, NEW r \in Reqs, Working(r),
         \A q \in Reqs : q # r => req'[q] = req[q],
         Working(r)' => PairOf(r)' = PairOf(r),
         NEW u \in Users, NEW v \in Users, {u, v} # PairOf(r),
         row'[<<u, v>>] = row[<<u, v>>], row'[<<v, u>>] = row[<<v, u>>],
         torn'[{u, v}] = torn[{u, v}]
  PROVE  PairInv(u, v)'
<1>1. PairInv(u, v)
  BY DEF AgreeInv
<1>2. \A q \in Reqs : req'[q] = req[q] \/ (~WorksOn(q, u, v) /\ ~WorksOn(q, u, v)')
  BY DEF WorksOn
<1> QED
  BY <1>1, <1>2, Elsewhere

(* On the pair of a request that goes on or returns, AloneIsOnly stays.    *)
LEMMA StaysOnly ==
  ASSUME NEW r \in Reqs, Working(r), NEW u \in Users, NEW v \in Users, PairOf(r) = {u, v},
         PairInv(u, v),
         \A q \in Reqs : q # r => req'[q] = req[q],
         Working(r)' => req'[r].alone = req[r].alone
  PROVE  /\ AloneIsOnly(u, v)'
         /\ \A q \in Reqs : q # r => ~Alone(q, u, v)'
<1>1. WorksOn(r, u, v)
  BY DEF WorksOn
<1>2. \A q \in Reqs : q # r => (WorksOn(q, u, v)' <=> WorksOn(q, u, v))
  BY DEF WorksOn, Working, PairOf
<1>3. \A q \in Reqs : q # r /\ WorksOn(q, u, v) => ~req[q].alone /\ ~req[r].alone
  BY <1>1 DEF PairInv, AloneIsOnly
<1>4. AloneIsOnly(u, v)'
  <2> SUFFICES ASSUME NEW q \in Reqs, NEW o \in Reqs, WorksOn(q, u, v)', req'[q].alone,
                      WorksOn(o, u, v)', o # q
               PROVE  FALSE
    BY DEF AloneIsOnly
  <2>1. CASE q # r
    BY <1>2, <1>3, <2>1
  <2>2. CASE q = r
    <3>1. req[r].alone
      BY <2>2 DEF WorksOn
    <3> QED
      BY <1>2, <1>3, <2>2, <3>1
  <2> QED
    BY <2>1, <2>2
<1>5. ASSUME NEW q \in Reqs, q # r, Alone(q, u, v)' PROVE FALSE
  <2>1. WorksOn(q, u, v)' /\ req'[q].alone
    BY <1>5 DEF Alone, WorksOn, PairOf
  <2> QED
    BY <1>2, <1>3, <1>5, <2>1
<1> QED
  BY <1>4, <1>5

(* AcceptRelation reads the chain: if it is alone, both rows name it, or   *)
(* they differ already.                                                    *)
LEMMA CheckAgrees ==
  ASSUME TypeOK, AgreeInv, NEW r \in Reqs, Check(r), NEW u \in Users, NEW v \in Users
  PROVE  PairInv(u, v)'
<1>1. Working(r) /\ req[r] \in Calling({"accept"}, {None}, {"check"}) /\ UNCHANGED row
  BY RequestType DEF Check, Working, Idle
<1>2. PICK c \in Chains : /\ req' = [req EXCEPT ![r].chain = c, ![r].at = "own"]
                                \/ req' = [req EXCEPT ![r].chain = c, ![r].at = "insert"]
                          /\ \/ Chain(r) = c /\ UNCHANGED torn
                             \/ Chain(r) = None /\ UNCHANGED torn
                             \/ torn' = [torn EXCEPT ![PairOf(r)] = @ \cup {"chain"}]
  <2>1. CASE ReuseChain(r)
    <3>1. Chain(r) \in Chains
      BY <1>1, <2>1, RequestType DEF ReuseChain, Chain, TypeOK, Row
    <3> QED
      BY <2>1, <3>1 DEF ReuseChain
  <2>2. CASE DrawChain(r) /\ \/ Chain(r) = None /\ UNCHANGED torn
                             \/ torn' = [torn EXCEPT ![PairOf(r)] = @ \cup {"chain"}]
    BY <2>2 DEF DrawChain
  <2> QED
    BY <2>1, <2>2 DEF Check
<1>3. /\ req'[r].kind = "accept" /\ req'[r].user = req[r].user /\ req'[r].other = req[r].other
      /\ req'[r].alone = req[r].alone /\ req'[r].chain = c /\ req'[r].at \in {"own", "insert"}
      /\ Working(r)' /\ PairOf(r)' = PairOf(r)
      /\ \A q \in Reqs : q # r => req'[q] = req[q]
  BY <1>1, <1>2 DEF Calling, TypeOK, Working, Idle, PairOf
<1>4. PairOf(r) \in Pairs /\ {u, v} \in Pairs
  BY <1>1, PairType DEF Pairs
<1>5. CASE {u, v} # PairOf(r)
  <2>1. torn'[{u, v}] = torn[{u, v}]
    BY <1>2, <1>4, <1>5 DEF TypeOK
  <2> QED
    BY <1>1, <1>3, <1>5, <2>1, OtherPairs
<1>6. CASE {u, v} = PairOf(r)
  <2>1. PairInv(u, v) /\ WorksOn(r, u, v)
    BY <1>1, <1>6 DEF AgreeInv, WorksOn
  <2>2. AloneIsOnly(u, v)' /\ \A q \in Reqs : q # r => ~Alone(q, u, v)'
    BY <1>1, <1>3, <1>6, <2>1, StaysOnly
  <2>3. OwnIsWritten(u, v)'
    BY <1>3, <2>2 DEF OwnIsWritten
  <2>4. torn[{u, v}] \subseteq torn'[{u, v}]
    BY <1>2, <1>4, <1>6 DEF TypeOK
  <2>5. ASSUME NEW q \in Reqs, NEW col \in Columns, Parts(q, col, u, v)
        PROVE  Parts(q, col, u, v)'
    <3>1. CASE q # r
      BY <1>3, <2>5, <3>1 DEF Parts, WorksOn, Working, PairOf
    <3>2. CASE q = r
      <4>1. req[r].kind = "accept" /\ req[r].at = "check"
        BY <1>1 DEF Calling
      <4> QED
        BY <1>3, <1>6, <2>5, <3>2, <4>1 DEF Parts, WorksOn
    <3> QED
      BY <3>1, <3>2
  <2>6. ColumnsAgree(u, v)'
    BY <1>1, <2>1, <2>4, <2>5 DEF PairInv, ColumnsAgree, Agree
  <2>7. ASSUME req[r].alone, "chain" \notin torn'[{u, v}]
        PROVE  {row[<<u, v>>].chain, row[<<v, u>>].chain} \subseteq {None, c}
    <3>1. Chain(r) \in {c, None}
      <4>1. CASE torn' = [torn EXCEPT ![PairOf(r)] = @ \cup {"chain"}]
        <5>1. torn'[PairOf(r)] = torn[PairOf(r)] \cup {"chain"}
          BY <1>4, <4>1 DEF TypeOK
        <5>2. "chain" \in torn'[{u, v}]
          BY <1>6, <5>1
        <5> QED
          BY <2>7, <5>2
      <4> QED
        BY <1>2, <4>1
    <3>2. \A q \in Reqs : ~Parts(q, "chain", u, v)
      <4> SUFFICES ASSUME NEW q \in Reqs, Parts(q, "chain", u, v) PROVE FALSE
        OBVIOUS
      <4>1. q = r
        BY <2>1, <2>7 DEF Parts, PairInv, AloneIsOnly
      <4>2. req[r].at = "check"
        BY <1>1 DEF Calling
      <4> QED
        BY <2>7, <4>1, <4>2 DEF Parts
    <3>3. row[<<u, v>>].chain = row[<<v, u>>].chain
      BY <2>1, <2>4, <2>7, <3>2 DEF PairInv, ColumnsAgree, Agree, Columns
    <3>4. <<req[r].user, req[r].other>> \in {<<u, v>>, <<v, u>>}
      BY <1>6 DEF PairOf
    <3> QED
      BY <3>1, <3>3, <3>4 DEF Chain
  <2>8. ChainIsRead(u, v)'
    <3> SUFFICES ASSUME NEW q \in Reqs, Alone(q, u, v)', "chain" \notin torn'[{u, v}]
                 PROVE  {row'[<<u, v>>].chain, row'[<<v, u>>].chain} \subseteq {None, req'[q].chain}
      BY DEF ChainIsRead
    <3>1. q = r
      BY <2>2
    <3>2. req[r].alone
      BY <1>3, <3>1 DEF Alone
    <3> QED
      BY <1>1, <1>3, <2>7, <3>1, <3>2
  <2> QED
    BY <2>2, <2>3, <2>6, <2>8 DEF PairInv
<1> QED
  BY <1>5, <1>6

(* A chain is inserted: no row changes.                                    *)
LEMMA InsertAgrees ==
  ASSUME TypeOK, AgreeInv, NEW r \in Reqs, Insert(r), NEW u \in Users, NEW v \in Users
  PROVE  PairInv(u, v)'
<1>1. /\ Working(r) /\ req[r] \in Calling({"accept"}, Chains, {"insert", "own", "other"})
      /\ req[r].at = "insert" /\ UNCHANGED <<row, torn>>
  BY RequestType DEF Insert, Working, Idle
<1>2. req'[r] = [req[r] EXCEPT !.at = "own"] /\ \A q \in Reqs : q # r => req'[q] = req[q]
  BY DEF Insert, Goto, TypeOK
<1>3. /\ req'[r].kind = "accept" /\ req'[r].user = req[r].user /\ req'[r].other = req[r].other
      /\ req'[r].alone = req[r].alone /\ req'[r].chain = req[r].chain /\ req'[r].at = "own"
      /\ req[r].kind = "accept" /\ Working(r)' /\ PairOf(r)' = PairOf(r)
  BY <1>1, <1>2 DEF Calling, Working, Idle, PairOf
<1>4. CASE {u, v} # PairOf(r)
  BY <1>1, <1>2, <1>3, <1>4, OtherPairs
<1>5. CASE {u, v} = PairOf(r)
  <2>1. PairInv(u, v)
    BY DEF AgreeInv
  <2>2. AloneIsOnly(u, v)' /\ \A q \in Reqs : q # r => ~Alone(q, u, v)'
    BY <1>1, <1>2, <1>3, <1>5, <2>1, StaysOnly
  <2>3. OwnIsWritten(u, v)'
    BY <1>3, <2>2 DEF OwnIsWritten
  <2>4. ASSUME NEW q \in Reqs, NEW col \in Columns, Parts(q, col, u, v)
        PROVE  Parts(q, col, u, v)'
    <3>1. CASE q # r
      BY <1>2, <2>4, <3>1 DEF Parts, WorksOn, Working, PairOf
    <3>2. CASE q = r
      BY <1>1, <1>3, <1>5, <2>4, <3>2 DEF Parts, WorksOn
    <3> QED
      BY <3>1, <3>2
  <2>5. ColumnsAgree(u, v)'
    BY <1>1, <2>1, <2>4 DEF PairInv, ColumnsAgree, Agree
  <2>6. ChainIsRead(u, v)'
    <3> SUFFICES ASSUME NEW q \in Reqs, Alone(q, u, v)', "chain" \notin torn'[{u, v}]
                 PROVE  {row'[<<u, v>>].chain, row'[<<v, u>>].chain} \subseteq {None, req'[q].chain}
      BY DEF ChainIsRead
    <3>1. q = r
      BY <2>2
    <3>2. Alone(r, u, v)
      BY <1>1, <1>3, <3>1 DEF Alone
    <3> QED
      BY <1>1, <1>3, <2>1, <3>1, <3>2 DEF PairInv, ChainIsRead
  <2> QED
    BY <2>2, <2>3, <2>5, <2>6 DEF PairInv
<1> QED
  BY <1>4, <1>5

(* What an UPDATE leaves alone of a row, and that it sets the chain of an  *)
(* acceptance.                                                             *)
Keeps(old, new, kind, chain) ==
  /\ "active" \notin Writes(kind) => new.active = old.active /\ new.requested = old.requested
  /\ "friend" \notin Writes(kind) => new.friend = old.friend
  /\ kind # "accept" => new.chain = old.chain
  /\ kind = "accept" => new.chain = chain

LEMMA UpdateKeeps ==
  ASSUME NEW old \in Row, NEW kind \in Kinds, NEW chain
  PROVE  /\ Keeps(old, Updated(old, kind, chain, TRUE), kind, chain)
         /\ Keeps(old, Updated(old, kind, chain, FALSE), kind, chain)
         /\ Written(Updated(old, kind, chain, TRUE), kind, chain)
<1>1. CASE kind = "request"
  BY <1>1 DEF Updated, Row, Writes, Written, Keeps
<1>2. CASE kind = "accept"
  BY <1>2 DEF Updated, Row, Writes, Written, Keeps
<1>3. CASE kind = "remove"
  BY <1>3 DEF Updated, Row, Writes, Written, Keeps
<1> QED
  BY <1>1, <1>2, <1>3 DEF Kinds

(* A request that has written both rows leaves their columns in agreement. *)
AgreeIn(kind, own, new) ==
  /\ "active" \in Writes(kind) =>
       /\ own.active <=> new.active
       /\ own.active => (own.requested <=> ~new.requested)
  /\ "friend" \in Writes(kind) => (own.friend <=> new.friend)
  /\ "chain" \in Writes(kind) => own.chain = new.chain

LEMMA WrittenAgree ==
  ASSUME NEW own \in Row, NEW old \in Row, NEW kind \in Kinds, NEW chain, Written(own, kind, chain)
  PROVE  AgreeIn(kind, own, Updated(old, kind, chain, FALSE))
<1>1. CASE kind = "request"
  BY <1>1 DEF Updated, Row, Writes, Written, AgreeIn
<1>2. CASE kind = "accept"
  BY <1>2 DEF Updated, Row, Writes, Written, AgreeIn
<1>3. CASE kind = "remove"
  BY <1>3 DEF Updated, Row, Writes, Written, AgreeIn
<1> QED
  BY <1>1, <1>2, <1>3 DEF Kinds

(* A handler that returns clears the columns it wrote, or tears them.      *)
LEMMA ReturnTears ==
  ASSUME TypeOK, NEW r \in Reqs, Working(r), NEW ok \in BOOLEAN, Return(r, ok)
  PROVE  /\ \A q \in Reqs : q # r => req'[q] = req[q]
         /\ ~Working(r)'
         /\ \A p \in Pairs : p # PairOf(r) => torn'[p] = torn[p]
         /\ \A col : col \notin Writes(req[r].kind) =>
              (col \in torn'[PairOf(r)] <=> col \in torn[PairOf(r)])
         /\ (ok /\ req[r].alone) \/ Writes(req[r].kind) \subseteq torn'[PairOf(r)]
<1>1. PairOf(r) \in Pairs
  BY PairType
<1> QED
  BY <1>1 DEF Return, TypeOK, Working, Idle

(* On the pair of a request that writes one of its rows, or none, and then *)
(* goes on or returns: columns it does not write agree as before.          *)
LEMMA OwnPair ==
  ASSUME TypeOK, AgreeInv, NEW r \in Reqs, Working(r),
         NEW u \in Users, NEW v \in Users, PairOf(r) = {u, v},
         \A q \in Reqs : q # r => req'[q] = req[q],
         \A col \in Columns \ Writes(req[r].kind) :
           /\ col \in torn[{u, v}] => col \in torn'[{u, v}]
           /\ Agree(col, u, v) => Agree(col, u, v)',
         u # v => \A col \in Writes(req[r].kind) :
           \/ col \in torn'[{u, v}]
           \/ Agree(col, u, v)'
           \/ Parts(r, col, u, v)'
  PROVE  ColumnsAgree(u, v)'
<1>1. PairInv(u, v)
  BY DEF AgreeInv
<1>2. ASSUME NEW q \in Reqs, NEW col \in Columns \ Writes(req[r].kind), Parts(q, col, u, v)
      PROVE  Parts(q, col, u, v)'
  <2>1. q # r
    BY <1>2 DEF Parts
  <2> QED
    BY <1>2, <2>1 DEF Parts, WorksOn, Working, PairOf
<1> SUFFICES ASSUME u # v, NEW col \in Columns
             PROVE  \/ col \in torn'[{u, v}]
                    \/ Agree(col, u, v)'
                    \/ \E q \in Reqs : Parts(q, col, u, v)'
  BY DEF ColumnsAgree
<1>3. CASE col \in Writes(req[r].kind)
  BY <1>3
<1>4. CASE col \notin Writes(req[r].kind)
  BY <1>1, <1>2, <1>4 DEF PairInv, ColumnsAgree
<1> QED
  BY <1>3, <1>4

(* A request that returns is alone no more, and nobody else is.            *)
LEMMA ReturnAlone ==
  ASSUME TypeOK, AgreeInv, NEW r \in Reqs, Working(r), NEW ok \in BOOLEAN, Return(r, ok),
         NEW u \in Users, NEW v \in Users, PairOf(r) = {u, v}, ColumnsAgree(u, v)'
  PROVE  PairInv(u, v)'
<1>1. (\A q \in Reqs : q # r => req'[q] = req[q]) /\ ~Working(r)'
  BY ReturnTears
<1>2. PairInv(u, v)
  BY DEF AgreeInv
<1>3. AloneIsOnly(u, v)' /\ \A q \in Reqs : q # r => ~Alone(q, u, v)'
  BY <1>1, <1>2, StaysOnly
<1>4. \A q \in Reqs : ~Alone(q, u, v)'
  BY <1>1, <1>3 DEF Alone
<1> QED
  BY <1>3, <1>4 DEF PairInv, OwnIsWritten, ChainIsRead

(* A request that fails tears the columns it writes.                       *)
LEMMA FailAgrees ==
  ASSUME TypeOK, AgreeInv, NEW r \in Reqs, Fail(r), NEW u \in Users, NEW v \in Users
  PROVE  PairInv(u, v)'
<1>1. Working(r) /\ Return(r, FALSE) /\ UNCHANGED row
  BY DEF Fail
<1>2. CASE {u, v} # PairOf(r)
  <2>1. torn'[{u, v}] = torn[{u, v}] /\ ~Working(r)' /\ \A q \in Reqs : q # r => req'[q] = req[q]
    <3>1. {u, v} \in Pairs
      BY DEF Pairs
    <3> QED
      BY <1>1, <1>2, <3>1, ReturnTears
  <2> QED
    BY <1>1, <1>2, <2>1, OtherPairs
<1>3. CASE {u, v} = PairOf(r)
  <2>1. \A col \in Columns : Agree(col, u, v) => Agree(col, u, v)'
    BY <1>1 DEF Agree
  <2>2. ColumnsAgree(u, v)'
    BY <1>1, <1>3, <2>1, ReturnTears, OwnPair
  <2> QED
    BY <1>1, <1>3, <2>2, ReturnAlone
<1> QED
  BY <1>2, <1>3

(* A request updates its user's row.                                       *)
LEMMA UpdateOwnAgrees ==
  ASSUME TypeOK, AgreeInv, NEW r \in Reqs, UpdateOwn(r), NEW u \in Users, NEW v \in Users
  PROVE  PairInv(u, v)'
<1>1. /\ Working(r) /\ req[r].at = "own" /\ req[r] \in Request
      /\ {u, v} \in Pairs /\ PairOf(r) \in Pairs
  BY RequestType, PairType DEF UpdateOwn, Working, Idle, Pairs
<1>2. PICK p \in Users \X Users : p = <<req[r].user, req[r].other>>
  BY <1>1, RequestType
<1>3. /\ row'[p] = Updated(row[p], req[r].kind, req[r].chain, TRUE) /\ row[p] \in Row
      /\ req[r].kind \in Kinds
      /\ \A o \in Users \X Users : o # p => row'[o] = row[o]
  BY <1>1, <1>2, RequestType DEF UpdateOwn, UpdateRow, TypeOK
<1>4. \/ Goto(r, "other") /\ UNCHANGED torn
      \/ Return(r, FALSE)
  BY DEF UpdateOwn
<1>5. /\ \A q \in Reqs : q # r => req'[q] = req[q]
      /\ Working(r)' => /\ PairOf(r)' = PairOf(r) /\ req'[r].user = req[r].user
                        /\ req'[r].other = req[r].other /\ req'[r].kind = req[r].kind
                        /\ req'[r].alone = req[r].alone /\ req'[r].chain = req[r].chain
                        /\ req'[r].at = "other" /\ UNCHANGED torn
  <2>1. CASE Goto(r, "other") /\ UNCHANGED torn
    <3>1. req'[r] = [req[r] EXCEPT !.at = "other"] /\ \A q \in Reqs : q # r => req'[q] = req[q]
      BY <2>1 DEF Goto, TypeOK
    <3> QED
      BY <1>1, <2>1, <3>1 DEF Request, Calling, PairOf
  <2>2. CASE Return(r, FALSE)
    BY <1>1, <2>2, ReturnTears
  <2> QED
    BY <1>4, <2>1, <2>2
<1>6. CASE {u, v} # PairOf(r)
  <2>1. row'[<<u, v>>] = row[<<u, v>>] /\ row'[<<v, u>>] = row[<<v, u>>]
    BY <1>2, <1>3, <1>6 DEF PairOf
  <2>2. torn'[{u, v}] = torn[{u, v}]
    BY <1>1, <1>4, <1>6, ReturnTears
  <2> QED
    BY <1>1, <1>5, <1>6, <2>1, <2>2, OtherPairs
<1>7. CASE {u, v} = PairOf(r)
  <2>1. \/ u = req[r].user /\ v = req[r].other
        \/ v = req[r].user /\ u = req[r].other
    BY <1>7 DEF PairOf
  <2>2. /\ "active" \notin Writes(req[r].kind) =>
             row'[p].active = row[p].active /\ row'[p].requested = row[p].requested
        /\ "friend" \notin Writes(req[r].kind) => row'[p].friend = row[p].friend
        /\ "chain" \notin Writes(req[r].kind) => row'[p].chain = row[p].chain
        /\ req[r].kind = "accept" => row'[p].chain = req[r].chain
        /\ Written(row'[p], req[r].kind, req[r].chain)
    <3>1. "chain" \in Writes("accept")
      BY DEF Writes
    <3>2. Keeps(row[p], row'[p], req[r].kind, req[r].chain)
      BY <1>3, UpdateKeeps
    <3>3. Written(row'[p], req[r].kind, req[r].chain)
      BY <1>3, UpdateKeeps
    <3> QED
      BY <3>1, <3>2, <3>3 DEF Keeps
  <2>3. p \in {<<u, v>>, <<v, u>>}
    BY <1>2, <2>1
  <2>4. ASSUME NEW col \in Columns \ Writes(req[r].kind), Agree(col, u, v)
        PROVE  Agree(col, u, v)'
    <3>1. CASE col = "active"
      BY <1>3, <2>2, <2>3, <2>4, <3>1 DEF Agree
    <3>2. CASE col = "friend"
      BY <1>3, <2>2, <2>3, <2>4, <3>2 DEF Agree
    <3>3. CASE col = "chain"
      BY <1>3, <2>2, <2>3, <2>4, <3>3 DEF Agree
    <3> QED
      BY <2>4, <3>1, <3>2, <3>3 DEF Columns
  <2>5. ASSUME NEW col \in Columns \ Writes(req[r].kind), col \in torn[{u, v}]
        PROVE  col \in torn'[{u, v}]
    BY <1>1, <1>4, <1>7, <2>5, ReturnTears
  <2>6. ASSUME NEW col \in Writes(req[r].kind)
        PROVE  col \in torn'[{u, v}] \/ Parts(r, col, u, v)'
    <3>1. CASE Return(r, FALSE)
      BY <1>1, <1>7, <2>6, <3>1, ReturnTears
    <3>2. CASE Goto(r, "other")
      <4>1. Working(r)'
        <5>1. req'[r] = [req[r] EXCEPT !.at = "other"]
          BY <3>2 DEF Goto, TypeOK
        <5>2. req'[r].at = "other"
          BY <1>1, <5>1 DEF Request, Calling
        <5> QED
          BY <5>2 DEF Working, Idle
      <4> QED
        BY <1>5, <1>7, <2>6, <4>1 DEF Parts, WorksOn
    <3> QED
      BY <1>4, <3>1, <3>2
  <2>7. ColumnsAgree(u, v)'
    BY <1>1, <1>5, <1>7, <2>4, <2>5, <2>6, OwnPair
  <2>8. CASE Return(r, FALSE)
    BY <1>1, <1>7, <2>7, <2>8, ReturnAlone
  <2>9. CASE Working(r)'
    <3>1. PairInv(u, v)
      BY DEF AgreeInv
    <3>2. AloneIsOnly(u, v)' /\ \A q \in Reqs : q # r => ~Alone(q, u, v)'
      BY <1>1, <1>5, <1>7, <3>1, StaysOnly
    <3>3. Alone(r, u, v)' => Alone(r, u, v) /\ p = <<u, v>>
      BY <1>1, <1>2, <1>5, <2>9 DEF Alone
    <3>4. OwnIsWritten(u, v)'
      BY <1>5, <2>2, <2>9, <3>2, <3>3 DEF OwnIsWritten
    <3>5. ASSUME Alone(r, u, v)', req'[r].kind = "accept", "chain" \notin torn'[{u, v}]
          PROVE  {row'[<<u, v>>].chain, row'[<<v, u>>].chain} \subseteq {None, req[r].chain}
      <4>1. {row[<<u, v>>].chain, row[<<v, u>>].chain} \subseteq {None, req[r].chain}
        BY <1>1, <1>5, <2>9, <3>1, <3>3, <3>5 DEF PairInv, ChainIsRead
      <4>2. row'[<<u, v>>].chain = req[r].chain
        BY <1>5, <2>2, <2>9, <3>3, <3>5
      <4>3. CASE u = v
        BY <4>2, <4>3
      <4>4. CASE u # v
        <5>1. row'[<<v, u>>] = row[<<v, u>>]
          BY <1>3, <3>3, <3>5, <4>4
        <5> QED
          BY <4>1, <4>2, <5>1
      <4> QED
        BY <4>3, <4>4
    <3>6. ChainIsRead(u, v)'
      BY <1>5, <2>9, <3>2, <3>5 DEF ChainIsRead
    <3> QED
      BY <2>7, <3>2, <3>4, <3>6 DEF PairInv
  <2>10. Goto(r, "other") => Working(r)'
    <3> SUFFICES ASSUME Goto(r, "other") PROVE req'[r].at = "other"
      BY DEF Working, Idle
    <3>1. req'[r] = [req[r] EXCEPT !.at = "other"]
      BY DEF Goto, TypeOK
    <3> QED
      BY <1>1, <3>1 DEF Request, Calling
  <2> QED
    BY <1>4, <2>8, <2>9, <2>10
<1> QED
  BY <1>6, <1>7

(* A request updates the row of its user's relation and returns.           *)
LEMMA UpdateOtherAgrees ==
  ASSUME TypeOK, AgreeInv, NEW r \in Reqs, UpdateOther(r), NEW u \in Users, NEW v \in Users
  PROVE  PairInv(u, v)'
<1>1. /\ Working(r) /\ req[r].at = "other" /\ req[r] \in Request
      /\ {u, v} \in Pairs /\ PairOf(r) \in Pairs
  BY RequestType, PairType DEF UpdateOther, Working, Idle, Pairs
<1>2. PICK p \in Users \X Users : p = <<req[r].other, req[r].user>>
  BY <1>1, RequestType
<1>3. /\ row'[p] = Updated(row[p], req[r].kind, req[r].chain, FALSE) /\ row[p] \in Row
      /\ req[r].kind \in Kinds
      /\ \A o \in Users \X Users : o # p => row'[o] = row[o]
  BY <1>1, <1>2, RequestType DEF UpdateOther, UpdateRow, TypeOK
<1>4. PICK ok \in BOOLEAN : Return(r, ok)
  BY DEF UpdateOther
<1>5. /\ \A q \in Reqs : q # r => req'[q] = req[q]
      /\ ~Working(r)'
  BY <1>1, <1>4, ReturnTears
<1>6. CASE {u, v} # PairOf(r)
  <2>1. row'[<<u, v>>] = row[<<u, v>>] /\ row'[<<v, u>>] = row[<<v, u>>]
    BY <1>2, <1>3, <1>6 DEF PairOf
  <2>2. torn'[{u, v}] = torn[{u, v}]
    BY <1>1, <1>4, <1>6, ReturnTears
  <2> QED
    BY <1>1, <1>5, <1>6, <2>1, <2>2, OtherPairs
<1>7. CASE {u, v} = PairOf(r)
  <2>1. \/ u = req[r].user /\ v = req[r].other
        \/ v = req[r].user /\ u = req[r].other
    BY <1>7 DEF PairOf
  <2>2. /\ "active" \notin Writes(req[r].kind) =>
             row'[p].active = row[p].active /\ row'[p].requested = row[p].requested
        /\ "friend" \notin Writes(req[r].kind) => row'[p].friend = row[p].friend
        /\ "chain" \notin Writes(req[r].kind) => row'[p].chain = row[p].chain
    <3>1. "chain" \in Writes("accept")
      BY DEF Writes
    <3>2. Keeps(row[p], row'[p], req[r].kind, req[r].chain)
      BY <1>3, UpdateKeeps
    <3> QED
      BY <3>1, <3>2 DEF Keeps
  <2>3. p \in {<<u, v>>, <<v, u>>}
    BY <1>2, <2>1
  <2>4. ASSUME NEW col \in Columns \ Writes(req[r].kind), Agree(col, u, v)
        PROVE  Agree(col, u, v)'
    <3>1. CASE col = "active"
      BY <1>3, <2>2, <2>3, <2>4, <3>1 DEF Agree
    <3>2. CASE col = "friend"
      BY <1>3, <2>2, <2>3, <2>4, <3>2 DEF Agree
    <3>3. CASE col = "chain"
      BY <1>3, <2>2, <2>3, <2>4, <3>3 DEF Agree
    <3> QED
      BY <2>4, <3>1, <3>2, <3>3 DEF Columns
  <2>5. ASSUME NEW col \in Columns \ Writes(req[r].kind), col \in torn[{u, v}]
        PROVE  col \in torn'[{u, v}]
    BY <1>1, <1>4, <1>7, <2>5, ReturnTears
  <2>6. ASSUME u # v, NEW col \in Writes(req[r].kind)
        PROVE  col \in torn'[{u, v}] \/ Agree(col, u, v)'
    <3>1. CASE ~(ok /\ req[r].alone)
      BY <1>1, <1>4, <1>7, <2>6, <3>1, ReturnTears
    <3>2. CASE ok /\ req[r].alone
      <4>1. PICK x \in Users, y \in Users :
              /\ x = req[r].user /\ y = req[r].other /\ x # y
              /\ <<x, y>> \in {<<u, v>>, <<v, u>>} /\ <<y, x>> \in {<<u, v>>, <<v, u>>}
        BY <2>1, <2>6
      <4>2. OwnIsWritten(x, y) /\ Alone(r, x, y)
        BY <1>1, <3>2, <4>1 DEF AgreeInv, PairInv, Alone
      <4>3. Written(row[<<x, y>>], req[r].kind, req[r].chain)
        BY <1>1, <4>2 DEF OwnIsWritten
      <4>4. row'[<<x, y>>] = row[<<x, y>>] /\ row[<<x, y>>] \in Row
        BY <1>2, <1>3, <4>1 DEF TypeOK
      <4>5. /\ "active" \in Writes(req[r].kind) =>
                 /\ row'[<<x, y>>].active <=> row'[<<y, x>>].active
                 /\ row'[<<x, y>>].active => (row'[<<x, y>>].requested <=> ~row'[<<y, x>>].requested)
            /\ "friend" \in Writes(req[r].kind) => (row'[<<x, y>>].friend <=> row'[<<y, x>>].friend)
            /\ "chain" \in Writes(req[r].kind) => row'[<<x, y>>].chain = row'[<<y, x>>].chain
        <5>1. p = <<y, x>>
          BY <1>2, <4>1
        <5>2. AgreeIn(req[r].kind, row[<<x, y>>], row'[p])
          BY <1>3, <4>3, <4>4, WrittenAgree
        <5> QED
          BY <4>4, <5>1, <5>2 DEF AgreeIn
      <4>6. CASE x = u /\ y = v
        BY <2>6, <4>5, <4>6 DEF Agree
      <4>7. CASE x = v /\ y = u
        <5>1. CASE col = "active"
          BY <2>6, <4>5, <4>7, <5>1 DEF Agree
        <5>2. CASE col # "active"
          BY <2>6, <4>5, <4>7, <5>2 DEF Agree
        <5> QED
          BY <5>1, <5>2
      <4> QED
        BY <4>1, <4>6, <4>7
    <3> QED
      BY <3>1, <3>2
  <2>7. ColumnsAgree(u, v)'
    BY <1>1, <1>5, <1>7, <2>4, <2>5, <2>6, OwnPair
  <2> QED
    BY <1>1, <1>4, <1>7, <2>7, ReturnAlone
<1> QED
  BY <1>6, <1>7

(* Every step keeps the invariant of every pair.                           *)
LEMMA AgreeInvariant == Spec => []AgreeInv
<1>1. Init => AgreeInv
  BY DEF Init, AgreeInv, PairInv, AloneIsOnly, OwnIsWritten, ColumnsAgree, ChainIsRead, Agree,
         Alone, WorksOn, Working, NewRow
<1>2. TypeOK /\ AgreeInv /\ [Next]_vars => AgreeInv'
  <2> SUFFICES ASSUME TypeOK, AgreeInv, [Next]_vars, NEW u \in Users, NEW v \in Users
               PROVE  PairInv(u, v)'
    BY DEF AgreeInv
  <2>1. CASE UNCHANGED vars
    BY <2>1, Elsewhere DEF vars, AgreeInv
  <2>2. CASE Next
    <3>1. PICK r \in Reqs :
            \/ \E kind \in Kinds, call \in Calls : Start(r, kind, call[1], call[2])
            \/ Check(r) \/ Insert(r) \/ UpdateOwn(r) \/ UpdateOther(r) \/ Fail(r)
      BY <2>2 DEF Next
    <3>2. ASSUME NEW kind \in Kinds, NEW call \in Calls, Start(r, kind, call[1], call[2])
          PROVE  PairInv(u, v)'
      <4>1. call[1] \in Users /\ call[2] \in Users
        BY ConstantsAssumption
      <4> QED
        BY <3>2, <4>1, StartAgrees
    <3> QED
      BY <3>1, <3>2, CheckAgrees, InsertAgrees, UpdateOwnAgrees, UpdateOtherAgrees, FailAgrees
  <2> QED
    BY <2>1, <2>2
<1> QED
  BY <1>1, <1>2, TypeCorrect, PTL DEF Spec

(* While no request of two users is served, they are shown the same of     *)
(* each other and write to the same chain, except in what a failed or      *)
(* overlapping request was the last to write: the two updates of a handler *)
(* (relation.services.go:70-90, 123-133, 181-198) write all columns that   *)
(* an earlier one may have left unequal.                                   *)
THEOREM RelationsAgreeCorrect == Spec => []RelationsAgree
<1>1. TypeOK /\ AgreeInv => RelationsAgree
  <2> SUFFICES ASSUME TypeOK, AgreeInv, NEW u \in Users, NEW v \in Users, u # v,
                      \A r \in Reqs : ~WorksOn(r, u, v)
               PROVE  /\ "active" \notin torn[{u, v}] /\ "friend" \notin torn[{u, v}] =>
                           /\ v \in Friends(u) <=> u \in Friends(v)
                           /\ v \in Requested(u) <=> u \in Requests(v)
                      /\ "chain" \notin torn[{u, v}] => row[<<u, v>>].chain = row[<<v, u>>].chain
    BY DEF RelationsAgree
  <2>1. \A col \in Columns : col \in torn[{u, v}] \/ Agree(col, u, v)
    BY DEF AgreeInv, PairInv, ColumnsAgree, Parts
  <2>2. "chain" \notin torn[{u, v}] => row[<<u, v>>].chain = row[<<v, u>>].chain
    BY <2>1 DEF Columns, Agree
  <2>3. ASSUME "active" \notin torn[{u, v}], "friend" \notin torn[{u, v}]
        PROVE  /\ v \in Friends(u) <=> u \in Friends(v)
               /\ v \in Requested(u) <=> u \in Requests(v)
    <3>1. /\ row[<<u, v>>].active <=> row[<<v, u>>].active
          /\ row[<<u, v>>].active => (row[<<u, v>>].requested <=> ~row[<<v, u>>].requested)
          /\ row[<<u, v>>].friend <=> row[<<v, u>>].friend
      BY <2>1, <2>3 DEF Columns, Agree
    <3>2. v \in Friends(u) <=> u \in Friends(v)
      BY <3>1 DEF Friends, Active
    <3>3. v \in Requested(u) <=> u \in Requests(v)
      BY <3>1 DEF Requested, Requests, Active
    <3> QED
      BY <3>2, <3>3
  <2> QED
    BY <2>2, <2>3
<1> QED
  BY <1>1, AgreeInvariant, TypeCorrect, PTL

(* The chain that a row names is replaced only where an acceptance or its  *)
(* reading of the chain failed before, or while two requests overlap: an   *)
(* AcceptRelation that is alone writes the chain that it has read          *)
(* (relation.services.go:113-133).                                         *)
THEOREM ChainKeptCorrect == Spec => ChainKept
<1> DEFINE KeepsChain ==
      \A u, v \in Users :
        row[<<u, v>>].chain # None /\ row[<<u, v>>].chain # row'[<<u, v>>].chain =>
          \/ "chain" \in torn[{u, v}]
          \/ \E r \in Reqs : WorksOn(r, u, v) /\ ~req[r].alone
<1>1. TypeOK /\ AgreeInv /\ [Next]_vars => [KeepsChain]_vars
  <2> SUFFICES ASSUME TypeOK, AgreeInv, Next, NEW u \in Users, NEW v \in Users,
                      row[<<u, v>>].chain # None, row[<<u, v>>].chain # row'[<<u, v>>].chain,
                      "chain" \notin torn[{u, v}]
               PROVE  \E r \in Reqs : WorksOn(r, u, v) /\ ~req[r].alone
    OBVIOUS
  <2>1. PICK r \in Reqs : UpdateOwn(r) \/ UpdateOther(r)
    BY DEF Next, Start, Check, Insert, Fail
  <2>2. Working(r) /\ req[r].at \in {"own", "other"}
    <3>1. CASE UpdateOwn(r)
      BY <3>1 DEF UpdateOwn, Working, Idle
    <3>2. CASE UpdateOther(r)
      BY <3>2 DEF UpdateOther, Working, Idle
    <3> QED
      BY <2>1, <3>1, <3>2
  <2>3. req[r].kind \in Kinds /\ req[r].user \in Users /\ req[r].other \in Users
    BY <2>2, RequestType
  <2>4. PICK p \in Users \X Users :
          /\ p \in {<<req[r].user, req[r].other>>, <<req[r].other, req[r].user>>}
          /\ UpdateRow(r, p, TRUE) \/ UpdateRow(r, p, FALSE)
    <3>1. CASE UpdateOwn(r)
      BY <2>3, <3>1 DEF UpdateOwn
    <3>2. CASE UpdateOther(r)
      BY <2>3, <3>2 DEF UpdateOther
    <3> QED
      BY <2>1, <3>1, <3>2
  <2>5. \A o \in Users \X Users : o # p => row'[o] = row[o]
    BY <2>4 DEF UpdateRow, TypeOK
  <2>6. p = <<u, v>> /\ Keeps(row[p], row'[p], req[r].kind, req[r].chain)
    <3>1. p = <<u, v>>
      BY <2>5
    <3>2. row[p] \in Row
      BY DEF TypeOK
    <3>3. CASE UpdateRow(r, p, TRUE)
      <4>1. row'[p] = Updated(row[p], req[r].kind, req[r].chain, TRUE)
        BY <3>3 DEF UpdateRow, TypeOK
      <4> QED
        BY <2>3, <3>1, <3>2, <4>1, UpdateKeeps
    <3>4. CASE UpdateRow(r, p, FALSE)
      <4>1. row'[p] = Updated(row[p], req[r].kind, req[r].chain, FALSE)
        BY <3>4 DEF UpdateRow, TypeOK
      <4> QED
        BY <2>3, <3>1, <3>2, <4>1, UpdateKeeps
    <3> QED
      BY <2>4, <3>3, <3>4
  <2>7. WorksOn(r, u, v)
    BY <2>2, <2>4, <2>6 DEF WorksOn, PairOf
  <2>8. req[r].kind = "accept" /\ row'[<<u, v>>].chain = req[r].chain
    BY <2>6 DEF Keeps
  <2>9. ASSUME req[r].alone PROVE FALSE
    <3>1. Alone(r, u, v) \/ Alone(r, v, u)
      BY <2>2, <2>4, <2>6, <2>9 DEF Alone
    <3>2. {u, v} = {v, u}
      OBVIOUS
    <3>3. row[<<u, v>>].chain \in {None, req[r].chain}
      BY <2>2, <2>8, <3>1, <3>2 DEF AgreeInv, PairInv, ChainIsRead
    <3> QED
      BY <2>8, <3>3
  <2> QED
    BY <2>7, <2>9
<1> QED
  BY <1>1, AgreeInvariant, TypeCorrect, PTL DEF Spec, ChainKept
==============================================================================
