----------------------------- MODULE TokensProofs -----------------------------
(***************************************************************************)
(* Proofs about Tokens, for any sessions, requests and lifetimes.          *)
(***************************************************************************)
EXTENDS Tokens, TLAPS

-----------------------------------------------------------------------------
(* Types.                                                                  *)

(* What a request is at each of its steps.                                 *)
LEMMA RequestType ==
  ASSUME TypeOK, NEW r \in Reqs
  PROVE  /\ At(r, "lookup") => req[r] \in Looking
         /\ At(r, "exec") \/ At(r, "answer") => req[r] \in Issuing
BY DEF TypeOK, At, Idle, Looking, Issuing

LEMMA IssuingType ==
  ASSUME TypeOK, NEW r \in Reqs, At(r, "exec") \/ At(r, "answer")
  PROVE  /\ req[r].session \in Sessions /\ req[r].alone \in BOOLEAN
         /\ req[r].token \in Token /\ req[r].token.refresh \in Nat
BY RequestType DEF Issuing, Token

(* Whole seconds are ticks, in the order of the times they are cut from.   *)
LEMMA WholeType == ASSUME NEW t \in Nat PROVE Whole(t) \in Nat
<1>1. t \div Second \in Nat
  BY ConstantsAssumption
<1> QED
  BY <1>1, ConstantsAssumption DEF Whole

LEMMA WholeOrder ==
  ASSUME NEW t \in Nat, NEW u \in Nat, t <= u
  PROVE  Whole(t) <= Whole(u)
<1> DEFINE a == t \div Second
           b == u \div Second
<1>1. a \in Nat /\ b \in Nat /\ a <= b
  BY ConstantsAssumption
<1>2. ASSUME NEW x \in Nat, NEW y \in Nat, x <= y PROVE Second * x <= Second * y
  BY <1>2, ConstantsAssumption
<1>3. Second * a <= Second * b
  <2> HIDE DEF a, b
  <2> QED
    BY <1>1, <1>2
<1> QED
  BY <1>3 DEF Whole

LEMMA NewTokenType ==
  ASSUME TypeOK
  PROVE  NewToken \in Token /\ NewToken.refresh = now + RefreshTTL
<1>1. Whole(now + AccessTTL) \in Nat
  BY WholeType, ConstantsAssumption DEF TypeOK
<1> QED
  BY <1>1, ConstantsAssumption DEF TypeOK, NewToken, Token

(* What ExpireAt leaves of an entry.                                       *)
LEMMA KeptType ==
  ASSUME TypeOK, NEW r \in Reqs, At(r, "exec")
  PROVE  /\ req[r].token.refresh \in Nat /\ Whole(req[r].token.refresh) \in Nat
         /\ Kept(Whole(req[r].token.refresh)) \in Nat \cup {None}
BY IssuingType, WholeType DEF Kept

(* Issuing leaves the requests well typed.                                 *)
LEMMA IssueType ==
  ASSUME TypeOK, NEW r \in Reqs, NEW s \in Sessions, Issue(r, s)
  PROVE  /\ req' \in [Reqs -> Looking \cup Issuing \cup {Idle}]
         /\ overlapped' \subseteq Sessions
<1>1. ASSUME NEW q \in Reqs PROVE req'[q] \in Looking \cup Issuing \cup {Idle}
  <2>1. CASE q = r
    <3>1. req'[q] = [at |-> "exec", session |-> s, token |-> NewToken,
                     alone |-> Writing(s) = {}]
      BY <2>1 DEF Issue
    <3>2. (Writing(s) = {}) \in BOOLEAN
      OBVIOUS
    <3> QED
      BY <3>1, <3>2, NewTokenType DEF Issuing
  <2>2. CASE q # r /\ q \in Writing(s)
    <3>1. req'[q] = [req[q] EXCEPT !.alone = FALSE] /\ req[q] \in Issuing
      BY <2>2, RequestType DEF Issue, Writing
    <3> QED
      BY <3>1 DEF Issuing
  <2>3. CASE q # r /\ q \notin Writing(s)
    BY <2>3 DEF Issue, TypeOK
  <2> QED
    BY <2>1, <2>2, <2>3
<1> QED
  BY <1>1 DEF Issue, TypeOK

(* Every reachable state is well typed.                                    *)
THEOREM TypeCorrect == Spec => []TypeOK
<1>1. Init => TypeOK
  BY DEF Init, TypeOK
<1>2. TypeOK /\ [Next]_vars => TypeOK'
  <2> SUFFICES ASSUME TypeOK, [Next]_vars PROVE TypeOK'
    OBVIOUS
  <2>1. CASE UNCHANGED vars
    BY <2>1 DEF vars, TypeOK
  <2>2. CASE Tick
    BY <2>2 DEF Tick, TypeOK
  <2>3. ASSUME NEW r \in Reqs, NEW s \in Sessions, Login(r, s) PROVE TypeOK'
    BY <2>3, IssueType DEF Login, TypeOK
  <2>4. ASSUME NEW r \in Reqs, NEW s \in Sessions, NEW refresh \in BOOLEAN,
               Authenticate(r, s, refresh)
        PROVE  TypeOK'
    <3>1. [at |-> "lookup", session |-> s, refresh |-> refresh] \in Looking
      BY DEF Looking
    <3> QED
      BY <2>4, <3>1 DEF Authenticate, Goto, TypeOK
  <2>5. ASSUME NEW r \in Reqs, Lookup(r) PROVE TypeOK'
    <3>1. req[r].session \in Sessions
      BY <2>5, RequestType DEF Lookup, Looking
    <3>2. CASE Issue(r, req[r].session)
      BY <2>5, <3>1, <3>2, IssueType DEF Lookup, TypeOK
    <3>3. CASE Goto(r, Idle) /\ UNCHANGED overlapped
      BY <2>5, <3>3 DEF Lookup, Goto, TypeOK
    <3> QED
      BY <2>5, <3>2, <3>3 DEF Lookup
  <2>6. ASSUME NEW r \in Reqs, Refuse(r) PROVE TypeOK'
    BY <2>6 DEF Refuse, Goto, TypeOK
  <2>7. ASSUME NEW r \in Reqs, Exec(r) PROVE TypeOK'
    <3>1. req[r] \in Issuing
      BY <2>7, RequestType DEF Exec
    <3>2. [req[r] EXCEPT !.at = "answer"] \in Issuing
      BY <3>1 DEF Issuing
    <3>3. entry' \in [Sessions -> Nat \cup {None, Never}]
      BY <2>7, KeptType DEF Exec, ExpireAt, SetTo, TypeOK
    <3> QED
      BY <2>7, <3>2, <3>3 DEF Exec, Goto, TypeOK
  <2>8. ASSUME NEW r \in Reqs, ExecFails(r) PROVE TypeOK'
    <3>1. entry' \in [Sessions -> Nat \cup {None, Never}]
      BY <2>8, KeptType DEF ExecFails, ExpireAt, HSet, SetTo, TypeOK
    <3> QED
      BY <2>8, <3>1 DEF ExecFails, Goto, TypeOK
  <2>9. ASSUME NEW r \in Reqs, Answer(r) PROVE TypeOK'
    BY <2>9, IssuingType DEF Answer, Goto, TypeOK
  <2>10. ASSUME NEW r \in Reqs, AnswerLost(r) PROVE TypeOK'
    BY <2>10 DEF AnswerLost, Goto, TypeOK
  <2> QED
    BY <2>1, <2>2, <2>3, <2>4, <2>5, <2>6, <2>7, <2>8, <2>9, <2>10 DEF Next
<1> QED
  BY <1>1, <1>2, PTL DEF Spec

-----------------------------------------------------------------------------
(* HeldTokensWork needs to know when tokens were made: none expires later  *)
(* than tokens made now would, and the request that alone renews those of  *)
(* a session has made the latest.                                          *)

(* A session's tokens that expire at t are held, or on their way.          *)
IsGiven(s, t) ==
  \/ held[s] # None /\ t = held[s].refresh
  \/ \E r \in Reqs : At(r, "answer") /\ req[r].session = s /\ t = req[r].token.refresh

(* There is an entry of the session that lasts until the second of t.      *)
Covers(s, t) ==
  \/ entry[s] = Never
  \/ entry[s] \in Nat /\ Whole(t) <= entry[s]
  \/ Whole(t) <= now

GivenBefore == \A s \in Sessions : \A t : IsGiven(s, t) => t \in Nat /\ t <= now + RefreshTTL
MadeBefore == \A r \in Reqs : At(r, "exec") => req[r].token.refresh <= now + RefreshTTL
AloneIsOnly ==
  \A r, q \in Reqs :
    At(r, "exec") /\ req[r].alone /\ At(q, "exec") /\ req[q].session = req[r].session => q = r
AloneIsLatest ==
  \A r \in Reqs : At(r, "exec") /\ req[r].alone =>
    \A t : IsGiven(req[r].session, t) => t <= req[r].token.refresh
OverlapsAreNoted ==
  \A r \in Reqs : At(r, "exec") /\ req[r].session \notin overlapped => req[r].alone
EntriesCover ==
  \A s \in Sessions \ overlapped : \A t : IsGiven(s, t) => Covers(s, t)

EntryInv ==
  /\ GivenBefore
  /\ MadeBefore
  /\ AloneIsOnly
  /\ AloneIsLatest
  /\ OverlapsAreNoted
  /\ EntriesCover

(* What is given was made by somebody, and its time is a number.           *)
LEMMA GivenType ==
  ASSUME TypeOK, NEW s \in Sessions, NEW t, IsGiven(s, t)
  PROVE  t \in Nat
<1>1. held[s] # None => held[s].refresh \in Nat
  BY DEF TypeOK, Token
<1> QED
  BY <1>1, IssuingType DEF IsGiven

(* An entry made to last as long as tokens that are as late covers t.      *)
LEMMA KeptCovers ==
  ASSUME TypeOK, NEW s \in Sessions, NEW t \in Nat, NEW u \in Nat, t <= u,
         entry'[s] = Kept(Whole(u)), UNCHANGED now
  PROVE  Covers(s, t)'
<1>1. Whole(t) \in Nat /\ Whole(u) \in Nat /\ Whole(t) <= Whole(u) /\ now \in Nat
  BY WholeType, WholeOrder DEF TypeOK
<1> QED
  BY <1>1 DEF Kept, Covers

(* A step that takes requests out of a call, and otherwise leaves all but  *)
(* the tokens held alone, which gives a session nothing it was not given,  *)
(* keeps the invariant.                                                    *)
LEMMA QuietStep ==
  ASSUME TypeOK, EntryInv, UNCHANGED <<now, entry, overlapped>>,
         \A q \in Reqs : req'[q] = req[q] \/ ~At(q, "exec")',
         \A s \in Sessions : \A t : IsGiven(s, t)' => IsGiven(s, t)
  PROVE  EntryInv'
<1>1. \A q \in Reqs : At(q, "exec")' => At(q, "exec") /\ req'[q] = req[q]
  BY DEF At
<1>2. GivenBefore' /\ EntriesCover'
  BY DEF EntryInv, GivenBefore, EntriesCover, Covers
<1>3. MadeBefore' /\ OverlapsAreNoted'
  BY <1>1 DEF EntryInv, MadeBefore, OverlapsAreNoted
<1>4. AloneIsOnly'
  BY <1>1 DEF EntryInv, AloneIsOnly
<1>5. AloneIsLatest'
  BY <1>1, IssuingType DEF EntryInv, AloneIsLatest
<1> QED
  BY <1>2, <1>3, <1>4, <1>5 DEF EntryInv

(* Issuing gives nothing yet, and makes the latest tokens.                 *)
LEMMA IssueStep ==
  ASSUME TypeOK, EntryInv, NEW r \in Reqs, NEW s \in Sessions,
         ~At(r, "exec"), ~At(r, "answer"), Issue(r, s), UNCHANGED <<now, entry, held>>
  PROVE  EntryInv'
<1>1. /\ req'[r].at = "exec" /\ req'[r].session = s /\ req'[r].token = NewToken
      /\ req'[r].alone <=> Writing(s) = {}
  BY DEF Issue
<1>2. ASSUME NEW q \in Reqs, q # r
      PROVE  /\ req'[q].at = req[q].at
             /\ At(q, "exec") \/ At(q, "answer") =>
                  req'[q].session = req[q].session /\ req'[q].token = req[q].token
             /\ At(q, "exec") /\ req'[q].alone => req[q].alone /\ req[q].session # s
  <2>1. CASE q \in Writing(s)
    <3>1. req'[q] = [req[q] EXCEPT !.alone = FALSE] /\ req[q] \in Issuing
      BY <1>2, <2>1, RequestType DEF Issue, Writing
    <3>2. /\ req'[q].at = req[q].at /\ req'[q].session = req[q].session
          /\ req'[q].token = req[q].token /\ ~req'[q].alone
      BY <3>1 DEF Issuing
    <3> QED
      BY <3>2
  <2>2. CASE q \notin Writing(s)
    BY <1>2, <2>2 DEF Issue, Writing
  <2> QED
    BY <2>1, <2>2
<1>3. \A o \in Sessions : \A t : IsGiven(o, t)' => IsGiven(o, t)
  BY <1>1, <1>2 DEF IsGiven, At
<1>4. overlapped \subseteq overlapped'
  BY DEF Issue
<1>5. GivenBefore'
  BY <1>3 DEF EntryInv, GivenBefore
<1>6. MadeBefore'
  <2>1. ASSUME NEW q \in Reqs, At(q, "exec")' PROVE req'[q].token.refresh <= (now + RefreshTTL)'
    <3>1. CASE q = r
      BY <1>1, <3>1, NewTokenType, ConstantsAssumption DEF TypeOK
    <3>2. CASE q # r
      BY <1>2, <2>1, <3>2 DEF EntryInv, MadeBefore, At
    <3> QED
      BY <3>1, <3>2
  <2> QED
    BY <2>1 DEF MadeBefore
<1>7. AloneIsOnly'
  <2> SUFFICES ASSUME NEW p \in Reqs, NEW q \in Reqs, At(p, "exec")', req'[p].alone,
                      At(q, "exec")', req'[q].session = req'[p].session
               PROVE  q = p
    BY DEF AloneIsOnly
  <2>1. CASE p = r
    <3>1. Writing(s) = {}
      BY <1>1, <2>1
    <3> QED
      BY <1>1, <1>2, <2>1, <3>1 DEF Writing, At
  <2>2. CASE p # r
    <3>1. At(p, "exec") /\ req[p].alone /\ req[p].session # s /\ req'[p].session = req[p].session
      BY <1>2, <2>2 DEF At
    <3>2. q # r
      BY <1>1, <3>1
    <3>3. At(q, "exec") /\ req'[q].session = req[q].session
      BY <1>2, <3>2 DEF At
    <3> QED
      BY <3>1, <3>3 DEF EntryInv, AloneIsOnly
  <2> QED
    BY <2>1, <2>2
<1>8. AloneIsLatest'
  <2> SUFFICES ASSUME NEW p \in Reqs, At(p, "exec")', req'[p].alone,
                      NEW t, IsGiven(req[p].session, t)'
               PROVE  t <= req'[p].token.refresh
    BY DEF AloneIsLatest
  <2>1. CASE p = r
    <3>1. IsGiven(s, t)
      BY <1>1, <1>3, <2>1
    <3> QED
      BY <1>1, <2>1, <3>1, NewTokenType DEF EntryInv, GivenBefore
  <2>2. CASE p # r
    <3>1. At(p, "exec") /\ req[p].alone /\ req'[p].session = req[p].session
          /\ req'[p].token = req[p].token
      BY <1>2, <2>2 DEF At
    <3>2. IsGiven(req[p].session, t)
      BY <1>3, <3>1, IssuingType
    <3> QED
      BY <3>1, <3>2 DEF EntryInv, AloneIsLatest
  <2> QED
    BY <2>1, <2>2
<1>9. OverlapsAreNoted'
  <2> SUFFICES ASSUME NEW q \in Reqs, At(q, "exec")', req'[q].session \notin overlapped'
               PROVE  req'[q].alone
    BY DEF OverlapsAreNoted
  <2>1. CASE q = r
    BY <1>1, <2>1 DEF Issue
  <2>2. CASE q # r
    <3>1. At(q, "exec") /\ req'[q].session = req[q].session
      BY <1>2, <2>2 DEF At
    <3>2. req[q].session # s
      BY <1>4, <3>1 DEF Issue, Writing
    <3>3. req'[q] = req[q]
      BY <2>2, <3>2 DEF Issue, Writing
    <3> QED
      BY <1>4, <3>1, <3>3 DEF EntryInv, OverlapsAreNoted
  <2> QED
    BY <2>1, <2>2
<1>10. EntriesCover'
  BY <1>3, <1>4 DEF EntryInv, EntriesCover, Covers
<1> QED
  BY <1>5, <1>6, <1>7, <1>8, <1>9, <1>10 DEF EntryInv

(* A pipeline covers what was given before and what it gives.              *)
LEMMA ExecStep ==
  ASSUME TypeOK, EntryInv, NEW r \in Reqs, Exec(r)
  PROVE  EntryInv'
<1> DEFINE s == req[r].session
           e == req[r].token.refresh
<1>1. s \in Sessions /\ e \in Nat /\ At(r, "exec") /\ req[r].alone \in BOOLEAN
  BY IssuingType DEF Exec
<1>2. entry'[s] = Kept(Whole(e)) /\ \A o \in Sessions : o # s => entry'[o] = entry[o]
  BY <1>1 DEF Exec, ExpireAt, SetTo, TypeOK
<1>3. /\ req'[r] = [req[r] EXCEPT !.at = "answer"]
      /\ \A q \in Reqs : q # r => req'[q] = req[q]
  BY DEF Exec, Goto, TypeOK
<1>4. req'[r].at = "answer" /\ req'[r].session = s /\ req'[r].token = req[r].token
  BY <1>1, <1>3, RequestType DEF Issuing
<1>5. \A o \in Sessions : \A t : IsGiven(o, t)' => IsGiven(o, t) \/ (o = s /\ t = e)
  BY <1>3, <1>4 DEF Exec, IsGiven, At
<1>6. \A q \in Reqs : At(q, "exec")' => q # r /\ At(q, "exec") /\ req'[q] = req[q]
  BY <1>3, <1>4 DEF At
<1>7. UNCHANGED now /\ now \in Nat
  BY DEF Exec, TypeOK
<1>8. GivenBefore'
  BY <1>1, <1>5, <1>7 DEF EntryInv, GivenBefore, MadeBefore
<1>9. MadeBefore' /\ AloneIsOnly'
  BY <1>6, <1>7 DEF EntryInv, MadeBefore, AloneIsOnly
<1>10. ASSUME NEW q \in Reqs, At(q, "exec")', req'[q].alone PROVE req[q].session # s
  BY <1>1, <1>6, <1>10 DEF EntryInv, AloneIsOnly
<1>11. AloneIsLatest'
  BY <1>5, <1>6, <1>10, IssuingType DEF EntryInv, AloneIsLatest
<1>12. OverlapsAreNoted'
  <2>1. CASE req[r].alone
    BY <1>1, <1>6, <2>1 DEF EntryInv, OverlapsAreNoted, AloneIsOnly, Exec
  <2>2. CASE ~req[r].alone
    BY <1>6, <2>2 DEF EntryInv, OverlapsAreNoted, Exec
  <2> QED
    BY <2>1, <2>2
<1>13. EntriesCover'
  <2> SUFFICES ASSUME NEW o \in Sessions, o \notin overlapped', NEW t, IsGiven(o, t)'
               PROVE  Covers(o, t)'
    BY DEF EntriesCover
  <2>1. CASE o # s
    <3>1. IsGiven(o, t) /\ o \notin overlapped
      BY <1>5, <2>1 DEF Exec
    <3> QED
      BY <1>2, <1>7, <2>1, <3>1 DEF EntryInv, EntriesCover, Covers
  <2>2. CASE o = s
    <3>1. req[r].alone
      BY <1>1, <2>2 DEF EntryInv, OverlapsAreNoted, Exec
    <3>2. t \in Nat /\ t <= e
      BY <1>1, <1>5, <2>2, <3>1, GivenType DEF EntryInv, AloneIsLatest
    <3> QED
      BY <1>1, <1>2, <1>7, <2>2, <3>2, KeptCovers
  <2> QED
    BY <2>1, <2>2
<1> QED
  BY <1>8, <1>9, <1>11, <1>12, <1>13 DEF EntryInv

(* A failed one gives nothing, and covers no less.                         *)
LEMMA ExecFailsStep ==
  ASSUME TypeOK, EntryInv, NEW r \in Reqs, ExecFails(r)
  PROVE  EntryInv'
<1> DEFINE s == req[r].session
           e == req[r].token.refresh
<1>1. s \in Sessions /\ e \in Nat /\ At(r, "exec")
  BY IssuingType DEF ExecFails
<1>2. /\ req'[r].at = "idle"
      /\ \A q \in Reqs : q # r => req'[q] = req[q]
  BY DEF ExecFails, Goto, TypeOK, Idle
<1>3. \A o \in Sessions : \A t : IsGiven(o, t)' => IsGiven(o, t)
  BY <1>2 DEF ExecFails, IsGiven, At
<1>4. \A q \in Reqs : At(q, "exec")' => At(q, "exec") /\ req'[q] = req[q]
  BY <1>2 DEF At
<1>5. UNCHANGED <<now, overlapped>>
  BY DEF ExecFails
<1>6. GivenBefore' /\ MadeBefore' /\ AloneIsOnly' /\ OverlapsAreNoted'
  BY <1>3, <1>4, <1>5
     DEF EntryInv, GivenBefore, MadeBefore, AloneIsOnly, OverlapsAreNoted
<1>7. AloneIsLatest'
  BY <1>3, <1>4, IssuingType DEF EntryInv, AloneIsLatest
<1>8. ASSUME NEW o \in Sessions \ overlapped, NEW t, IsGiven(o, t)
      PROVE  Covers(o, t)'
  <2>1. Covers(o, t)
    BY <1>8 DEF EntryInv, EntriesCover
  <2>2. CASE o # s \/ UNCHANGED entry
    <3>1. entry'[o] = entry[o]
      BY <1>1, <2>2 DEF ExecFails, ExpireAt, HSet, SetTo, TypeOK
    <3> QED
      BY <1>5, <2>1, <3>1 DEF Covers
  <2>3. CASE o = s /\ ExpireAt(r)
    <3>1. entry'[s] = Kept(Whole(e))
      BY <1>1, <2>3 DEF ExpireAt, SetTo, TypeOK
    <3>2. t \in Nat /\ t <= e
      BY <1>1, <1>8, <2>3, GivenType DEF EntryInv, OverlapsAreNoted, AloneIsLatest
    <3> QED
      BY <1>1, <1>5, <2>3, <3>1, <3>2, KeptCovers
  <2>4. CASE o = s /\ HSet(r)
    <3>1. entry'[s] = Never \/ entry'[s] = entry[s]
      BY <1>1, <2>4 DEF HSet, SetTo, TypeOK
    <3> QED
      BY <1>5, <2>1, <2>4, <3>1 DEF Covers
  <2> QED
    BY <2>2, <2>3, <2>4 DEF ExecFails
<1>9. EntriesCover'
  BY <1>3, <1>5, <1>8 DEF EntriesCover
<1> QED
  BY <1>6, <1>7, <1>9 DEF EntryInv

(* Time takes entries away only together with what they cover.             *)
LEMMA TickStep ==
  ASSUME TypeOK, EntryInv, Tick
  PROVE  EntryInv'
<1>1. now' = now + 1 /\ now \in Nat /\ UNCHANGED <<held, req, overlapped>>
  BY DEF Tick, TypeOK
<1>2. \A s \in Sessions : \A t : IsGiven(s, t)' <=> IsGiven(s, t)
  BY <1>1 DEF IsGiven, At
<1>3. GivenBefore'
  BY <1>1, <1>2, ConstantsAssumption DEF EntryInv, GivenBefore
<1>4. MadeBefore'
  BY <1>1, IssuingType, ConstantsAssumption DEF EntryInv, MadeBefore, At
<1>5. AloneIsOnly' /\ OverlapsAreNoted'
  BY <1>1 DEF EntryInv, AloneIsOnly, OverlapsAreNoted, At
<1>6. AloneIsLatest'
  BY <1>1, <1>2, IssuingType DEF EntryInv, AloneIsLatest, At
<1>7. EntriesCover'
  <2> SUFFICES ASSUME NEW s \in Sessions \ overlapped, NEW t, IsGiven(s, t)
               PROVE  Covers(s, t)'
    BY <1>1, <1>2 DEF EntriesCover
  <2>1. Covers(s, t) /\ t \in Nat /\ Whole(t) \in Nat
    BY GivenType, WholeType DEF EntryInv, EntriesCover
  <2>2. entry'[s] = entry[s] \/ (entry[s] \in Nat /\ entry[s] <= now)
    BY DEF Tick, TypeOK
  <2> QED
    BY <1>1, <2>1, <2>2, ConstantsAssumption DEF Covers
<1> QED
  BY <1>3, <1>4, <1>5, <1>6, <1>7 DEF EntryInv

(* Every step keeps the invariant.                                         *)
LEMMA EntryStep ==
  ASSUME TypeOK, EntryInv, [Next]_vars
  PROVE  EntryInv'
<1>1. CASE UNCHANGED vars
  <2>1. UNCHANGED <<now, entry, held, req, overlapped>>
    BY <1>1 DEF vars
  <2>2. \A s \in Sessions : \A t : IsGiven(s, t)' => IsGiven(s, t)
    BY <2>1 DEF IsGiven, At
  <2> QED
    BY <2>1, <2>2, QuietStep
<1>2. CASE Tick
  BY <1>2, TickStep
<1>3. ASSUME NEW r \in Reqs, NEW s \in Sessions, Login(r, s) PROVE EntryInv'
  BY <1>3, IssueStep DEF Login, At
<1>4. ASSUME NEW r \in Reqs, req[r].at # "exec", Goto(r, Idle) \/ Goto(r, req'[r]),
             req'[r].at \in {"idle", "lookup"}, UNCHANGED <<now, entry, overlapped, held>>
      PROVE  EntryInv'
  <2>1. \A q \in Reqs : q # r => req'[q] = req[q]
    BY <1>4 DEF Goto, TypeOK
  <2>2. \A s \in Sessions : \A t : IsGiven(s, t)' => IsGiven(s, t)
    BY <1>4, <2>1 DEF IsGiven, At
  <2> QED
    BY <1>4, <2>1, <2>2, QuietStep DEF At
<1>5. ASSUME NEW r \in Reqs, NEW s \in Sessions, NEW refresh \in BOOLEAN,
             Authenticate(r, s, refresh)
      PROVE  EntryInv'
  <2>1. req'[r].at = "lookup" /\ Goto(r, req'[r])
    BY <1>5 DEF Authenticate, Goto, TypeOK
  <2> QED
    BY <1>4, <1>5, <2>1 DEF Authenticate, At
<1>6. ASSUME NEW r \in Reqs, Goto(r, Idle) PROVE req'[r].at = "idle"
  BY <1>6 DEF Goto, TypeOK, Idle
<1>7. ASSUME NEW r \in Reqs, Lookup(r) PROVE EntryInv'
  <2>1. req[r].session \in Sessions
    BY <1>7, RequestType DEF Lookup, Looking
  <2>2. CASE Issue(r, req[r].session)
    BY <1>7, <2>1, <2>2, IssueStep DEF Lookup, At
  <2>3. CASE Goto(r, Idle) /\ UNCHANGED overlapped
    BY <1>4, <1>6, <1>7, <2>3 DEF Lookup, At
  <2> QED
    BY <1>7, <2>2, <2>3 DEF Lookup
<1>8. ASSUME NEW r \in Reqs, Refuse(r) PROVE EntryInv'
  BY <1>4, <1>6, <1>8 DEF Refuse, At
<1>9. ASSUME NEW r \in Reqs, Exec(r) PROVE EntryInv'
  BY <1>9, ExecStep
<1>10. ASSUME NEW r \in Reqs, ExecFails(r) PROVE EntryInv'
  BY <1>10, ExecFailsStep
<1>11. ASSUME NEW r \in Reqs, Answer(r) PROVE EntryInv'
  <2>1. req'[r].at = "idle" /\ \A q \in Reqs : q # r => req'[q] = req[q]
    BY <1>6, <1>11 DEF Answer, Goto, TypeOK
  <2>2. req[r].session \in Sessions /\ At(r, "answer")
    BY <1>11, IssuingType DEF Answer
  <2>3. /\ held'[req[r].session] = req[r].token
        /\ \A s \in Sessions : s # req[r].session => held'[s] = held[s]
    BY <1>11, <2>2 DEF Answer, TypeOK
  <2>4. \A s \in Sessions : \A t : IsGiven(s, t)' => IsGiven(s, t)
    BY <2>1, <2>2, <2>3 DEF IsGiven, At
  <2> QED
    BY <1>11, <2>1, <2>4, QuietStep DEF Answer, At
<1>12. ASSUME NEW r \in Reqs, AnswerLost(r) PROVE EntryInv'
  BY <1>4, <1>6, <1>12 DEF AnswerLost, At
<1> QED
  BY <1>1, <1>2, <1>3, <1>5, <1>7, <1>8, <1>9, <1>10, <1>11, <1>12 DEF Next

(* Whatever is lost, overtaken or half done, tokens that a client holds or *)
(* is sent keep working until the second of the time it was told, unless   *)
(* two requests renewed them at once (auth.helpers.go:60 and :89,          *)
(* auth.middlewares.go:56).                                                *)
THEOREM HeldTokensWorkCorrect == Spec => []HeldTokensWork
<1>1. Init => EntryInv
  BY DEF Init, Idle, EntryInv, GivenBefore, MadeBefore, AloneIsOnly, AloneIsLatest,
         OverlapsAreNoted, EntriesCover, IsGiven, At
<1>2. TypeOK /\ EntryInv /\ [Next]_vars => EntryInv'
  BY EntryStep
<1>3. TypeOK /\ EntryInv => HeldTokensWork
  <2> SUFFICES ASSUME TypeOK, EntryInv, NEW s \in Sessions \ overlapped,
                      NEW token \in Given(s), now < Whole(token.refresh)
               PROVE  entry[s] # None
    BY DEF HeldTokensWork
  <2>1. IsGiven(s, token.refresh)
    BY DEF Given, IsGiven
  <2>2. Covers(s, token.refresh) /\ Whole(token.refresh) \in Nat /\ now \in Nat
    BY <2>1, GivenType, WholeType DEF EntryInv, EntriesCover, TypeOK
  <2> QED
    BY <2>2, ConstantsAssumption DEF Covers
<1> QED
  BY <1>1, <1>2, <1>3, TypeCorrect, PTL DEF Spec
===============================================================================
