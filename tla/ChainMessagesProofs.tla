------------------------- MODULE ChainMessagesProofs -------------------------
(***************************************************************************)
(* Proofs about ChainMessages, for any two users, any number of messages   *)
(* and requests, any limits and lengths of pages.                          *)
(*                                                                         *)
(* Pages rest on InOrder, which lists the rows by their key: SortsAll      *)
(* shows that there is such a list, AfterPage and LatestPage what GetChain *)
(* makes of it. The invariant has three parts: Base, that what is referred *)
(* to is there; PagesHaveNoGaps, which is inductive over Base; and         *)
(* CoverInv, which says of every user which upload will cover what is not  *)
(* covered yet.                                                            *)
(***************************************************************************)
EXTENDS ChainMessages, Integers, FiniteSetTheorems, SequenceTheorems, TLAPS

-----------------------------------------------------------------------------
(* Sets of times in order.                                                 *)

(* Induction, as a fact about sets.                                        *)
LEMMA NatSetInduction ==
  ASSUME NEW T, 0 \in T, \A k \in Nat : k \in T => k + 1 \in T
  PROVE  Nat \subseteq T
<1> SUFFICES ASSUME Nat \ T # {} PROVE FALSE
  OBVIOUS
<1>1. PICK m \in Nat \ T : \A k \in Nat \ T : <<k, m>> \notin OpToRel(<, Nat)
  BY NatLessThanWellFounded, WFMin
<1>2. m \in Nat /\ m \notin T
  BY <1>1
<1>3. \A k \in Nat : k < m => k \in T
  BY <1>1, <1>2 DEF OpToRel
<1>4. m # 0
  BY <1>2
<1>5. m - 1 \in Nat /\ m - 1 < m /\ (m - 1) + 1 = m
  BY <1>2, <1>4
<1>6. m - 1 \in T
  BY <1>3, <1>5
<1> QED
  BY <1>2, <1>5, <1>6

(* A set that can be written as an increasing sequence.                    *)
Increasing(s) == \A j, k \in DOMAIN s : j < k => s[j] < s[k]
Sorts(S) == \E s \in [1 .. Cardinality(S) -> S] : Increasing(s)

(* Sets of bounded numbers are finite.                                     *)
LEMMA FiniteTimes ==
  ASSUME NEW n \in Nat, NEW S \in SUBSET (1 .. n)
  PROVE  IsFiniteSet(S) /\ Cardinality(S) \in Nat
<1>1. IsFiniteSet(1 .. n)
  <2>1. 1 \in Int /\ n \in Int
    OBVIOUS
  <2> QED BY <2>1, FS_Interval
<1>2. IsFiniteSet(S)
  BY <1>1, FS_Subset
<1> QED BY <1>2, FS_CardinalityType

(* A larger number goes to the end.                                        *)
LEMMA SortsWithLargest ==
  ASSUME NEW n \in Nat, NEW S \in SUBSET (1 .. n + 1), n + 1 \in S,
         NEW R, R = S \ {n + 1}, Sorts(R)
  PROVE  Sorts(S)
<1>1. IsFiniteSet(S)
  <2>1. n + 1 \in Nat
    OBVIOUS
  <2> QED BY <2>1, FiniteTimes
<1>2. \A x : x \in R <=> x \in S /\ x # n + 1
  OBVIOUS
<1>3. R \in SUBSET (1 .. n)
  <2> SUFFICES ASSUME NEW x, x \in R PROVE x \in 1 .. n
    OBVIOUS
  <2>1. x \in 1 .. n + 1 /\ x # n + 1
    BY <1>2
  <2> QED BY <2>1
<1> DEFINE c == Cardinality(R)
<1>4. c \in Nat
  BY <1>3, FiniteTimes
<1>5. Cardinality(S) = c + 1
  <2>1. c = Cardinality(S) - 1
    BY <1>1, FS_RemoveElement
  <2>2. Cardinality(S) \in Nat
    BY <1>1, FS_CardinalityType
  <2> QED BY <2>1, <2>2
<1>6. PICK s \in [1 .. c -> R] : Increasing(s)
  BY DEF Sorts
<1> DEFINE t == [j \in 1 .. c + 1 |-> IF j = c + 1 THEN n + 1 ELSE s[j]]
<1> HIDE DEF c
<1>7. \A j \in 1 .. c + 1 : j # c + 1 => j \in 1 .. c
  BY <1>4
<1>8. t \in [1 .. c + 1 -> S]
  BY <1>2, <1>6, <1>7
<1>9. \A j \in 1 .. c : s[j] \in 1 .. n
  BY <1>3, <1>6
<1>10. Increasing(t)
  <2> SUFFICES ASSUME NEW j \in 1 .. c + 1, NEW k \in 1 .. c + 1, j < k
               PROVE  t[j] < t[k]
    BY DEF Increasing
  <2>1. j \in 1 .. c /\ t[j] = s[j] /\ t[j] \in 1 .. n
    BY <1>4, <1>9
  <2>2. CASE k = c + 1
    <3>1. t[k] = n + 1
      BY <2>2
    <3> HIDE DEF t
    <3> QED BY <2>1, <3>1
  <2>3. CASE k # c + 1
    <3>1. k \in 1 .. c /\ t[k] = s[k]
      BY <2>3, <1>7
    <3>2. s[j] < s[k]
      BY <2>1, <3>1, <1>6 DEF Increasing
    <3> HIDE DEF t
    <3> QED BY <2>1, <3>1, <3>2
  <2> QED BY <2>2, <2>3
<1> QED
  <2> HIDE DEF t
  <2> QED BY <1>5, <1>8, <1>10 DEF Sorts

(* Every set of bounded numbers can be sorted.                             *)
LEMMA SortsAll ==
  ASSUME NEW n \in Nat, NEW S \in SUBSET (1 .. n)
  PROVE  Sorts(S)
<1> DEFINE T == {m \in Nat : \A R \in SUBSET (1 .. m) : Sorts(R)}
<1>1. 0 \in T
  <2> SUFFICES ASSUME NEW R \in SUBSET (1 .. 0) PROVE Sorts(R)
    OBVIOUS
  <2>1. R = {}
    OBVIOUS
  <2>2. Cardinality(R) = 0
    BY <2>1, FS_EmptySet
  <2>3. [j \in 1 .. 0 |-> j] \in [1 .. 0 -> R] /\ Increasing([j \in 1 .. 0 |-> j])
    BY <2>1 DEF Increasing
  <2> QED BY <2>2, <2>3 DEF Sorts
<1>2. \A k \in Nat : k \in T => k + 1 \in T
  <2> SUFFICES ASSUME NEW k \in Nat, k \in T, NEW R \in SUBSET (1 .. k + 1)
               PROVE  Sorts(R)
    OBVIOUS
  <2>1. \A Q \in SUBSET (1 .. k) : Sorts(Q)
    OBVIOUS
  <2>2. R \ {k + 1} \in SUBSET (1 .. k)
    <3> SUFFICES ASSUME NEW x, x \in R, x # k + 1 PROVE x \in 1 .. k
      OBVIOUS
    <3>1. x \in 1 .. k + 1
      OBVIOUS
    <3> QED BY <3>1
  <2>3. CASE k + 1 \in R
    <3>1. Sorts(R \ {k + 1})
      BY <2>1, <2>2
    <3> QED BY <3>1, <2>3, SortsWithLargest
  <2>4. CASE k + 1 \notin R
    <3>1. R \ {k + 1} = R
      BY <2>4
    <3> QED BY <3>1, <2>1, <2>2
  <2> QED BY <2>3, <2>4
<1>3. n \in T
  <2> HIDE DEF T
  <2> QED BY <1>1, <1>2, NatSetInduction
<1> QED BY <1>3

(* InOrder lists every time of a set once, the earliest first.             *)
LEMMA InOrderLists ==
  ASSUME NEW S \in SUBSET Times
  PROVE  LET s == InOrder(S) IN
         /\ Cardinality(S) \in Nat /\ s \in [1 .. Cardinality(S) -> S]
         /\ \A j, k \in 1 .. Cardinality(S) : j < k => s[j] < s[k]
         /\ \A t \in S : \E k \in 1 .. Cardinality(S) : s[k] = t
<1> DEFINE s == InOrder(S)
           n == Cardinality(S)
<1>1. MaxTime \in Nat /\ S \in SUBSET (1 .. MaxTime)
  BY ConstantsAssumption DEF Times
<1>2. IsFiniteSet(S) /\ n \in Nat
  BY <1>1, FiniteTimes
<1>3. \E q \in [1 .. n -> S] : \A j, k \in DOMAIN q : j < k => q[j] < q[k]
  BY <1>1, SortsAll DEF Sorts, Increasing
<1>4. s \in [1 .. n -> S] /\ \A j, k \in DOMAIN s : j < k => s[j] < s[k]
  BY <1>3 DEF InOrder
<1> HIDE DEF s, n
<1>5. \A j, k \in 1 .. n : s[j] = s[k] => j = k
  <2> SUFFICES ASSUME NEW j \in 1 .. n, NEW k \in 1 .. n, s[j] = s[k], j # k
               PROVE  FALSE
    OBVIOUS
  <2>1. s[j] \in 1 .. MaxTime /\ s[k] \in 1 .. MaxTime
    BY <1>1, <1>4
  <2>2. j < k \/ k < j
    BY <1>2
  <2>3. s[j] < s[k] \/ s[k] < s[j]
    BY <1>4, <2>2
  <2> QED BY <2>1, <2>3
<1>6. s \in Injection(1 .. n, S)
  BY <1>4, <1>5 DEF Injection, IsInjective
<1>7. s \in Surjection(1 .. n, S)
  <2>1. 1 \in Int /\ n \in Int
    BY <1>2
  <2>2. Cardinality(1 .. n) = n
    BY <1>2, <2>1, FS_Interval
  <2>3. Cardinality(1 .. n) = Cardinality(S)
    BY <2>2 DEF n
  <2> QED BY <1>2, <1>6, <2>3, FS_Injection
<1>8. \A t \in S : \E k \in 1 .. n : s[k] = t
  BY <1>7 DEF Surjection
<1> QED BY <1>2, <1>4, <1>8 DEF s, n

-----------------------------------------------------------------------------
(* Pages.                                                                  *)

(* The row of a time is that of a message of the time, and a sequence of   *)
(* messages in the order of their times.                                   *)
RowTimes == \A t \in Stored : time[rows[t].id] = t
Ordered(v) == \A i, j \in DOMAIN v : i < j => time[v[i]] < time[v[j]]

(* The first of a sequence, up to k.                                       *)
LEMMA SomeFirst ==
  ASSUME NEW S, NEW s \in Seq(S), NEW k \in Nat
  PROVE  \E m \in Nat :
           /\ m <= Len(s) /\ Len(Some(s, k)) = m
           /\ Some(s, k) \in Seq(S)
           /\ \A j \in 1 .. m : Some(s, k)[j] = s[j]
<1> DEFINE m == IF k < Len(s) THEN k ELSE Len(s)
<1>1. m \in Nat /\ m <= Len(s)
  OBVIOUS
<1>2. Some(s, k) = SubSeq(s, 1, m)
  BY DEF Some
<1> HIDE DEF m
<1>3. SubSeq(s, 1, m) \in Seq(S) /\ Len(SubSeq(s, 1, m)) = m
  BY <1>1
<1>4. \A j \in 1 .. m : SubSeq(s, 1, m)[j] = s[j]
  BY <1>1
<1> QED BY <1>1, <1>2, <1>3, <1>4

(* A sequence turned round.                                                *)
LEMMA ReversedSeq ==
  ASSUME NEW S, NEW s \in Seq(S)
  PROVE  /\ Reverse(s) \in Seq(S) /\ Len(Reverse(s)) = Len(s)
         /\ \A j \in 1 .. Len(s) : Reverse(s)[j] = s[Len(s) - j + 1]
<1> DEFINE n == Len(s)
<1>1. n \in Nat /\ \A j \in 1 .. n : n - j + 1 \in 1 .. n /\ (n - j) + 1 = n - j + 1
  OBVIOUS
<1>2. Reverse(s) = [j \in 1 .. n |-> s[(n - j) + 1]]
  BY DEF Reverse
<1>3. \A j \in 1 .. n : s[n - j + 1] \in S
  BY <1>1
<1> QED BY <1>1, <1>2, <1>3

(* The same of InOrder, as a sequence.                                     *)
LEMMA InOrderSeq ==
  ASSUME NEW S \in SUBSET Times
  PROVE  LET s == InOrder(S) IN
         /\ s \in Seq(S)
         /\ \A j, k \in 1 .. Len(s) : j < k => s[j] < s[k]
         /\ \A t \in S : \E k \in 1 .. Len(s) : s[k] = t
<1> DEFINE s == InOrder(S)
           n == Cardinality(S)
<1>1. /\ n \in Nat /\ s \in [1 .. n -> S]
      /\ \A j, k \in 1 .. n : j < k => s[j] < s[k]
      /\ \A t \in S : \E k \in 1 .. n : s[k] = t
  BY InOrderLists
<1> HIDE DEF s, n
<1>2. s \in Seq(S) /\ Len(s) = n
  BY <1>1
<1>3. QED BY <1>1, <1>2 DEF s

(* The messages of some rows.                                              *)
LEMMA PageOfTimes ==
  ASSUME TypeOK, RowTimes, NEW s \in Seq(Stored)
  PROVE  /\ Page(s) \in Seq(Ids) /\ Len(Page(s)) = Len(s)
         /\ \A k \in 1 .. Len(s) : Page(s)[k] = rows[s[k]].id /\ time[Page(s)[k]] = s[k]
<1>1. \A k \in 1 .. Len(s) : s[k] \in Stored
  OBVIOUS
<1>2. \A t \in Stored : rows[t].id \in Ids
  BY DEF TypeOK, Stored, Message
<1>3. Page(s) = [k \in 1 .. Len(s) |-> rows[s[k]].id]
  BY DEF Page
<1> QED BY <1>1, <1>2, <1>3 DEF RowTimes

(* The length of a page.                                                   *)
LEMMA ClampedType ==
  ASSUME NEW limit \in Limits
  PROVE  Clamped(limit) \in Nat
BY ConstantsAssumption DEF Clamped

(* A page of later messages: no row is left out up to the last of it.      *)
LEMMA AfterPage ==
  ASSUME TypeOK, RowTimes, NEW limit \in Limits, NEW t
  PROVE  LET p == After(t, limit) IN
         /\ p \in Seq(Ids) /\ Ordered(p)
         /\ \A k \in 1 .. Len(p) : time[p[k]] \in Stored /\ time[p[k]] > t
         /\ \A k \in 1 .. Len(p), u \in Stored :
              u > t /\ u <= time[p[k]] => \E j \in 1 .. Len(p) : p[j] = rows[u].id
<1> DEFINE S == {k \in Stored : k > t}
           s == InOrder(S)
           n == Clamped(limit)
           q == Some(s, n)
           p == Page(q)
<1>1. S \in SUBSET Times /\ S \in SUBSET Stored
  BY DEF Stored
<1>2. /\ s \in Seq(S)
      /\ \A j, k \in 1 .. Len(s) : j < k => s[j] < s[k]
      /\ \A u \in S : \E k \in 1 .. Len(s) : s[k] = u
  BY <1>1, InOrderSeq
<1>3. n \in Nat
  BY ClampedType
<1>a. \A u \in S : u \in Stored /\ u > t
  OBVIOUS
<1>b. \A u \in Stored : u > t => u \in S
  OBVIOUS
<1>c. After(t, limit) = p
  BY DEF After
<1>d. \A u \in S : u \in Nat
  BY <1>1 DEF Times
<1> HIDE DEF s, n, S
<1>4. PICK m \in Nat : /\ m <= Len(s) /\ Len(q) = m /\ q \in Seq(S)
                       /\ \A j \in 1 .. m : q[j] = s[j]
  BY <1>2, <1>3, SomeFirst
<1>5. q \in Seq(Stored)
  BY <1>1, <1>4
<1> HIDE DEF q
<1>6. /\ p \in Seq(Ids) /\ Len(p) = m
      /\ \A k \in 1 .. m : p[k] = rows[q[k]].id /\ time[p[k]] = q[k]
  BY <1>4, <1>5, PageOfTimes
<1> HIDE DEF p
<1>7. \A k \in 1 .. m : k \in 1 .. Len(s) /\ s[k] \in S /\ p[k] = rows[s[k]].id /\ time[p[k]] = s[k]
  BY <1>2, <1>4, <1>6
<1>8. Ordered(p)
  BY <1>2, <1>6, <1>7 DEF Ordered
<1>9. \A k \in 1 .. m : time[p[k]] \in Stored /\ time[p[k]] > t
  BY <1>a, <1>7
<1>10. ASSUME NEW k \in 1 .. m, NEW u \in Stored, u > t, u <= time[p[k]]
       PROVE  \E j \in 1 .. m : p[j] = rows[u].id
  <2>1. u \in S
    BY <1>10, <1>b
  <2>2. PICK j \in 1 .. Len(s) : s[j] = u
    BY <1>2, <2>1
  <2>3. ~(k < j)
    <3>1. k < j => s[k] < s[j]
      BY <1>2, <1>7
    <3>2. s[k] \in Nat /\ u \in Nat /\ u <= s[k]
      BY <2>1, <1>d, <1>7, <1>10
    <3> QED BY <3>1, <3>2, <2>2
  <2>4. j \in 1 .. m
    BY <2>3, <1>4
  <2> QED BY <2>2, <2>4, <1>7
<1> QED BY <1>c, <1>6, <1>8, <1>9, <1>10

(* The latest of some rows: none is left out from the first of them.       *)
LEMMA LatestPage ==
  ASSUME TypeOK, RowTimes, NEW limit \in Limits, NEW S \in SUBSET Stored
  PROVE  LET p == Latest(S, limit) IN
         /\ p \in Seq(Ids) /\ Ordered(p)
         /\ \A k \in 1 .. Len(p) : time[p[k]] \in S
         /\ \A k \in 1 .. Len(p), u \in S :
              time[p[k]] <= u => \E j \in 1 .. Len(p) : p[j] = rows[u].id
<1> DEFINE s == InOrder(S)
           N == Len(s)
           n == Clamped(limit)
           r == Reverse(s)
           q == Some(r, n)
           g == Page(q)
           p == Reverse(g)
<1>1. S \in SUBSET Times
  BY DEF Stored
<1>2. /\ s \in Seq(S)
      /\ \A j, k \in 1 .. N : j < k => s[j] < s[k]
      /\ \A u \in S : \E k \in 1 .. N : s[k] = u
  BY <1>1, InOrderSeq
<1>3. n \in Nat
  BY ClampedType
<1>c. Latest(S, limit) = p
  BY DEF Latest
<1>d. \A u \in S : u \in Nat
  BY <1>1 DEF Times
<1> HIDE DEF s, n
<1>4. N \in Nat
  BY <1>2
<1>5. r \in Seq(S) /\ Len(r) = N /\ \A j \in 1 .. N : r[j] = s[N - j + 1]
  BY <1>2, ReversedSeq
<1> HIDE DEF r
<1>6. PICK m \in Nat : /\ m <= N /\ Len(q) = m /\ q \in Seq(S)
                       /\ \A j \in 1 .. m : q[j] = r[j]
  BY <1>3, <1>5, SomeFirst
<1>7. q \in Seq(Stored)
  BY <1>6
<1> HIDE DEF q, N
<1>8. /\ g \in Seq(Ids) /\ Len(g) = m
      /\ \A k \in 1 .. m : g[k] = rows[q[k]].id /\ time[g[k]] = q[k]
  BY <1>6, <1>7, PageOfTimes
<1> HIDE DEF g
<1>9. /\ p \in Seq(Ids) /\ Len(p) = m
      /\ \A k \in 1 .. m : p[k] = g[m - k + 1]
  BY <1>8, ReversedSeq
<1> HIDE DEF p
<1>10. ASSUME NEW k \in 1 .. m
       PROVE  /\ k + (N - m) \in 1 .. N /\ s[k + (N - m)] \in S
              /\ p[k] = rows[s[k + (N - m)]].id /\ time[p[k]] = s[k + (N - m)]
  <2>1. m - k + 1 \in 1 .. m /\ m - k + 1 \in 1 .. N
    BY <1>4, <1>6
  <2>2. N - (m - k + 1) + 1 = k + (N - m) /\ k + (N - m) \in 1 .. N
    BY <1>4, <1>6
  <2>3. q[m - k + 1] = s[k + (N - m)]
    BY <2>1, <2>2, <1>5, <1>6
  <2>4. p[k] = rows[s[k + (N - m)]].id /\ time[p[k]] = s[k + (N - m)]
    BY <2>1, <2>3, <1>8, <1>9
  <2>5. s[k + (N - m)] \in S
    BY <2>2, <1>2 DEF N
  <2> QED BY <2>2, <2>4, <2>5
<1>11. Ordered(p)
  <2> SUFFICES ASSUME NEW j \in 1 .. m, NEW k \in 1 .. m, j < k
               PROVE  time[p[j]] < time[p[k]]
    BY <1>9 DEF Ordered
  <2>1. j + (N - m) < k + (N - m)
    BY <1>4
  <2> QED BY <2>1, <1>2, <1>10
<1>12. ASSUME NEW k \in 1 .. m, NEW u \in S, time[p[k]] <= u
       PROVE  \E j \in 1 .. m : p[j] = rows[u].id
  <2>1. PICK i \in 1 .. N : s[i] = u
    BY <1>2
  <2>2. ~(i < k + (N - m))
    <3>1. i < k + (N - m) => s[i] < s[k + (N - m)]
      BY <1>2, <1>10
    <3>2. s[k + (N - m)] \in Nat /\ u \in Nat /\ s[k + (N - m)] <= u
      BY <1>d, <1>10, <1>12
    <3> QED BY <3>1, <3>2, <2>1
  <2>3. i - (N - m) \in 1 .. m /\ (i - (N - m)) + (N - m) = i
    BY <2>2, <1>4, <1>6
  <2>4. p[i - (N - m)] = rows[s[i]].id
    BY <2>3, <1>10
  <2> QED BY <2>1, <2>3, <2>4
<1> QED BY <1>c, <1>9, <1>10, <1>11, <1>12

-----------------------------------------------------------------------------
(* What is referred to is there.                                           *)

(* Nothing is of the future ...                                            *)
ClockBound ==
  /\ \A m \in Ids : time[m] <= now
  /\ \A t \in accepted : t <= now
(* ... an upload has a time, and an object and a row by the step it has come *)
(* to; an acceptance is known ...                                          *)
CallRefs ==
  /\ \A r \in Reqs : Uploads(r) =>
       /\ TimeOf(r) # 0
       /\ req[r].at # "put" => req[r].id \in objects
       /\ req[r].at \in {"recv", "seen"} => TimeOf(r) \in Stored
  /\ \A r \in Reqs : Accepts(r) => req[r].time \in accepted
(* ... and what a client has read or listened to has a row, perhaps by now *)
(* another message's of the same millisecond.                              *)
ReadRefs ==
  /\ \A k \in DOMAIN view : time[view[k]] \in Stored
  /\ \A m \in Ids : heard[m] # "no" => time[m] \in Stored
Refs == ClockBound /\ RowTimes /\ CallRefs /\ ReadRefs

(* The base of all that follows: what is referred to is there.             *)
Base == TypeOK /\ Refs /\ MarksPointToMessages /\ SeenWasHeard

(* The kinds of requests, by what they are doing.                          *)
LEMMA Kinds ==
  ASSUME TypeOK, NEW r \in Reqs
  PROVE  /\ At(r, "put") \/ At(r, "insert") \/ At(r, "recv") \/ At(r, "seen") => Uploads(r)
         /\ At(r, "own") \/ At(r, "other") => Accepts(r)
         /\ Uploads(r) =>
              /\ ~Accepts(r) /\ req[r] # Idle
              /\ req[r].at \in {"put", "insert", "recv", "seen"}
              /\ req[r].user \in Users /\ req[r].id \in Ids /\ req[r].alone \in BOOLEAN
         /\ Accepts(r) =>
              /\ ~Uploads(r) /\ req[r] # Idle
              /\ req[r].at \in {"own", "other"}
              /\ req[r].user \in Users /\ req[r].time \in Times /\ req[r].alone \in BOOLEAN
         /\ ~Uploads(r) /\ ~Accepts(r) => req[r] = Idle
BY DEF TypeOK, At, Uploads, Accepts, Uploading, Accepting, Idle

(* An idle request is neither.                                             *)
LEMMA IdleCall == Idle \notin Uploading /\ Idle \notin Accepting
BY DEF Idle, Uploading, Accepting

(* How a request may change as others go on: only that it is not alone.    *)
Stays(q) ==
  /\ req'[q] \in Uploading \cup Accepting \cup {Idle}
  /\ req'[q] \in Uploading <=> req[q] \in Uploading
  /\ req'[q] \in Accepting <=> req[q] \in Accepting
  /\ Uploads(q) =>
       /\ req'[q].at = req[q].at /\ req'[q].id = req[q].id /\ req'[q].user = req[q].user
       /\ req'[q].alone => req[q].alone
  /\ Accepts(q) => req'[q].time = req[q].time

(* A request begins: its rivals are no longer alone, the others stay.      *)
LEMMA EnterStays ==
  ASSUME TypeOK, NEW r \in Reqs, req[r] = Idle, NEW call \in Uploading \cup Accepting,
         NEW rivals, \A q \in rivals : q \in Reqs /\ req[q] # Idle, Enter(r, call, rivals)
  PROVE  /\ req' \in [Reqs -> Uploading \cup Accepting \cup {Idle}]
         /\ req'[r] = call
         /\ \A q \in Reqs \ {r} : Stays(q)
         /\ \A q \in rivals : ~req'[q].alone
         /\ \A q \in Reqs \ {r} : q \notin rivals => req'[q] = req[q]
<1>0. req'[r] = call
  BY DEF Enter
<1>1. ASSUME NEW q \in Reqs, q # r, q \in rivals
      PROVE  Stays(q) /\ ~req'[q].alone
  <2>1. req'[q] = [req[q] EXCEPT !.alone = FALSE]
    BY <1>1 DEF Enter
  <2>2. CASE Uploads(q)
    <3>1. req[q] \in Uploading /\ req[q] \notin Accepting
      BY <2>2, Kinds DEF Uploads, Accepts
    <3>2. req'[q] = [at |-> req[q].at, user |-> req[q].user, id |-> req[q].id, alone |-> FALSE]
      BY <2>1, <3>1 DEF Uploading
    <3>3. req'[q] \in Uploading /\ req'[q] \notin Accepting
      BY <3>1, <3>2 DEF Uploading, Accepting
    <3> QED BY <3>1, <3>2, <3>3 DEF Stays, Uploads, Accepts
  <2>3. CASE Accepts(q)
    <3>1. req[q] \in Accepting /\ req[q] \notin Uploading
      BY <2>3, Kinds DEF Uploads, Accepts
    <3>2. req'[q] = [at |-> req[q].at, user |-> req[q].user, time |-> req[q].time, alone |-> FALSE]
      BY <2>1, <3>1 DEF Accepting
    <3>3. req'[q] \in Accepting /\ req'[q] \notin Uploading
      BY <3>1, <3>2 DEF Uploading, Accepting
    <3> QED BY <3>1, <3>2, <3>3 DEF Stays, Uploads, Accepts
  <2> QED BY <1>1, <2>2, <2>3, Kinds
<1>2. ASSUME NEW q \in Reqs, q # r, q \notin rivals
      PROVE  Stays(q) /\ req'[q] = req[q]
  <2>1. req'[q] = req[q]
    BY <1>2 DEF Enter
  <2> QED BY <2>1 DEF Stays, TypeOK, Uploads, Accepts
<1>3. r \notin rivals
  OBVIOUS
<1>4. req' \in [Reqs -> Uploading \cup Accepting \cup {Idle}]
  <2>1. \A q \in Reqs : req'[q] \in Uploading \cup Accepting \cup {Idle}
    BY <1>0, <1>1, <1>2 DEF Stays
  <2>2. req' = [q \in Reqs |-> req'[q]]
    BY DEF Enter
  <2> QED BY <2>1, <2>2
<1> QED BY <1>0, <1>1, <1>2, <1>3, <1>4

(* How an upload goes on, or ends.                                         *)
LEMMA GoOnReq ==
  ASSUME TypeOK, NEW r \in Reqs, Uploads(r), NEW at \in {"put", "insert", "recv", "seen"},
         GoOn(r, at)
  PROVE  /\ req' \in [Reqs -> Uploading \cup Accepting \cup {Idle}]
         /\ skewed' \subseteq Users
         /\ \A q \in Reqs \ {r} : req'[q] = req[q]
         /\ \/ /\ req'[r] \in Uploading /\ req'[r].at = at
               /\ req'[r].id = req[r].id /\ req'[r].user = req[r].user
               /\ req'[r].alone = req[r].alone
               /\ skewed' = skewed
            \/ req'[r] = Idle /\ skewed' = skewed \cup {req[r].user}
<1>1. req[r] \in Uploading /\ req[r].user \in Users
  BY Kinds DEF Uploads
<1>2. CASE req' = [req EXCEPT ![r].at = at] /\ UNCHANGED skewed
  <2>1. req'[r] = [at |-> at, user |-> req[r].user, id |-> req[r].id, alone |-> req[r].alone]
    BY <1>1, <1>2 DEF TypeOK, Uploading
  <2>2. req'[r] \in Uploading
    BY <1>1, <2>1 DEF Uploading
  <2>3. \A q \in Reqs \ {r} : req'[q] = req[q]
    BY <1>2 DEF TypeOK
  <2>4. req' \in [Reqs -> Uploading \cup Accepting \cup {Idle}]
    BY <1>2, <2>2, <2>3 DEF TypeOK
  <2>5. skewed' \subseteq Users
    BY <1>2 DEF TypeOK
  <2> QED BY <1>2, <2>1, <2>2, <2>3, <2>4, <2>5
<1>3. CASE Return(r, FALSE)
  BY <1>1, <1>3 DEF TypeOK, Return
<1> QED BY <1>2, <1>3 DEF GoOn

(* An upload ends.                                                         *)
LEMMA ReturnReq ==
  ASSUME TypeOK, NEW r \in Reqs, Uploads(r), NEW ok \in BOOLEAN, Return(r, ok)
  PROVE  /\ req' \in [Reqs -> Uploading \cup Accepting \cup {Idle}]
         /\ skewed' \subseteq Users
         /\ \A q \in Reqs \ {r} : req'[q] = req[q]
         /\ req'[r] = Idle
BY Kinds DEF TypeOK, Return

-----------------------------------------------------------------------------
(* Nothing is deleted, and the time of a message stays.                    *)
Grows ==
  /\ Stored \subseteq Stored' /\ objects \subseteq objects' /\ accepted \subseteq accepted'
  /\ \A m \in Ids : time[m] # 0 => time'[m] = time[m]

(* The types, of each element.                                             *)
LEMMA MarksTyped ==
  ASSUME TypeOK
  PROVE  /\ \A u \in Users : recv[u] \in 0 .. MaxTime /\ seen[u] \in 0 .. MaxTime
         /\ \A m \in Ids : time[m] \in 0 .. MaxTime
         /\ now \in 1 .. MaxTime /\ MaxTime \in Nat
         /\ \A t \in Stored : t \in 1 .. MaxTime /\ rows[t] \in Message /\ rows[t].id \in Ids
                              /\ rows[t].user \in Users /\ rows[t].seen \in BOOLEAN
BY ConstantsAssumption DEF TypeOK, Times, Stored, Message

(* The base is kept by each step.                                          *)
LEMMA TickBase ==
  ASSUME Base, Tick
  PROVE  Base'
<1> USE DEF Base, Tick, store, marks, reader, history
<1>1. TypeOK'
  BY ConstantsAssumption DEF TypeOK, Times
<1>2. Stored' = Stored
  BY DEF Stored
<1>3. ClockBound'
  BY MarksTyped DEF Refs, ClockBound, TypeOK, Times
<1>4. RowTimes' /\ ReadRefs'
  BY <1>2 DEF Refs, RowTimes, ReadRefs
<1>5. CallRefs'
  BY <1>2 DEF Refs, CallRefs, Uploads, Accepts, TimeOf
<1>6. MarksPointToMessages'
  BY <1>2 DEF MarksPointToMessages
<1>7. SeenWasHeard'
  BY <1>2 DEF SeenWasHeard
<1> QED BY <1>1, <1>3, <1>4, <1>5, <1>6, <1>7 DEF Refs

LEMMA UploadBase ==
  ASSUME Base, NEW r \in Reqs, NEW u \in Users, Upload(r, u)
  PROVE  Base'
<1>0. TypeOK /\ Refs /\ MarksPointToMessages /\ SeenWasHeard /\ req[r] = Idle
  BY DEF Base, Upload
<1>u. UNCHANGED <<now, objects, rows, recv, seen, view, heard, late, skewed, accepted>>
  BY DEF Upload, store, marks, reader, history
<1> DEFINE call(m) == [at |-> "put", user |-> u, id |-> m, alone |-> Rivals(u) = {}]
<1>1. PICK m \in Ids : /\ time[m] = 0 /\ time' = [time EXCEPT ![m] = now]
                      /\ Enter(r, call(m), Rivals(u))
  BY DEF Upload
<1>2. call(m) \in Uploading /\ call(m).id = m /\ call(m).at = "put"
  BY DEF Uploading
<1>3. \A q \in Rivals(u) : q \in Reqs /\ req[q] # Idle
  BY IdleCall DEF Rivals, UploadsOf, Uploads, Accepts
<1> HIDE DEF call
<1>4. /\ req' \in [Reqs -> Uploading \cup Accepting \cup {Idle}]
      /\ req'[r] = call(m)
      /\ \A q \in Reqs \ {r} : Stays(q)
  BY <1>0, <1>1, <1>2, <1>3, EnterStays
<1>5. now \in 1 .. MaxTime /\ MaxTime \in Nat
  BY <1>0, MarksTyped
<1>6. TypeOK'
  BY <1>0, <1>u, <1>1, <1>4, <1>5 DEF TypeOK
<1>7. Stored' = Stored /\ 0 \notin Stored
  BY <1>u DEF Stored, Times
<1>8. \A k \in Ids : time'[k] = IF k = m THEN now ELSE time[k]
  BY <1>0, <1>1 DEF TypeOK
<1>9. ClockBound'
  BY <1>0, <1>u, <1>5, <1>8 DEF Refs, ClockBound
<1>10. RowTimes'
  BY <1>0, <1>u, <1>1, <1>7, <1>8, MarksTyped DEF Refs, RowTimes
<1>11. ReadRefs'
  <2>1. \A k \in DOMAIN view : view[k] \in Ids
    BY <1>0 DEF TypeOK
  <2> QED BY <1>0, <1>u, <1>1, <1>7, <1>8, <2>1 DEF Refs, ReadRefs
<1>12. CallRefs'
  <2>1. ASSUME NEW q \in Reqs, Uploads(q)'
        PROVE  /\ TimeOf(q)' # 0
               /\ req'[q].at # "put" => req'[q].id \in objects'
               /\ req'[q].at \in {"recv", "seen"} => TimeOf(q)' \in Stored'
    <3>1. CASE q = r
      BY <1>2, <1>4, <1>5, <1>8, <3>1 DEF TimeOf
    <3>2. CASE q # r
      <4>1. Stays(q) /\ Uploads(q) /\ req[q].id \in Ids
        BY <1>0, <1>4, <2>1, <3>2, Kinds DEF Stays, Uploads
      <4>2. req'[q].at = req[q].at /\ req'[q].id = req[q].id
        BY <4>1 DEF Stays
      <4>3. TimeOf(q) # 0 /\ TimeOf(q)' = TimeOf(q)
        BY <1>0, <1>1, <1>8, <4>1, <4>2 DEF Refs, CallRefs, TimeOf
      <4> QED BY <1>0, <1>u, <1>7, <4>1, <4>2, <4>3 DEF Refs, CallRefs
    <3> QED BY <3>1, <3>2
  <2>2. ASSUME NEW q \in Reqs, Accepts(q)'
        PROVE  req'[q].time \in accepted'
    <3>1. q # r
      <4>1. Uploading \cap Accepting = {}
        BY DEF Uploading, Accepting
      <4> QED BY <1>2, <1>4, <2>2, <4>1 DEF Accepts
    <3>2. Stays(q) /\ Accepts(q) /\ req'[q].time = req[q].time
      BY <1>4, <2>2, <3>1 DEF Stays, Accepts
    <3> QED BY <1>0, <1>u, <3>2 DEF Refs, CallRefs
  <2> QED BY <2>1, <2>2 DEF CallRefs
<1>13. MarksPointToMessages'
  BY <1>0, <1>u, <1>7 DEF MarksPointToMessages
<1>14. SeenWasHeard'
  <2> SUFFICES ASSUME NEW t \in Stored, rows[t].seen
               PROVE  \E k \in Ids : time'[k] = t /\ heard[k] = "yes"
    BY <1>u, <1>7 DEF SeenWasHeard
  <2>1. PICK k \in Ids : time[k] = t /\ heard[k] = "yes"
    BY <1>0 DEF SeenWasHeard
  <2>2. k # m
    BY <2>1, <1>1, <1>7
  <2> QED BY <2>1, <2>2, <1>8
<1> QED BY <1>6, <1>9, <1>10, <1>11, <1>12, <1>13, <1>14 DEF Base, Refs

(* A request goes on as its handler says, and refers to what is there.     *)
GoesOn(q) ==
  \/ ~Uploads(q)' /\ ~Accepts(q)'
  \/ Stays(q)
  \/ /\ Uploads(q) /\ Uploads(q)' /\ ~Accepts(q)' /\ req'[q].id = req[q].id
     /\ req'[q].at # "put" => req[q].id \in objects'
     /\ req'[q].at \in {"recv", "seen"} => TimeOf(q) \in Stored'
  \/ ~Uploads(q)' /\ Accepts(q)' /\ req'[q].time \in accepted'

(* A request that no step touches.                                         *)
LEMMA SameStays ==
  ASSUME TypeOK, NEW q \in Reqs, req'[q] = req[q]
  PROVE  Stays(q)
BY DEF Stays, TypeOK, Uploads, Accepts

(* What requests refer to is kept, when each goes on so ...                *)
LEMMA CallRefsKept ==
  ASSUME Base, Grows, UNCHANGED time, \A q \in Reqs : GoesOn(q)
  PROVE  CallRefs'
<1>0. TypeOK /\ CallRefs
  BY DEF Base, Refs
<1>1. ASSUME NEW q \in Reqs, Uploads(q)'
      PROVE  /\ TimeOf(q)' # 0
             /\ req'[q].at # "put" => req'[q].id \in objects'
             /\ req'[q].at \in {"recv", "seen"} => TimeOf(q)' \in Stored'
  <2>1. CASE Stays(q)
    <3>1. Uploads(q) /\ req'[q].at = req[q].at /\ req'[q].id = req[q].id
      BY <1>1, <2>1 DEF Stays, Uploads
    <3>2. TimeOf(q)' = TimeOf(q)
      BY <3>1 DEF TimeOf
    <3> QED BY <1>0, <3>1, <3>2 DEF CallRefs, Grows
  <2>2. CASE ~Stays(q)
    <3>1. /\ Uploads(q) /\ req'[q].id = req[q].id
          /\ req'[q].at # "put" => req[q].id \in objects'
          /\ req'[q].at \in {"recv", "seen"} => TimeOf(q) \in Stored'
      BY <1>1, <2>2 DEF GoesOn
    <3>2. TimeOf(q)' = TimeOf(q)
      BY <3>1 DEF TimeOf
    <3> QED BY <1>0, <3>1, <3>2 DEF CallRefs
  <2> QED BY <2>1, <2>2
<1>2. ASSUME NEW q \in Reqs, Accepts(q)'
      PROVE  req'[q].time \in accepted'
  <2>1. CASE Stays(q)
    BY <1>0, <1>2, <2>1 DEF Stays, Accepts, CallRefs, Grows
  <2>2. CASE ~Stays(q)
    BY <1>2, <2>2 DEF GoesOn
  <2> QED BY <2>1, <2>2
<1> QED BY <1>1, <1>2 DEF CallRefs

(* ... and so is what the client refers to, as nothing is deleted.         *)
LEMMA ReadRefsKept ==
  ASSUME Base, Grows, UNCHANGED <<time, view, heard>>
  PROVE  ReadRefs'
BY DEF Base, Refs, ReadRefs, Grows

(* A handler of an upload leaves the clock, the reader and the acceptances,*)
(* and all requests but its own.                                           *)
UploadStep(r) ==
  /\ UNCHANGED <<now, time, view, heard, accepted>>
  /\ \A q \in Reqs \ {r} : req'[q] = req[q]
  /\ req' \in [Reqs -> Uploading \cup Accepting \cup {Idle}]

(* All but the rows and the marks is in order after it.                    *)
LEMMA UploadStepBase ==
  ASSUME Base, NEW r \in Reqs, UploadStep(r), Grows, GoesOn(r), skewed' \subseteq Users
  PROVE  ClockBound' /\ CallRefs' /\ ReadRefs'
<1>1. \A q \in Reqs : GoesOn(q)
  BY SameStays DEF UploadStep, GoesOn, Base
<1>2. ClockBound'
  BY DEF Base, Refs, ClockBound, UploadStep
<1> QED BY <1>1, <1>2, CallRefsKept, ReadRefsKept DEF UploadStep

(* Rows that are left as they are, are in order.                           *)
LEMMA RowsKept ==
  ASSUME Base, Grows, UNCHANGED <<time, rows, heard>>
  PROVE  RowTimes' /\ SeenWasHeard' /\ Stored' = Stored
BY DEF Base, Refs, RowTimes, SeenWasHeard, Stored

(* Nothing is deleted when the rows and times stay.                        *)
LEMMA SameGrows ==
  ASSUME UNCHANGED <<rows, time>>, objects \subseteq objects', accepted \subseteq accepted'
  PROVE  Grows
BY DEF Grows, Stored

(* A request that ended refers to nothing.                                 *)
LEMMA IdleGoesOn ==
  ASSUME NEW r \in Reqs, req'[r] = Idle
  PROVE  GoesOn(r)
BY IdleCall DEF GoesOn, Uploads, Accepts

(* The steps of an upload.                                                 *)
LEMMA FailBase ==
  ASSUME Base, NEW r \in Reqs, Fail(r)
  PROVE  Base'
<1>0. TypeOK /\ MarksPointToMessages
  BY DEF Base
<1>u. UNCHANGED <<now, time, objects, rows, recv, seen, view, heard, late, accepted>>
  BY DEF Fail, clock, store, marks, reader
<1>1. /\ req' \in [Reqs -> Uploading \cup Accepting \cup {Idle}] /\ skewed' \subseteq Users
      /\ \A q \in Reqs \ {r} : req'[q] = req[q]
      /\ req'[r] = Idle
  BY <1>0, ReturnReq DEF Fail
<1>2. Grows
  BY <1>u, SameGrows
<1>3. TypeOK'
  BY <1>0, <1>u, <1>1 DEF TypeOK
<1>4. ClockBound' /\ CallRefs' /\ ReadRefs'
  BY <1>u, <1>1, <1>2, IdleGoesOn, UploadStepBase DEF UploadStep
<1>5. RowTimes' /\ SeenWasHeard' /\ Stored' = Stored
  BY <1>u, <1>2, RowsKept
<1>6. MarksPointToMessages'
  BY <1>0, <1>u, <1>5 DEF MarksPointToMessages
<1> QED BY <1>3, <1>4, <1>5, <1>6 DEF Base, Refs

LEMMA PutBase ==
  ASSUME Base, NEW r \in Reqs, Put(r)
  PROVE  Base'
<1>0. TypeOK /\ MarksPointToMessages /\ Uploads(r)
  BY Kinds DEF Base, Put
<1>u. UNCHANGED <<now, time, rows, recv, seen, view, heard, late, accepted>>
  BY DEF Put, clock, marks, reader
<1>1. /\ req' \in [Reqs -> Uploading \cup Accepting \cup {Idle}] /\ skewed' \subseteq Users
      /\ \A q \in Reqs \ {r} : req'[q] = req[q]
      /\ \/ /\ req'[r] \in Uploading /\ req'[r].at = "insert" /\ req'[r].id = req[r].id
         \/ req'[r] = Idle
  BY <1>0, GoOnReq DEF Put
<1>2. objects' = objects \cup {req[r].id} /\ req[r].id \in Ids
  BY <1>0, Kinds DEF Put, PutObject
<1>3. Grows
  BY <1>u, <1>2, SameGrows
<1>4. TypeOK'
  BY <1>0, <1>u, <1>1, <1>2 DEF TypeOK
<1>5. GoesOn(r)
  <2>1. CASE req'[r] = Idle
    BY <2>1, IdleGoesOn
  <2>2. CASE req'[r] # Idle
    <3>1. req'[r] \in Uploading /\ req'[r] \notin Accepting
      BY <1>1, <2>2 DEF Uploading, Accepting
    <3> QED BY <1>0, <1>1, <1>2, <2>2, <3>1 DEF GoesOn, Uploads, Accepts
  <2> QED BY <2>1, <2>2
<1>6. ClockBound' /\ CallRefs' /\ ReadRefs'
  BY <1>u, <1>1, <1>3, <1>5, UploadStepBase DEF UploadStep
<1>7. RowTimes' /\ SeenWasHeard' /\ Stored' = Stored
  BY <1>u, <1>3, RowsKept
<1>8. MarksPointToMessages'
  BY <1>0, <1>u, <1>2, <1>7 DEF MarksPointToMessages
<1> QED BY <1>4, <1>6, <1>7, <1>8 DEF Base, Refs

(* The row that is inserted, where there was none or another message's.    *)
LEMMA InsertRow ==
  ASSUME Base, NEW r \in Reqs, Insert(r)
  PROVE  /\ TimeOf(r) \in Times
         /\ rows' \in [Times -> Message \cup {None}]
         /\ Stored' = Stored \cup {TimeOf(r)}
         /\ rows'[TimeOf(r)].id = req[r].id /\ rows'[TimeOf(r)].user = req[r].user
         /\ rows'[TimeOf(r)].seen => TimeOf(r) \in Stored /\ rows[TimeOf(r)].seen
         /\ \A t \in Stored' : t # TimeOf(r) => t \in Stored /\ rows'[t] = rows[t]
<1>0. TypeOK /\ Refs /\ Uploads(r)
  BY Kinds DEF Base, Insert
<1> DEFINE n == TimeOf(r)
<1>1. req[r].id \in Ids /\ req[r].user \in Users /\ n \in Times
  <2>1. req[r].id \in Ids /\ req[r].user \in Users /\ n \in 0 .. MaxTime
    BY <1>0, Kinds, MarksTyped DEF TimeOf
  <2>2. n # 0
    BY <1>0 DEF Refs, CallRefs
  <2> HIDE DEF n
  <2> QED BY <2>1, <2>2, ConstantsAssumption DEF Times
<1> DEFINE row == RowOf(r)
<1>2. row \in Message
  <2>1. CASE rows[n] # None
    <3>1. rows[n] \in Message /\ rows[n].seen \in BOOLEAN
      BY <1>0, <1>1, <2>1 DEF TypeOK, Message
    <3> QED BY <1>1, <2>1, <3>1 DEF RowOf, Message
  <2>2. CASE rows[n] = None
    BY <1>1, <2>2 DEF RowOf, Message
  <2> QED BY <2>1, <2>2
<1>3. rows' = [rows EXCEPT ![n] = row] /\ row # None
  BY <1>2, ConstantsAssumption DEF Insert
<1>4. row.id = req[r].id /\ row.user = req[r].user /\ (row.seen => n \in Stored /\ rows[n].seen)
  BY <1>1 DEF RowOf, Stored
<1> HIDE DEF row, n
<1>5. /\ rows' \in [Times -> Message \cup {None}] /\ rows'[n] = row
      /\ \A t \in Times : t # n => rows'[t] = rows[t]
  BY <1>0, <1>1, <1>2, <1>3 DEF TypeOK
<1>6. Stored' = Stored \cup {n}
  BY <1>1, <1>3, <1>5 DEF Stored
<1>7. \A t \in Stored' : t # n => t \in Stored /\ rows'[t] = rows[t]
  BY <1>5 DEF Stored
<1> QED BY <1>1, <1>4, <1>5, <1>6, <1>7 DEF n

(* The id and the time of the new row agree, and it is seen only if the row *)
(* that it replaces was.                                                   *)
LEMMA InsertBase ==
  ASSUME Base, NEW r \in Reqs, Insert(r)
  PROVE  Base'
<1>0. TypeOK /\ Refs /\ MarksPointToMessages /\ SeenWasHeard /\ Uploads(r) /\ req[r].at = "insert"
  BY Kinds DEF Base, Insert, At
<1>u. UNCHANGED <<now, time, objects, recv, seen, view, heard, accepted>>
  BY DEF Insert, clock, marks, reader
<1>1. /\ req' \in [Reqs -> Uploading \cup Accepting \cup {Idle}] /\ skewed' \subseteq Users
      /\ \A q \in Reqs \ {r} : req'[q] = req[q]
      /\ \/ /\ req'[r] \in Uploading /\ req'[r].at = "recv" /\ req'[r].id = req[r].id
         \/ req'[r] = Idle
  BY <1>0, GoOnReq DEF Insert
<1>2. req[r].id \in Ids /\ req[r].id \in objects
  BY <1>0, Kinds DEF Refs, CallRefs
<1>3. /\ rows' \in [Times -> Message \cup {None}]
      /\ Stored' = Stored \cup {TimeOf(r)}
      /\ rows'[TimeOf(r)].id = req[r].id
      /\ rows'[TimeOf(r)].seen => TimeOf(r) \in Stored /\ rows[TimeOf(r)].seen
      /\ \A t \in Stored' : t # TimeOf(r) => t \in Stored /\ rows'[t] = rows[t]
  BY InsertRow
<1>4. TypeOK'
  <2>1. late' \subseteq Ids
    BY <1>0, <1>2 DEF TypeOK, Insert
  <2> QED BY <1>0, <1>u, <1>1, <1>3, <2>1 DEF TypeOK
<1>5. Grows
  BY <1>u, <1>3 DEF Grows
<1>6. GoesOn(r)
  <2>1. CASE req'[r] = Idle
    BY <2>1, IdleGoesOn
  <2>2. CASE req'[r] # Idle
    <3>1. req'[r] \in Uploading /\ req'[r] \notin Accepting
      BY <1>1, <2>2 DEF Uploading, Accepting
    <3> QED BY <1>0, <1>1, <1>2, <1>3, <1>u, <2>2, <3>1 DEF GoesOn, Uploads, Accepts
  <2> QED BY <2>1, <2>2
<1>7. ClockBound' /\ CallRefs' /\ ReadRefs'
  BY <1>u, <1>1, <1>5, <1>6, UploadStepBase DEF UploadStep
<1>8. RowTimes'
  BY <1>0, <1>u, <1>3 DEF Refs, RowTimes, TimeOf
<1>9. MarksPointToMessages'
  BY <1>0, <1>u, <1>2, <1>3 DEF MarksPointToMessages
<1>10. SeenWasHeard'
  BY <1>0, <1>u, <1>3 DEF SeenWasHeard
<1> QED BY <1>4, <1>7, <1>8, <1>9, <1>10 DEF Base, Refs

(* A mark is put at the row that was inserted before.                      *)
LEMMA MarkRecvBase ==
  ASSUME Base, NEW r \in Reqs, MarkRecv(r)
  PROVE  Base'
<1>0. TypeOK /\ Refs /\ MarksPointToMessages /\ Uploads(r) /\ req[r].at = "recv"
  BY Kinds DEF Base, MarkRecv, At
<1>u. UNCHANGED <<now, time, objects, rows, seen, view, heard, late, accepted>>
  BY DEF MarkRecv, clock, store, reader
<1>1. /\ req' \in [Reqs -> Uploading \cup Accepting \cup {Idle}] /\ skewed' \subseteq Users
      /\ \A q \in Reqs \ {r} : req'[q] = req[q]
      /\ \/ /\ req'[r] \in Uploading /\ req'[r].at = "seen" /\ req'[r].id = req[r].id
         \/ req'[r] = Idle
  BY <1>0, GoOnReq DEF MarkRecv
<1>2. TimeOf(r) \in Stored /\ req[r].id \in objects /\ TimeOf(r) \in 0 .. MaxTime
  BY <1>0, Kinds, MarksTyped DEF Refs, CallRefs, TimeOf
<1>3. PICK u \in Users : recv' = [recv EXCEPT ![u] = TimeOf(r)]
  BY DEF MarkRecv, Receivers, Mark
<1>4. TypeOK'
  <2>1. recv' \in [Users -> 0 .. MaxTime]
    BY <1>0, <1>2, <1>3 DEF TypeOK
  <2> QED BY <1>0, <1>u, <1>1, <2>1 DEF TypeOK
<1>5. Grows
  BY <1>u, SameGrows
<1>6. RowTimes' /\ SeenWasHeard' /\ Stored' = Stored
  BY <1>u, <1>5, RowsKept
<1>7. GoesOn(r)
  <2>1. CASE req'[r] = Idle
    BY <2>1, IdleGoesOn
  <2>2. CASE req'[r] # Idle
    <3>1. req'[r] \in Uploading /\ req'[r] \notin Accepting
      BY <1>1, <2>2 DEF Uploading, Accepting
    <3> QED BY <1>0, <1>1, <1>2, <1>6, <1>u, <2>2, <3>1 DEF GoesOn, Uploads, Accepts
  <2> QED BY <2>1, <2>2
<1>8. ClockBound' /\ CallRefs' /\ ReadRefs'
  BY <1>u, <1>1, <1>5, <1>7, UploadStepBase DEF UploadStep
<1>9. MarksPointToMessages'
  <2>1. \A v \in Users : recv'[v] = recv[v] \/ recv'[v] = TimeOf(r)
    BY <1>0, <1>3 DEF TypeOK
  <2> QED BY <1>0, <1>u, <1>2, <1>6, <2>1 DEF MarksPointToMessages
<1> QED BY <1>4, <1>6, <1>8, <1>9 DEF Base, Refs

LEMMA MarkSeenBase ==
  ASSUME Base, NEW r \in Reqs, MarkSeen(r)
  PROVE  Base'
<1>0. TypeOK /\ Refs /\ MarksPointToMessages /\ Uploads(r) /\ req[r].at = "seen"
  BY Kinds DEF Base, MarkSeen, At
<1>u. UNCHANGED <<now, time, objects, rows, recv, view, heard, late, accepted>>
  BY DEF MarkSeen, clock, store, reader
<1>1. /\ req' \in [Reqs -> Uploading \cup Accepting \cup {Idle}] /\ skewed' \subseteq Users
      /\ \A q \in Reqs \ {r} : req'[q] = req[q]
      /\ req'[r] = Idle
  BY <1>0, ReturnReq DEF MarkSeen
<1>2. TimeOf(r) \in Stored /\ TimeOf(r) \in 0 .. MaxTime
  BY <1>0, Kinds, MarksTyped DEF Refs, CallRefs, TimeOf
<1>3. seen' = [seen EXCEPT ![req[r].user] = TimeOf(r)]
  BY DEF MarkSeen, Mark
<1>4. TypeOK'
  <2>1. seen' \in [Users -> 0 .. MaxTime]
    BY <1>0, <1>2, <1>3 DEF TypeOK
  <2> QED BY <1>0, <1>u, <1>1, <2>1 DEF TypeOK
<1>5. Grows
  BY <1>u, SameGrows
<1>6. RowTimes' /\ SeenWasHeard' /\ Stored' = Stored
  BY <1>u, <1>5, RowsKept
<1>7. ClockBound' /\ CallRefs' /\ ReadRefs'
  BY <1>u, <1>1, <1>5, IdleGoesOn, UploadStepBase DEF UploadStep
<1>8. MarksPointToMessages'
  <2>1. \A v \in Users : seen'[v] = seen[v] \/ seen'[v] = TimeOf(r)
    BY <1>0, <1>3 DEF TypeOK
  <2> QED BY <1>0, <1>u, <1>2, <1>6, <2>1 DEF MarksPointToMessages
<1> QED BY <1>4, <1>6, <1>7, <1>8 DEF Base, Refs

-----------------------------------------------------------------------------
(* The steps of an acceptance.                                             *)
LEMMA AcceptBase ==
  ASSUME Base, NEW r \in Reqs, NEW u \in Users, Accept(r, u)
  PROVE  Base'
<1>0. TypeOK /\ Refs /\ MarksPointToMessages /\ req[r] = Idle
  BY DEF Base, Accept
<1>u. /\ UNCHANGED <<now, time, objects, rows, recv, seen, view, heard, late, skewed>>
      /\ accepted' = accepted \cup {now}
  BY DEF Accept, clock, store, marks, reader
<1> DEFINE rivals == {q \in Reqs : req[q] # Idle}
           call == [at |-> "own", user |-> u, time |-> now, alone |-> rivals = {}]
<1>1. now \in Times
  BY <1>0 DEF TypeOK
<1>2. call \in Accepting /\ call \notin Uploading /\ call.time = now
  BY <1>1 DEF Accepting, Uploading
<1>3. Enter(r, call, rivals) /\ \A q \in rivals : q \in Reqs /\ req[q] # Idle
  BY DEF Accept
<1> HIDE DEF call, rivals
<1>4. /\ req' \in [Reqs -> Uploading \cup Accepting \cup {Idle}]
      /\ req'[r] = call
      /\ \A q \in Reqs \ {r} : Stays(q)
  BY <1>0, <1>2, <1>3, EnterStays
<1>5. TypeOK'
  BY <1>0, <1>u, <1>1, <1>4 DEF TypeOK
<1>6. Grows
  BY <1>u, SameGrows
<1>7. \A q \in Reqs : GoesOn(q)
  BY <1>u, <1>2, <1>4 DEF GoesOn, Uploads, Accepts
<1>8. ClockBound' /\ CallRefs' /\ ReadRefs'
  <2>1. ClockBound'
    BY <1>0, <1>1, <1>u DEF Refs, ClockBound, Times
  <2> QED BY <1>u, <1>6, <1>7, <2>1, CallRefsKept, ReadRefsKept
<1>9. RowTimes' /\ SeenWasHeard' /\ Stored' = Stored
  BY <1>u, <1>6, RowsKept
<1>10. MarksPointToMessages'
  BY <1>0, <1>u, <1>9 DEF MarksPointToMessages
<1> QED BY <1>5, <1>8, <1>9, <1>10 DEF Base, Refs

(* The two halves of an acceptance, and its failure.                       *)
AcceptStep(r) ==
  /\ Accepts(r)
  /\ UNCHANGED <<now, time, objects, rows, view, heard, late, skewed, accepted>>
  /\ \A q \in Reqs \ {r} : req'[q] = req[q]
  /\ req' \in [Reqs -> Uploading \cup Accepting \cup {Idle}]
  /\ \/ req'[r] = Idle
     \/ req'[r] \in Accepting /\ req'[r] \notin Uploading /\ req'[r].time = req[r].time
  /\ \/ UNCHANGED marks
     \/ \E u \in Users : MarkBoth(r, u)

(* Each of them is one of these.                                           *)
LEMMA AcceptsStep ==
  ASSUME TypeOK, NEW r \in Reqs, AcceptOwn(r) \/ AcceptOther(r) \/ AcceptFails(r)
  PROVE  AcceptStep(r)
<1>1. Accepts(r) /\ req[r] \in Accepting
  BY Kinds DEF AcceptOwn, AcceptOther, AcceptFails, Accepts
<1>2. req[r].user \in Users
  BY <1>1, Kinds
<1> USE DEF AcceptStep, clock, store, reader, history
<1>3. CASE AcceptOwn(r)
  <2>1. PICK next \in {[req[r] EXCEPT !.at = "other"], Idle} : req' = [req EXCEPT ![r] = next]
    BY <1>3 DEF AcceptOwn
  <2>2. CASE next = Idle
    BY <1>1, <1>2, <1>3, <2>1, <2>2 DEF AcceptOwn, TypeOK
  <2>3. CASE next = [req[r] EXCEPT !.at = "other"]
    <3>1. next = [at |-> "other", user |-> req[r].user, time |-> req[r].time,
                   alone |-> req[r].alone]
      BY <1>1, <2>3 DEF Accepting
    <3>2. next \in Accepting /\ next \notin Uploading /\ next.time = req[r].time
      BY <1>1, <3>1 DEF Accepting, Uploading
    <3> HIDE <2>3
    <3>3. req' \in [Reqs -> Uploading \cup Accepting \cup {Idle}] /\ req'[r] = next
          /\ \A q \in Reqs \ {r} : req'[q] = req[q]
      BY <2>1, <3>2 DEF TypeOK
    <3> QED BY <1>1, <1>2, <1>3, <3>2, <3>3 DEF AcceptOwn
  <2> QED BY <2>2, <2>3
<1>4. CASE AcceptOther(r)
  BY <1>1, <1>4 DEF AcceptOther, TypeOK
<1>5. CASE AcceptFails(r)
  BY <1>1, <1>5 DEF AcceptFails, TypeOK
<1> QED BY <1>3, <1>4, <1>5

(* Marks are put at the time of the acceptance.                            *)
LEMMA AcceptStepBase ==
  ASSUME Base, NEW r \in Reqs, AcceptStep(r)
  PROVE  Base'
<1>0. TypeOK /\ Refs /\ MarksPointToMessages /\ Accepts(r)
  BY DEF Base, AcceptStep
<1>u. UNCHANGED <<now, time, objects, rows, view, heard, late, skewed, accepted>>
  BY DEF AcceptStep
<1>1. req[r].time \in Times /\ req[r].time \in accepted
  BY <1>0, Kinds DEF Refs, CallRefs
<1>2. \A v \in Users : /\ recv'[v] \in {recv[v], req[r].time}
                       /\ seen'[v] \in {seen[v], req[r].time}
  BY <1>0 DEF AcceptStep, MarkBoth, marks, TypeOK
<1>3. recv' \in [Users -> 0 .. MaxTime] /\ seen' \in [Users -> 0 .. MaxTime]
  <2>1. req[r].time \in 0 .. MaxTime
    BY <1>1, ConstantsAssumption DEF Times
  <2>2. CASE UNCHANGED marks
    BY <1>0, <2>2 DEF marks, TypeOK
  <2>3. CASE \E u \in Users : MarkBoth(r, u)
    <3>1. PICK u \in Users : MarkBoth(r, u)
      BY <2>3
    <3> QED BY <1>0, <2>1, <3>1 DEF MarkBoth, TypeOK
  <2> QED BY <2>2, <2>3 DEF AcceptStep
<1>4. TypeOK'
  BY <1>0, <1>u, <1>3 DEF TypeOK, AcceptStep
<1>5. Grows
  BY <1>u, SameGrows
<1>6. GoesOn(r)
  BY <1>0, <1>1, <1>u, IdleGoesOn DEF AcceptStep, GoesOn, Uploads, Accepts
<1>7. ClockBound' /\ CallRefs' /\ ReadRefs'
  <2>1. skewed' \subseteq Users
    BY <1>0, <1>u DEF TypeOK
  <2>2. UploadStep(r)
    BY <1>u DEF AcceptStep, UploadStep
  <2> QED BY <1>5, <1>6, <2>1, <2>2, UploadStepBase
<1>8. RowTimes' /\ SeenWasHeard' /\ Stored' = Stored
  BY <1>u, <1>5, RowsKept
<1>9. MarksPointToMessages'
  BY <1>0, <1>1, <1>2, <1>u, <1>8 DEF MarksPointToMessages
<1> QED BY <1>4, <1>7, <1>8, <1>9 DEF Base, Refs

-----------------------------------------------------------------------------
(* The client listens, and the row is marked in the background.            *)
LEMMA ListenBase ==
  ASSUME Base, NEW m \in Ids, Listen(m)
  PROVE  Base'
<1>0. TypeOK /\ Refs /\ MarksPointToMessages /\ SeenWasHeard
  BY DEF Base
<1>u. UNCHANGED <<now, time, objects, rows, recv, seen, view, req, late, skewed, accepted>>
  BY DEF Listen, clock, store, marks, history
<1>1. heard' = [heard EXCEPT ![m] = "marking"] /\ heard[m] = "no"
  BY DEF Listen
<1>2. time[m] \in Stored
  BY <1>0 DEF Listen, ToSet, Refs, ReadRefs
<1>3. TypeOK'
  BY <1>0, <1>u, <1>1 DEF TypeOK
<1>4. Grows /\ Stored' = Stored
  BY <1>u, SameGrows DEF Stored
<1>5. \A q \in Reqs : GoesOn(q)
  BY <1>0, <1>u, SameStays DEF GoesOn
<1>6. ClockBound' /\ RowTimes' /\ CallRefs'
  BY <1>0, <1>u, <1>4, <1>5, CallRefsKept DEF Refs, ClockBound, RowTimes
<1>7. ReadRefs'
  BY <1>0, <1>u, <1>1, <1>2, <1>4 DEF Refs, ReadRefs, TypeOK
<1>8. MarksPointToMessages'
  BY <1>0, <1>u, <1>4 DEF MarksPointToMessages
<1>9. SeenWasHeard'
  <2>1. \A k \in Ids : heard[k] = "yes" => heard'[k] = "yes"
    BY <1>0, <1>1 DEF TypeOK
  <2> QED BY <1>0, <1>u, <1>4, <2>1 DEF SeenWasHeard
<1> QED BY <1>3, <1>6, <1>7, <1>8, <1>9 DEF Base, Refs

LEMMA MarkHeardBase ==
  ASSUME Base, NEW m \in Ids, MarkHeard(m)
  PROVE  /\ Base' /\ Stored' = Stored
         /\ \A t \in Stored : rows'[t].id = rows[t].id /\ rows'[t].user = rows[t].user
<1>0. TypeOK /\ Refs /\ MarksPointToMessages /\ SeenWasHeard
  BY DEF Base
<1>u. UNCHANGED <<now, time, objects, recv, seen, view, req, late, skewed, accepted>>
  BY DEF MarkHeard, clock, marks, history
<1>1. heard' = [heard EXCEPT ![m] = "yes"] /\ heard[m] = "marking"
  BY DEF MarkHeard
<1>2. time[m] \in Stored /\ time[m] \in Times /\ rows[time[m]] \in Message
  <2>1. time[m] \in Stored
    BY <1>0, <1>1 DEF Refs, ReadRefs
  <2> QED BY <1>0, <2>1, MarksTyped DEF Stored
<1>3. /\ rows' \in [Times -> Message \cup {None}]
      /\ \A t \in Times : t # time[m] => rows'[t] = rows[t]
      /\ rows'[time[m]] \in Message
      /\ rows'[time[m]].id = rows[time[m]].id /\ rows'[time[m]].user = rows[time[m]].user
  <2>1. CASE UNCHANGED rows
    BY <1>0, <1>2, <2>1 DEF TypeOK
  <2>2. CASE rows' = [rows EXCEPT ![time[m]].seen = TRUE]
    <3>1. PICK old \in Message : old = rows[time[m]]
      BY <1>2
    <3> DEFINE row == [id |-> old.id, user |-> old.user, seen |-> TRUE]
    <3>2. row \in Message
      BY DEF Message
    <3>3. ASSUME NEW new, new = [old EXCEPT !.seen = TRUE]
          PROVE  new = row
      BY <3>3 DEF Message
    <3>4. rows' = [rows EXCEPT ![time[m]] = row]
      BY <2>2, <3>1, <3>3
    <3> QED BY <1>0, <1>2, <3>1, <3>2, <3>4 DEF TypeOK
  <2> QED BY <2>1, <2>2 DEF MarkHeard
<1>4. Stored' = Stored
  <2>1. rows'[time[m]] # None
    BY <1>3, ConstantsAssumption
  <2> QED BY <1>2, <1>3, <2>1 DEF Stored
<1>5. TypeOK'
  BY <1>0, <1>u, <1>1, <1>3 DEF TypeOK
<1>6. Grows
  BY <1>u, <1>4 DEF Grows
<1>7. \A q \in Reqs : GoesOn(q)
  BY <1>0, <1>u, SameStays DEF GoesOn
<1>8. \A t \in Stored : rows'[t].id = rows[t].id /\ rows'[t].user = rows[t].user
  BY <1>3 DEF Stored
<1>9. ClockBound' /\ RowTimes' /\ CallRefs'
  BY <1>0, <1>u, <1>4, <1>6, <1>7, <1>8, CallRefsKept DEF Refs, ClockBound, RowTimes
<1>10. ReadRefs'
  BY <1>0, <1>u, <1>1, <1>2, <1>4 DEF Refs, ReadRefs, TypeOK
<1>11. MarksPointToMessages'
  BY <1>0, <1>u, <1>4, <1>8 DEF MarksPointToMessages
<1>12. SeenWasHeard'
  <2>1. \A k \in Ids : heard[k] = "yes" => heard'[k] = "yes"
    BY <1>0, <1>1 DEF TypeOK
  <2>2. heard'[m] = "yes"
    BY <1>0, <1>1 DEF TypeOK
  <2>3. \A t \in Stored : t # time[m] => rows'[t] = rows[t]
    BY <1>3 DEF Stored
  <2> QED BY <1>0, <1>u, <1>4, <2>1, <2>2, <2>3 DEF SeenWasHeard
<1> QED BY <1>4, <1>5, <1>8, <1>9, <1>10, <1>11, <1>12 DEF Base, Refs

-----------------------------------------------------------------------------
(* Pages.                                                                  *)

(* A sequence of messages in order that leaves none out between its ends.  *)
Whole(v) ==
  /\ v \in Seq(Ids)
  /\ \A k \in 1 .. Len(v) : time[v[k]] \in Stored
  /\ \A i, j \in 1 .. Len(v) : i < j => time[v[i]] < time[v[j]]
  /\ \A i, j \in 1 .. Len(v), t \in Stored :
       time[v[i]] <= t /\ t <= time[v[j]] =>
         \/ rows[t].id \in late
         \/ \E k \in 1 .. Len(v) : v[k] = rows[t].id

(* The key of a row is a number.                                           *)
LEMMA StoredTimes == \A t \in Stored : t \in Nat
BY DEF Stored, Times

(* What PagesHaveNoGaps says of the view, for any two of its messages.     *)
LEMMA WholeView ==
  ASSUME Base, PagesHaveNoGaps
  PROVE  Whole(view)
<1>1. view \in Seq(Ids) /\ DOMAIN view = 1 .. Len(view) /\ Len(view) \in Nat
  BY DEF Base, TypeOK
<1>2. \A k \in 1 .. Len(view) : time[view[k]] \in Stored
  BY <1>1 DEF Base, Refs, ReadRefs
<1>3. \A i, j \in 1 .. Len(view) : i < j => time[view[i]] < time[view[j]]
  BY <1>1 DEF PagesHaveNoGaps
<1>4. ASSUME NEW i \in 1 .. Len(view), NEW j \in 1 .. Len(view), NEW t \in Stored,
             time[view[i]] <= t, t <= time[view[j]]
      PROVE  rows[t].id \in late \/ \E k \in 1 .. Len(view) : view[k] = rows[t].id
  <2>1. view # <<>> /\ Head(view) = view[1] /\ Last(view) = view[Len(view)]
    BY <1>1, <1>4 DEF Last
  <2>2. 1 \in 1 .. Len(view) /\ Len(view) \in 1 .. Len(view)
    BY <1>1, <1>4
  <2>3. i = 1 \/ 1 < i
    BY <1>1
  <2>4. j = Len(view) \/ j < Len(view)
    <3>1. \A n \in Nat : j \in 1 .. n => j = n \/ j < n
      OBVIOUS
    <3> QED BY <1>1, <3>1
  <2>5. /\ time[view[1]] \in Nat /\ time[view[i]] \in Nat /\ t \in Nat
        /\ time[view[j]] \in Nat /\ time[view[Len(view)]] \in Nat
    BY <1>2, <2>2, StoredTimes
  <2>6. i = 1 \/ time[view[1]] < time[view[i]]
    BY <1>3, <2>2, <2>3
  <2>7. j = Len(view) \/ time[view[j]] < time[view[Len(view)]]
    BY <1>3, <2>2, <2>4
  <2>8. time[view[1]] <= t
    BY <1>4, <2>5, <2>6
  <2>9. t <= time[view[Len(view)]]
    BY <1>4, <2>5, <2>7
  <2>10. rows[t].id \in ToSet(view) \cup late
    BY <2>1, <2>8, <2>9 DEF PagesHaveNoGaps
  <2> QED BY <1>1, <2>10 DEF ToSet
<1> QED BY <1>1, <1>2, <1>3, <1>4 DEF Whole

(* The state after a client has read.                                      *)
LEMMA ReadsWhole ==
  ASSUME Base, NEW v, Whole(v), Reads(v)
  PROVE  Base' /\ PagesHaveNoGaps'
<1>0. TypeOK /\ Refs /\ MarksPointToMessages /\ SeenWasHeard
  BY DEF Base
<1>u. /\ UNCHANGED <<now, time, objects, rows, recv, seen, req, heard, late, skewed, accepted>>
      /\ view' = v
  BY DEF Reads, clock, store, marks, history
<1>1. v \in Seq(Ids) /\ DOMAIN v = 1 .. Len(v) /\ Len(v) \in Nat
  BY DEF Whole
<1>2. TypeOK'
  BY <1>0, <1>u, <1>1 DEF TypeOK
<1>3. Grows /\ Stored' = Stored
  BY <1>u, SameGrows DEF Stored
<1>4. \A q \in Reqs : GoesOn(q)
  BY <1>0, <1>u, SameStays DEF GoesOn
<1>5. ClockBound' /\ RowTimes' /\ CallRefs'
  BY <1>0, <1>u, <1>3, <1>4, CallRefsKept DEF Refs, ClockBound, RowTimes
<1>6. ReadRefs'
  BY <1>0, <1>u, <1>1, <1>3 DEF Refs, ReadRefs, Whole
<1>7. MarksPointToMessages' /\ SeenWasHeard'
  BY <1>0, <1>u, <1>3 DEF MarksPointToMessages, SeenWasHeard
<1>8. PagesHaveNoGaps'
  <2>1. \A i, j \in DOMAIN v : i < j => time[v[i]] < time[v[j]]
    BY <1>1 DEF Whole
  <2>2. ASSUME v # <<>>, NEW t \in Stored, time[Head(v)] <= t, t <= time[Last(v)]
        PROVE  rows[t].id \in ToSet(v) \cup late
    <3>1. Head(v) = v[1] /\ Last(v) = v[Len(v)] /\ 1 \in 1 .. Len(v) /\ Len(v) \in 1 .. Len(v)
      BY <1>1, <2>2 DEF Last
    <3>2. rows[t].id \in late \/ \E k \in 1 .. Len(v) : v[k] = rows[t].id
      BY <2>2, <3>1 DEF Whole
    <3> QED BY <1>1, <3>2 DEF ToSet
  <2> QED BY <1>u, <1>3, <2>1, <2>2 DEF PagesHaveNoGaps
<1> QED BY <1>2, <1>5, <1>6, <1>7, <1>8 DEF Base, Refs

(* The elements of two sequences that are joined.                          *)
LEMMA Joined ==
  ASSUME NEW v \in Seq(Ids), NEW w \in Seq(Ids)
  PROVE  /\ v \o w \in Seq(Ids) /\ Len(v \o w) = Len(v) + Len(w)
         /\ Len(v) \in Nat /\ Len(w) \in Nat
         /\ \A k \in 1 .. Len(v) : k \in 1 .. Len(v \o w) /\ (v \o w)[k] = v[k]
         /\ \A k \in 1 .. Len(w) :
              k + Len(v) \in 1 .. Len(v \o w) /\ (v \o w)[k + Len(v)] = w[k]
         /\ \A k \in 1 .. Len(v \o w) :
              k \notin 1 .. Len(v) => k - Len(v) \in 1 .. Len(w) /\ (v \o w)[k] = w[k - Len(v)]
OBVIOUS

(* The page before the oldest message that the client has fits to it ...   *)
LEMMA OlderWhole ==
  ASSUME Base, NEW v, Whole(v), v # <<>>, NEW limit \in Limits
  PROVE  Whole(Before(time[Head(v)], limit) \o v)
<1> DEFINE h == time[Head(v)]
           S == {k \in Stored : k < h}
           p == Before(h, limit)
<1>0. TypeOK /\ RowTimes
  BY DEF Base, Refs
<1>1. v \in Seq(Ids) /\ Head(v) = v[1] /\ Len(v) \in Nat /\ 1 \in 1 .. Len(v)
  BY DEF Whole
<1>2. S \in SUBSET Stored
  OBVIOUS
<1>3. /\ p \in Seq(Ids) /\ Ordered(p)
      /\ \A k \in 1 .. Len(p) : time[p[k]] \in S
      /\ \A k \in 1 .. Len(p), u \in S :
           time[p[k]] <= u => \E j \in 1 .. Len(p) : p[j] = rows[u].id
  BY <1>0, <1>2, LatestPage DEF Before
<1>4. \A t : t \in S <=> t \in Stored /\ t < h
  OBVIOUS
<1>5. h \in Stored /\ h = time[v[1]] /\ h \in Nat
  BY <1>1, StoredTimes DEF Whole
<1> HIDE DEF h, S, p
<1> DEFINE w == p \o v
           m == Len(p)
<1>6. /\ w \in Seq(Ids) /\ Len(w) = m + Len(v) /\ m \in Nat
      /\ \A k \in 1 .. m : k \in 1 .. Len(w) /\ w[k] = p[k]
      /\ \A k \in 1 .. Len(v) : k + m \in 1 .. Len(w) /\ w[k + m] = v[k]
      /\ \A k \in 1 .. Len(w) : k \notin 1 .. m => k - m \in 1 .. Len(v) /\ w[k] = v[k - m]
  BY <1>1, <1>3, Joined
<1> HIDE DEF w, m
<1>7. \A k \in 1 .. m : time[p[k]] \in Stored /\ time[p[k]] \in Nat /\ time[p[k]] < h
  BY <1>3, <1>4, StoredTimes DEF m
<1>8. \A k \in 1 .. Len(v) : time[v[k]] \in Stored /\ time[v[k]] \in Nat /\ h <= time[v[k]]
  <2> SUFFICES ASSUME NEW k \in 1 .. Len(v)
               PROVE  time[v[k]] \in Stored /\ time[v[k]] \in Nat /\ h <= time[v[k]]
    OBVIOUS
  <2>1. time[v[k]] \in Stored /\ time[v[k]] \in Nat
    BY StoredTimes DEF Whole
  <2>2. k = 1 \/ 1 < k
    BY <1>1
  <2>3. k = 1 \/ time[v[1]] < time[v[k]]
    BY <1>1, <2>2 DEF Whole
  <2> QED BY <1>5, <2>1, <2>3
<1>9. \A k \in 1 .. Len(w) : time[w[k]] \in Stored
  BY <1>6, <1>7, <1>8
<1>10. ASSUME NEW i \in 1 .. Len(w), NEW j \in 1 .. Len(w), i < j
       PROVE  time[w[i]] < time[w[j]]
  <2>1. CASE i \in 1 .. m /\ j \in 1 .. m
    <3>1. time[p[i]] < time[p[j]]
      BY <1>3, <1>10, <2>1 DEF Ordered, m
    <3> QED BY <1>6, <2>1, <3>1
  <2>2. CASE i \in 1 .. m /\ j \notin 1 .. m
    <3>1. time[p[i]] < h /\ time[p[i]] \in Nat
      BY <1>7, <2>2
    <3>2. h <= time[v[j - m]] /\ time[v[j - m]] \in Nat
      BY <1>6, <1>8, <2>2
    <3>3. time[p[i]] < time[v[j - m]]
      BY <1>5, <3>1, <3>2
    <3> QED BY <1>6, <2>2, <3>3
  <2>3. CASE i \notin 1 .. m
    <3>1. i - m \in 1 .. Len(v) /\ j - m \in 1 .. Len(v) /\ i - m < j - m /\ j \notin 1 .. m
      BY <1>1, <1>6, <1>10, <2>3
    <3>2. time[v[i - m]] < time[v[j - m]]
      BY <3>1 DEF Whole
    <3> QED BY <1>6, <2>3, <3>1, <3>2
  <2> QED BY <2>1, <2>2, <2>3
<1>11. ASSUME NEW i \in 1 .. Len(w), NEW j \in 1 .. Len(w), NEW t \in Stored,
              time[w[i]] <= t, t <= time[w[j]]
       PROVE  rows[t].id \in late \/ \E k \in 1 .. Len(w) : w[k] = rows[t].id
  <2>0. t \in Nat
    BY StoredTimes
  <2>1. CASE t < h
    <3>1. i \in 1 .. m
      <4> SUFFICES ASSUME i \notin 1 .. m PROVE FALSE
        OBVIOUS
      <4>1. h <= time[w[i]] /\ time[w[i]] \in Nat
        BY <1>6, <1>8
      <4> QED BY <4>1, <1>5, <2>0, <2>1, <1>11
    <3>2. time[p[i]] <= t /\ t \in S
      BY <1>4, <1>6, <1>11, <2>1, <3>1
    <3>3. PICK k \in 1 .. m : p[k] = rows[t].id
      BY <1>3, <3>1, <3>2 DEF m
    <3> QED BY <1>6, <3>3
  <2>2. CASE ~(t < h)
    <3>1. j \notin 1 .. m
      <4> SUFFICES ASSUME j \in 1 .. m PROVE FALSE
        OBVIOUS
      <4>1. time[w[j]] < h /\ time[w[j]] \in Nat
        BY <1>6, <1>7
      <4> QED BY <4>1, <1>5, <2>0, <2>2, <1>11
    <3>2. j - m \in 1 .. Len(v) /\ t <= time[v[j - m]]
      BY <1>6, <1>11, <3>1
    <3>3. time[v[1]] <= t
      BY <1>5, <2>0, <2>2
    <3>4. rows[t].id \in late \/ \E k \in 1 .. Len(v) : v[k] = rows[t].id
      BY <1>1, <3>2, <3>3 DEF Whole
    <3> QED BY <1>6, <3>4
  <2> QED BY <2>1, <2>2
<1>12. Whole(w)
  BY <1>6, <1>9, <1>10, <1>11 DEF Whole
<1> QED BY <1>12 DEF w, p, h

(* ... and so does the page after the newest.                              *)
LEMMA NewerWhole ==
  ASSUME Base, NEW v, Whole(v), v # <<>>, NEW limit \in Limits
  PROVE  Whole(v \o After(time[Last(v)], limit))
<1> DEFINE h == time[Last(v)]
           p == After(h, limit)
           n == Len(v)
<1>0. TypeOK /\ RowTimes
  BY DEF Base, Refs
<1>1. v \in Seq(Ids) /\ Last(v) = v[n] /\ n \in Nat /\ n \in 1 .. n
  BY DEF Whole, Last
<1>3. /\ p \in Seq(Ids) /\ Ordered(p)
      /\ \A k \in 1 .. Len(p) : time[p[k]] \in Stored /\ time[p[k]] > h
      /\ \A k \in 1 .. Len(p), u \in Stored :
           u > h /\ u <= time[p[k]] => \E j \in 1 .. Len(p) : p[j] = rows[u].id
  BY <1>0, AfterPage
<1>5. h \in Stored /\ h = time[v[n]] /\ h \in Nat
  BY <1>1, StoredTimes DEF Whole
<1> HIDE DEF h, p
<1> DEFINE w == v \o p
<1>6. /\ w \in Seq(Ids) /\ Len(w) = n + Len(p) /\ Len(p) \in Nat
      /\ \A k \in 1 .. n : k \in 1 .. Len(w) /\ w[k] = v[k]
      /\ \A k \in 1 .. Len(p) : k + n \in 1 .. Len(w) /\ w[k + n] = p[k]
      /\ \A k \in 1 .. Len(w) : k \notin 1 .. n => k - n \in 1 .. Len(p) /\ w[k] = p[k - n]
  BY <1>1, <1>3, Joined
<1> HIDE DEF w
<1>7. \A k \in 1 .. Len(p) : time[p[k]] \in Stored /\ time[p[k]] \in Nat /\ time[p[k]] > h
  BY <1>3, StoredTimes
<1>8. \A k \in 1 .. n : time[v[k]] \in Stored /\ time[v[k]] \in Nat /\ time[v[k]] <= h
  <2> SUFFICES ASSUME NEW k \in 1 .. n
               PROVE  time[v[k]] \in Stored /\ time[v[k]] \in Nat /\ time[v[k]] <= h
    OBVIOUS
  <2>1. time[v[k]] \in Stored /\ time[v[k]] \in Nat
    BY StoredTimes DEF Whole
  <2>2. k = n \/ k < n
    BY <1>1
  <2>3. k = n \/ time[v[k]] < time[v[n]]
    BY <1>1, <2>2 DEF Whole
  <2> QED BY <1>5, <2>1, <2>3
<1>9. \A k \in 1 .. Len(w) : time[w[k]] \in Stored
  BY <1>6, <1>7, <1>8
<1>10. ASSUME NEW i \in 1 .. Len(w), NEW j \in 1 .. Len(w), i < j
       PROVE  time[w[i]] < time[w[j]]
  <2>1. CASE j \in 1 .. n
    <3>1. i \in 1 .. n
      BY <1>1, <1>10, <2>1
    <3>2. time[v[i]] < time[v[j]]
      BY <1>10, <2>1, <3>1 DEF Whole
    <3> QED BY <1>6, <2>1, <3>1, <3>2
  <2>2. CASE i \in 1 .. n /\ j \notin 1 .. n
    <3>1. time[v[i]] <= h /\ time[v[i]] \in Nat
      BY <1>8, <2>2
    <3>2. h < time[p[j - n]] /\ time[p[j - n]] \in Nat
      BY <1>5, <1>6, <1>7, <2>2
    <3>3. time[v[i]] < time[p[j - n]]
      BY <1>5, <3>1, <3>2
    <3> QED BY <1>6, <2>2, <3>3
  <2>3. CASE i \notin 1 .. n /\ j \notin 1 .. n
    <3>1. i - n \in 1 .. Len(p) /\ j - n \in 1 .. Len(p) /\ i - n < j - n
      BY <1>1, <1>6, <1>10, <2>3
    <3>2. time[p[i - n]] < time[p[j - n]]
      BY <1>3, <3>1 DEF Ordered
    <3> QED BY <1>6, <2>3, <3>1, <3>2
  <2> QED BY <2>1, <2>2, <2>3
<1>11. ASSUME NEW i \in 1 .. Len(w), NEW j \in 1 .. Len(w), NEW t \in Stored,
              time[w[i]] <= t, t <= time[w[j]]
       PROVE  rows[t].id \in late \/ \E k \in 1 .. Len(w) : w[k] = rows[t].id
  <2>0. t \in Nat
    BY StoredTimes
  <2>1. CASE t > h
    <3>1. j \notin 1 .. n
      <4> SUFFICES ASSUME j \in 1 .. n PROVE FALSE
        OBVIOUS
      <4>1. time[w[j]] <= h /\ time[w[j]] \in Nat
        BY <1>6, <1>8
      <4> QED BY <4>1, <1>5, <2>0, <2>1, <1>11
    <3>2. j - n \in 1 .. Len(p) /\ t <= time[p[j - n]]
      BY <1>6, <1>11, <3>1
    <3>3. PICK k \in 1 .. Len(p) : p[k] = rows[t].id
      BY <1>3, <2>1, <3>2
    <3> QED BY <1>6, <3>3
  <2>2. CASE ~(t > h)
    <3>1. i \in 1 .. n
      <4> SUFFICES ASSUME i \notin 1 .. n PROVE FALSE
        OBVIOUS
      <4>1. h < time[w[i]] /\ time[w[i]] \in Nat
        BY <1>5, <1>6, <1>7
      <4> QED BY <4>1, <1>5, <2>0, <2>2, <1>11
    <3>2. time[v[i]] <= t
      BY <1>6, <1>11, <3>1
    <3>3. t <= time[v[n]]
      BY <1>5, <2>0, <2>2
    <3>4. rows[t].id \in late \/ \E k \in 1 .. n : v[k] = rows[t].id
      BY <1>1, <3>1, <3>2, <3>3 DEF Whole
    <3> QED BY <1>6, <3>4
  <2> QED BY <2>1, <2>2
<1>12. Whole(w)
  BY <1>6, <1>9, <1>10, <1>11 DEF Whole
<1> QED BY <1>12 DEF w, p, h

(* The first page, of the rows up to now, is whole.                        *)
LEMMA OpenWhole ==
  ASSUME Base, NEW limit \in Limits, NEW S \in SUBSET Stored,
         \A t \in Stored : t \notin S => t > now
  PROVE  Whole(Latest(S, limit))
<1> DEFINE p == Latest(S, limit)
<1>1. /\ p \in Seq(Ids) /\ Ordered(p)
      /\ \A k \in 1 .. Len(p) : time[p[k]] \in S
      /\ \A k \in 1 .. Len(p), u \in S :
           time[p[k]] <= u => \E j \in 1 .. Len(p) : p[j] = rows[u].id
  BY LatestPage DEF Base, Refs
<1> HIDE DEF p
<1>2. DOMAIN p = 1 .. Len(p) /\ \A k \in 1 .. Len(p) : p[k] \in Ids
  BY <1>1
<1>3. \A k \in Ids : time[k] <= now
  BY DEF Base, Refs, ClockBound
<1>4. ASSUME NEW i \in 1 .. Len(p), NEW j \in 1 .. Len(p), NEW t \in Stored,
             time[p[i]] <= t, t <= time[p[j]]
      PROVE  \E k \in 1 .. Len(p) : p[k] = rows[t].id
  <2>1. t \in Nat /\ now \in Nat /\ time[p[j]] \in Nat
    BY <1>2, StoredTimes, MarksTyped DEF Base
  <2>2. time[p[j]] <= now
    BY <1>2, <1>3
  <2>3. t \in S
    BY <1>4, <2>1, <2>2
  <2> QED BY <1>1, <1>4, <2>3
<1> QED BY <1>1, <1>2, <1>4 DEF Whole, Ordered, p

(* A client that reads keeps both, also if one of two queries fails.       *)
LEMMA ReadInv ==
  ASSUME Base, PagesHaveNoGaps, NEW limit \in Limits,
         Open(limit) \/ Older(limit) \/ Newer(limit) \/ Both(limit)
  PROVE  Base' /\ PagesHaveNoGaps'
<1>0. Whole(view)
  BY WholeView
<1>1. CASE Open(limit)
  <2> DEFINE S == {k \in Stored : k <= now}
  <2>1. \A t \in Stored : t \notin S => t > now
    BY StoredTimes, MarksTyped DEF Base
  <2>2. S \in SUBSET Stored
    OBVIOUS
  <2> HIDE DEF S
  <2>3. Whole(Latest(S, limit))
    BY <2>1, <2>2, OpenWhole
  <2> QED BY <1>1, <2>3, ReadsWhole DEF Open, UpTo, S
<1>2. CASE Older(limit)
  BY <1>0, <1>2, OlderWhole, ReadsWhole DEF Older
<1>3. CASE Newer(limit)
  BY <1>0, <1>3, NewerWhole, ReadsWhole DEF Newer
<1>4. CASE Both(limit)
  <2> DEFINE t == time[Head(view)]
  <2>1. PICK before \in {Before(t, limit), <<>>}, after \in {After(t, limit), <<>>} :
          Reads(before \o view \o after)
    BY <1>4 DEF Both
  <2>2. view \in Seq(Ids) /\ Len(view) = 1 /\ view # <<>>
    <3>1. view \in Seq(Ids)
      BY DEF Base, TypeOK
    <3>2. Len(view) = 1
      BY <1>4 DEF Both
    <3>3. view # <<>>
      <4>1. Len(<<>>) = 0
        OBVIOUS
      <4> QED BY <3>2, <4>1
    <3> QED BY <3>1, <3>2, <3>3
  <2> DEFINE v == before \o view
  <2>3. Whole(v) /\ before \in Seq(Ids)
    <3>1. CASE before = <<>>
      <4>1. v = view
        BY <2>2, <3>1
      <4> QED BY <1>0, <3>1, <4>1
    <3>2. CASE before = Before(t, limit)
      <4>1. {k \in Stored : k < t} \in SUBSET Stored
        OBVIOUS
      <4>2. before \in Seq(Ids)
        BY <3>2, <4>1, LatestPage DEF Before, Base, Refs
      <4> QED BY <1>0, <2>2, <3>2, <4>2, OlderWhole
    <3> QED BY <3>1, <3>2
  <2>4. v # <<>> /\ v \in Seq(Ids) /\ Last(v) = Head(view)
    <3>1. Len(v) = Len(before) + 1 /\ v[Len(before) + 1] = view[1] /\ Len(before) \in Nat
          /\ v \in Seq(Ids)
      <4>1. 1 \in 1 .. Len(view) /\ 1 + Len(before) = Len(before) + 1
        BY <2>2, <2>3
      <4>2. v[1 + Len(before)] = view[1]
        BY <2>2, <2>3, <4>1, Joined
      <4> QED BY <2>2, <2>3, <4>1, <4>2, Joined
    <3>2. Head(view) = view[1]
      BY <2>2
    <3> QED BY <3>1, <3>2 DEF Last
  <2>5. Whole(v \o after)
    <3> HIDE DEF v
    <3>1. CASE after = <<>>
      <4>1. v \o after = v
        BY <2>4, <3>1
      <4> QED BY <2>3, <4>1
    <3>2. CASE after = After(t, limit)
      BY <2>3, <2>4, <3>2, NewerWhole
    <3> QED BY <3>1, <3>2
  <2> QED BY <2>1, <2>5, ReadsWhole
<1> QED BY <1>1, <1>2, <1>3, <1>4

(* A step that leaves the reader where it is.                              *)
LEMMA PagesKept ==
  ASSUME Base, PagesHaveNoGaps, UNCHANGED view, Grows, late \subseteq late',
         \A t \in Stored' : \/ t \in Stored /\ rows'[t].id = rows[t].id
                            \/ rows'[t].id \in late'
                            \/ view # <<>> => t > time[Last(view)]
  PROVE  PagesHaveNoGaps'
<1>1. view \in Seq(Ids) /\ DOMAIN view = 1 .. Len(view) /\ Len(view) \in Nat
  BY DEF Base, TypeOK
<1>2. \A k \in 1 .. Len(view) : time[view[k]] \in Stored /\ time'[view[k]] = time[view[k]]
                                /\ time[view[k]] \in Nat
  <2> SUFFICES ASSUME NEW k \in 1 .. Len(view)
               PROVE  time[view[k]] \in Stored /\ time'[view[k]] = time[view[k]]
                      /\ time[view[k]] \in Nat
    OBVIOUS
  <2>1. time[view[k]] \in Stored /\ view[k] \in Ids
    BY <1>1 DEF Base, Refs, ReadRefs
  <2>2. time[view[k]] # 0
    BY <2>1 DEF Stored, Times
  <2> QED BY <2>1, <2>2, StoredTimes DEF Grows
<1>3. \A i, j \in DOMAIN view' : i < j => time'[view'[i]] < time'[view'[j]]
  BY <1>1, <1>2 DEF PagesHaveNoGaps
<1>4. ASSUME view # <<>>, NEW t \in Stored', time'[Head(view)] <= t, t <= time'[Last(view)]
      PROVE  rows'[t].id \in ToSet(view) \cup late'
  <2>1. Head(view) = view[1] /\ Last(view) = view[Len(view)]
        /\ 1 \in 1 .. Len(view) /\ Len(view) \in 1 .. Len(view)
    BY <1>1, <1>4 DEF Last
  <2>2. time[Head(view)] <= t /\ t <= time[Last(view)] /\ time[Last(view)] \in Nat
    BY <1>2, <1>4, <2>1
  <2>3. t \in Nat
    BY DEF Stored, Times
  <2>4. ~(t > time[Last(view)])
    BY <2>2, <2>3
  <2>5. CASE t \in Stored /\ rows'[t].id = rows[t].id
    BY <1>4, <2>2, <2>5 DEF PagesHaveNoGaps
  <2>6. CASE rows'[t].id \in late'
    BY <2>6
  <2> QED BY <1>4, <2>4, <2>5, <2>6
<1> QED BY <1>3, <1>4 DEF PagesHaveNoGaps

(* A row inserted between the ends of the view is late.                    *)
LEMMA InsertPages ==
  ASSUME Base, PagesHaveNoGaps, NEW r \in Reqs, Insert(r)
  PROVE  PagesHaveNoGaps'
<1>1. UNCHANGED <<time, objects, accepted, view>>
  BY DEF Insert, clock, reader
<1> DEFINE n == TimeOf(r)
<1>2. /\ n \in Times /\ Stored' = Stored \cup {n} /\ rows'[n].id = req[r].id
      /\ \A t \in Stored' : t # n => t \in Stored /\ rows'[t] = rows[t]
  BY InsertRow
<1> HIDE DEF n
<1>3. Grows
  BY <1>1, <1>2 DEF Grows
<1>4. late' = (IF n <= Newest THEN late \cup {req[r].id} ELSE late)
  BY DEF Insert, n
<1>5. req[r].id \in late' \/ (view # <<>> => n > time[Last(view)])
  <2> SUFFICES ASSUME view # <<>>, req[r].id \notin late'
               PROVE  n > time[Last(view)]
    OBVIOUS
  <2>1. view \in Seq(Ids) /\ Last(view) \in Ids
    BY DEF Base, TypeOK, Last
  <2>2. time[Last(view)] \in Nat /\ n \in Nat
    BY <1>2, <2>1, MarksTyped DEF Base, Times
  <2>3. ~(n <= Newest)
    BY <1>4
  <2> QED BY <2>2, <2>3 DEF Newest
<1>6. \A t \in Stored' : \/ t \in Stored /\ rows'[t].id = rows[t].id
                         \/ rows'[t].id \in late'
                         \/ view # <<>> => t > time[Last(view)]
  BY <1>2, <1>5
<1> QED BY <1>1, <1>3, <1>4, <1>6, PagesKept

(* A step that leaves the rows and the reader.                             *)
LEMMA SamePages ==
  ASSUME Base, PagesHaveNoGaps, Grows, UNCHANGED <<rows, view, late>>
  PROVE  PagesHaveNoGaps'
<1>1. Stored' = Stored
  BY DEF Stored
<1> QED BY <1>1, PagesKept

(* A new message takes its time from no other.                             *)
LEMMA UploadGrows ==
  ASSUME NEW r \in Reqs, NEW u \in Users, Upload(r, u), TypeOK
  PROVE  Grows
<1>1. PICK m \in Ids : time[m] = 0 /\ time' = [time EXCEPT ![m] = now]
  BY DEF Upload
<1>2. UNCHANGED <<rows, objects, accepted>>
  BY DEF Upload, store, history
<1> QED BY <1>1, <1>2 DEF Grows, Stored, TypeOK

-----------------------------------------------------------------------------
(* Every step.                                                             *)
(* At first nothing is stored.                                             *)
LEMMA InitInv ==
  ASSUME Init
  PROVE  Base /\ PagesHaveNoGaps
<1> USE DEF Init
<1>1. Stored = {}
  BY DEF Stored
<1>2. \A r \in Reqs : ~Uploads(r) /\ ~Accepts(r)
  BY IdleCall DEF Uploads, Accepts
<1>3. 1 \in Times /\ 0 \in 0 .. MaxTime
  BY ConstantsAssumption DEF Times
<1>4. TypeOK
  BY <1>3 DEF TypeOK
<1>5. Refs
  BY <1>1, <1>2 DEF Refs, ClockBound, RowTimes, CallRefs, ReadRefs
<1>6. MarksPointToMessages /\ SeenWasHeard
  BY <1>1 DEF MarksPointToMessages, SeenWasHeard
<1>7. PagesHaveNoGaps
  BY <1>1 DEF PagesHaveNoGaps
<1> QED BY <1>4, <1>5, <1>6, <1>7 DEF Base

(* The steps, to split on.                                                 *)
LEMMA Steps ==
  ASSUME TypeOK, [Next]_vars
  PROVE  \/ UNCHANGED vars
         \/ Tick
         \/ \E r \in Reqs, u \in Users : Upload(r, u) \/ Accept(r, u)
         \/ \E r \in Reqs : \/ Put(r) \/ Insert(r) \/ MarkRecv(r) \/ MarkSeen(r) \/ Fail(r)
                            \/ AcceptStep(r)
         \/ \E m \in Ids : Listen(m) \/ MarkHeard(m)
         \/ \E limit \in Limits :
              Open(limit) \/ Older(limit) \/ Newer(limit) \/ Both(limit)
BY AcceptsStep DEF Next

(* Every step keeps the base ...                                           *)
LEMMA StepBase ==
  ASSUME Base, PagesHaveNoGaps, [Next]_vars
  PROVE  Base'
<1>0. TypeOK
  BY DEF Base
<1>1. CASE UNCHANGED vars
  <2>1. UNCHANGED <<now, time, objects, rows, heard, recv, seen, req, view, late, skewed, accepted>>
    BY <1>1 DEF vars, clock, store, marks, reader, history
  <2> QED BY <2>1 DEF Base, TypeOK, Refs, ClockBound, RowTimes, CallRefs, ReadRefs, Uploads,
            Accepts, TimeOf, Stored, MarksPointToMessages, SeenWasHeard
<1>2. CASE Tick
  BY <1>2, TickBase
<1>3. CASE \E r \in Reqs, u \in Users : Upload(r, u) \/ Accept(r, u)
  BY <1>3, UploadBase, AcceptBase
<1>4. CASE \E r \in Reqs : \/ Put(r) \/ Insert(r) \/ MarkRecv(r) \/ MarkSeen(r) \/ Fail(r)
                          \/ AcceptStep(r)
  BY <1>4, PutBase, InsertBase, MarkRecvBase, MarkSeenBase, FailBase, AcceptStepBase
<1>5. CASE \E m \in Ids : Listen(m) \/ MarkHeard(m)
  BY <1>5, ListenBase, MarkHeardBase
<1>6. CASE \E limit \in Limits : Open(limit) \/ Older(limit) \/ Newer(limit) \/ Both(limit)
  BY <1>6, ReadInv
<1> QED BY <1>0, <1>1, <1>2, <1>3, <1>4, <1>5, <1>6, Steps

(* ... and the pages without gaps.                                         *)
LEMMA StepPages ==
  ASSUME Base, PagesHaveNoGaps, [Next]_vars
  PROVE  PagesHaveNoGaps'
<1>0. TypeOK
  BY DEF Base
<1>1. CASE UNCHANGED vars \/ Tick
  <2>1. UNCHANGED <<time, objects, rows, view, late, accepted>>
    BY <1>1 DEF Tick, vars, clock, store, reader, history
  <2> QED BY <2>1, SameGrows, SamePages
<1>2. CASE \E r \in Reqs, u \in Users : Upload(r, u) \/ Accept(r, u)
  <2>1. PICK r \in Reqs, u \in Users : Upload(r, u) \/ Accept(r, u)
    BY <1>2
  <2>2. CASE Upload(r, u)
    <3>1. UNCHANGED <<rows, view, late>>
      BY <2>2 DEF Upload, store, reader
    <3> QED BY <1>0, <2>2, <3>1, UploadGrows, SamePages
  <2>3. CASE Accept(r, u)
    <3>1. UNCHANGED <<time, objects, rows, view, late>> /\ accepted \subseteq accepted'
      BY <2>3 DEF Accept, clock, store, reader
    <3> QED BY <3>1, SameGrows, SamePages
  <2> QED BY <2>1, <2>2, <2>3
<1>3. CASE \E r \in Reqs : \/ Put(r) \/ MarkRecv(r) \/ MarkSeen(r) \/ Fail(r) \/ AcceptStep(r)
  <2>1. PICK r \in Reqs : \/ Put(r) \/ MarkRecv(r) \/ MarkSeen(r) \/ Fail(r) \/ AcceptStep(r)
    BY <1>3
  <2>2. UNCHANGED <<time, rows, view, late, accepted>> /\ objects \subseteq objects'
    BY <2>1 DEF Put, PutObject, MarkRecv, MarkSeen, Fail, AcceptStep, clock, store, reader
  <2> QED BY <2>2, SameGrows, SamePages
<1>4. CASE \E r \in Reqs : Insert(r)
  BY <1>4, InsertPages
<1>5. CASE \E m \in Ids : Listen(m)
  <2>1. UNCHANGED <<time, objects, rows, view, late, accepted>>
    BY <1>5 DEF Listen, clock, store, history
  <2> QED BY <2>1, SameGrows, SamePages
<1>6. CASE \E m \in Ids : MarkHeard(m)
  <2>1. PICK m \in Ids : MarkHeard(m)
    BY <1>6
  <2>2. UNCHANGED <<time, objects, view, late, accepted>>
    BY <2>1 DEF MarkHeard, clock, history
  <2>3. Stored' = Stored /\ \A t \in Stored : rows'[t].id = rows[t].id
    BY <2>1, MarkHeardBase
  <2>4. Grows
    BY <2>2, <2>3 DEF Grows
  <2> QED BY <2>2, <2>3, <2>4, PagesKept
<1>7. CASE \E limit \in Limits : Open(limit) \/ Older(limit) \/ Newer(limit) \/ Both(limit)
  BY <1>7, ReadInv
<1> QED BY <1>0, <1>1, <1>2, <1>3, <1>4, <1>5, <1>6, <1>7, Steps

-----------------------------------------------------------------------------
(* The marks cover what was sent.                                          *)

(* The rows of a user, the users of whom something is said, and a row that *)
(* the marks of both users cover.                                          *)
Sent(u) == {t \in Stored : rows[t].user = u}
Clear(u) == u \notin skewed /\ \A r \in UploadsOf(u) : req[r].alone
Covered(t, u) == t <= seen[u] /\ \A v \in Users \ {u} : t <= recv[v]

(* For each user: an upload that is alone has no rival, is the latest of the *)
(* user's, and after its first mark the other has received it; an acceptance *)
(* is later than all that a user has sent who uploads nothing else; and what *)
(* such a user has sent is covered, or will be by an upload that is about to. *)
CoverOf(u) ==
  /\ \A r \in UploadsOf(u) : req[r].alone =>
       /\ Rivals(u) = {r}
       /\ \A t \in Sent(u) : t <= TimeOf(r)
       /\ req[r].at = "seen" => \A v \in Users \ {u} : recv[v] = TimeOf(r)
  /\ Clear(u) => \A q \in Reqs, t \in Sent(u) : Accepts(q) => t <= req[q].time
  /\ Clear(u) => \A t \in Sent(u) :
       \/ Covered(t, u)
       \/ \E r \in UploadsOf(u) : req[r].at \in {"recv", "seen"}

CoverInv == \A u \in Users : CoverOf(u)

(* There is one other user.                                                *)
LEMMA TwoUsers ==
  ASSUME NEW u \in Users, NEW v \in Users \ {u}, NEW w \in Users \ {u}
  PROVE  v = w
<1>1. IsFiniteSet(Users) /\ Cardinality(Users) = 2
  BY ConstantsAssumption
<1>2. IsFiniteSet(Users \ {u}) /\ Cardinality(Users \ {u}) = 2 - 1
  BY <1>1, FS_RemoveElement
<1>3. PICK x : Users \ {u} = {x}
  BY <1>2, FS_Singleton
<1> QED BY <1>3

(* A step that does nothing to the marks, nor to what is sent, of a user.  *)
LEMMA CoverKept ==
  ASSUME Base, NEW u \in Users, CoverOf(u), Grows,
         Sent(u)' \subseteq Sent(u), seen'[u] = seen[u],
         \A v \in Users \ {u} : recv'[v] = recv[v],
         Clear(u)' => Clear(u),
         \A r \in UploadsOf(u)' :
           /\ r \in UploadsOf(u) /\ req'[r].id = req[r].id
           /\ req'[r].alone => req[r].alone
           /\ req'[r].at = "seen" => req[r].at = "seen",
         \A r \in UploadsOf(u) : req[r].at \in {"recv", "seen"} =>
           r \in UploadsOf(u)' /\ req'[r].at \in {"recv", "seen"},
         \A q \in Reqs : Accepts(q)' => Accepts(q) /\ req'[q].time = req[q].time
  PROVE  CoverOf(u)'
<1>0. TypeOK /\ CallRefs
  BY DEF Base, Refs
<1>1. ASSUME NEW r \in UploadsOf(u)'
      PROVE  r \in UploadsOf(u) /\ r \in Reqs /\ TimeOf(r)' = TimeOf(r)
  <2>1. r \in UploadsOf(u) /\ r \in Reqs /\ Uploads(r) /\ req'[r].id = req[r].id
    BY DEF UploadsOf
  <2>2. TimeOf(r) # 0 /\ req[r].id \in Ids
    BY <1>0, <2>1, Kinds DEF CallRefs
  <2> QED BY <2>1, <2>2 DEF TimeOf, Grows
<1>2. ASSUME NEW r \in UploadsOf(u)', req'[r].alone
      PROVE  /\ Rivals(u)' = {r}
             /\ \A t \in Sent(u)' : t <= TimeOf(r)'
             /\ req'[r].at = "seen" => \A v \in Users \ {u} : recv'[v] = TimeOf(r)'
  <2>1. /\ Rivals(u) = {r}
        /\ \A t \in Sent(u) : t <= TimeOf(r)
        /\ req[r].at = "seen" => \A v \in Users \ {u} : recv[v] = TimeOf(r)
    BY <1>1, <1>2 DEF CoverOf
  <2>2. Rivals(u)' \subseteq Rivals(u)
    BY DEF Rivals
  <2>3. r \in Rivals(u)'
    BY DEF Rivals
  <2>4. Rivals(u)' = {r}
    BY <2>1, <2>2, <2>3
  <2> QED BY <1>1, <2>1, <2>4
<1>3. ASSUME Clear(u)', NEW q \in Reqs, NEW t \in Sent(u)', Accepts(q)'
      PROVE  t <= req'[q].time
  BY <1>3 DEF CoverOf
<1>4. ASSUME Clear(u)', NEW t \in Sent(u)'
      PROVE  Covered(t, u)' \/ \E r \in UploadsOf(u)' : req'[r].at \in {"recv", "seen"}
  <2>1. Covered(t, u) \/ \E r \in UploadsOf(u) : req[r].at \in {"recv", "seen"}
    BY <1>4 DEF CoverOf
  <2>2. Covered(t, u) => Covered(t, u)'
    BY DEF Covered
  <2> QED BY <2>1, <2>2
<1> QED BY <1>2, <1>3, <1>4 DEF CoverOf

(* While none of a user's uploads is alone, and the last that ended failed *)
(* or was not, nothing is said.                                            *)
LEMMA CoverUnclear ==
  ASSUME NEW u \in Users, ~Clear(u)', \A r \in UploadsOf(u)' : ~req'[r].alone
  PROVE  CoverOf(u)'
BY DEF CoverOf

(* One upload that is alone and has stored its row.                        *)
LEMMA CoverAlone ==
  ASSUME NEW u \in Users, NEW r \in UploadsOf(u)', Rivals(u)' = {r},
         \A t \in Sent(u)' : t <= TimeOf(r)',
         req'[r].at \in {"recv", "seen"},
         req'[r].at = "seen" => \A v \in Users \ {u} : recv'[v] = TimeOf(r)'
  PROVE  CoverOf(u)'
<1>1. \A q \in UploadsOf(u)' : q = r
  BY DEF Rivals
<1>2. \A q \in Reqs : Accepts(q)' => q = r
  BY DEF Rivals
<1>3. ~Accepts(r)'
  <2>1. Uploading \cap Accepting = {}
    BY DEF Uploading, Accepting
  <2> QED BY <2>1 DEF UploadsOf, Uploads, Accepts
<1> QED BY <1>1, <1>2, <1>3 DEF CoverOf

(* No two uploads of a user are alone.                                     *)
LEMMA AloneOnly ==
  ASSUME NEW u \in Users, CoverOf(u), NEW r \in UploadsOf(u), NEW q \in UploadsOf(u), q # r
  PROVE  ~req[q].alone
BY DEF CoverOf, Rivals

-----------------------------------------------------------------------------
(* An upload of a user that ends, or goes on.                              *)
Other(r) == \A q \in Reqs \ {r} : req'[q] = req[q]

(* The uploads of each user, but for the one.                              *)
LEMMA OtherUploads ==
  ASSUME TypeOK, NEW r \in Reqs, Uploads(r), Other(r), ~Accepts(r)'
  PROVE  /\ \A u \in Users : UploadsOf(u) \ {r} = UploadsOf(u)' \ {r}
         /\ \A q \in Reqs : Accepts(q)' <=> Accepts(q)
         /\ \A u \in Users : r \in UploadsOf(u) <=> u = req[r].user
         /\ \A u \in Users : r \in UploadsOf(u)' <=> Uploads(r)' /\ req'[r].user = u
BY Kinds DEF Other, UploadsOf, Uploads, Accepts

(* What an upload does to the other user's messages and marks: nothing.    *)
LEMMA CoverOfOther ==
  ASSUME Base, NEW r \in Reqs, Uploads(r), Other(r), ~Accepts(r)', Grows,
         Uploads(r)' => req'[r].user = req[r].user,
         NEW u \in Users, u # req[r].user, CoverOf(u),
         Sent(u)' \subseteq Sent(u), seen'[u] = seen[u],
         \A v \in Users \ {u} : recv'[v] = recv[v],
         u \in skewed <=> u \in skewed'
  PROVE  CoverOf(u)'
<1>0. TypeOK
  BY DEF Base
<1>1. UploadsOf(u)' = UploadsOf(u) /\ r \notin UploadsOf(u)
  <2>1. r \notin UploadsOf(u) /\ r \notin UploadsOf(u)'
    BY <1>0, OtherUploads
  <2>2. UploadsOf(u) \ {r} = UploadsOf(u)' \ {r}
    BY <1>0, OtherUploads
  <2> QED BY <2>1, <2>2
<1>2. \A q \in UploadsOf(u) : q \in Reqs /\ req'[q] = req[q]
  BY <1>1 DEF UploadsOf, Other
<1>3. Clear(u)' => Clear(u)
  BY <1>1, <1>2 DEF Clear
<1>4. \A q \in Reqs : Accepts(q)' => Accepts(q) /\ req'[q].time = req[q].time
  <2>1. \A q \in Reqs : Accepts(q)' => Accepts(q) /\ q # r
    BY <1>0, OtherUploads
  <2> QED BY <2>1 DEF Other
<1> QED BY <1>1, <1>2, <1>3, <1>4, CoverKept

(* An upload that ends, and not both alone and well.                       *)
LEMMA CoverEnds ==
  ASSUME Base, NEW r \in Reqs, Uploads(r), Other(r), req'[r] = Idle,
         NEW u \in Users, u = req[r].user, CoverOf(u), u \in skewed'
  PROVE  CoverOf(u)'
<1>1. TypeOK /\ ~Uploads(r)' /\ ~Accepts(r)'
  BY IdleCall DEF Base, Uploads, Accepts
<1>2. r \in UploadsOf(u) /\ \A q \in UploadsOf(u)' : q \in UploadsOf(u) /\ q # r
  BY <1>1, OtherUploads
<1>3. \A q \in UploadsOf(u) : q # r => req'[q] = req[q]
  BY DEF UploadsOf, Other
<1>4. \A q \in UploadsOf(u)' : ~req'[q].alone
  BY <1>2, <1>3, AloneOnly
<1> QED BY <1>4, CoverUnclear DEF Clear

(* One that goes on and is not alone: the user's last was not alone, or    *)
(* failed, when this one ends.                                             *)
LEMMA CoverNotAlone ==
  ASSUME Base, NEW r \in Reqs, Uploads(r), Other(r), ~Accepts(r)',
         NEW u \in Users, u = req[r].user, CoverOf(u),
         Uploads(r)', req'[r].user = u, ~req'[r].alone
  PROVE  CoverOf(u)'
<1>1. TypeOK
  BY DEF Base
<1>2. /\ r \in UploadsOf(u) /\ r \in UploadsOf(u)'
      /\ \A q \in UploadsOf(u)' : q # r => q \in UploadsOf(u)
  BY <1>1, OtherUploads
<1>3. \A q \in UploadsOf(u) : q # r => req'[q] = req[q]
  BY DEF UploadsOf, Other
<1>4. \A q \in UploadsOf(u)' : ~req'[q].alone
  BY <1>2, <1>3, AloneOnly
<1> QED BY <1>2, <1>4, CoverUnclear DEF Clear

(* One that goes on alone keeps to itself.                                 *)
LEMMA RivalsAlone ==
  ASSUME Base, NEW r \in Reqs, Uploads(r), Other(r), ~Accepts(r)', Uploads(r)',
         NEW u \in Users, u = req[r].user, req'[r].user = u, CoverOf(u), req[r].alone
  PROVE  Rivals(u)' = {r} /\ UploadsOf(u)' = {r} /\ r \in UploadsOf(u)
<1>1. TypeOK
  BY DEF Base
<1>2. /\ r \in UploadsOf(u) /\ r \in UploadsOf(u)'
      /\ \A q \in UploadsOf(u)' : q # r => q \in UploadsOf(u)
      /\ \A q \in Reqs : Accepts(q)' => Accepts(q)
  BY <1>1, OtherUploads
<1>3. Rivals(u) = {r}
  BY <1>2 DEF CoverOf
<1> QED BY <1>2, <1>3 DEF Rivals

-----------------------------------------------------------------------------
(* The marks cover what was sent after each step.                          *)
LEMMA FailCover ==
  ASSUME Base, CoverInv, NEW r \in Reqs, Fail(r)
  PROVE  CoverInv'
<1>u. UNCHANGED <<time, objects, rows, recv, seen, accepted>>
  BY DEF Fail, clock, store, marks
<1>1. TypeOK /\ Uploads(r) /\ Return(r, FALSE)
  BY DEF Base, Fail
<1>2. Other(r) /\ req'[r] = Idle /\ req[r].user \in Users
  BY <1>1, ReturnReq, Kinds DEF Other
<1>3. ~Uploads(r)' /\ ~Accepts(r)'
  BY <1>2, IdleCall DEF Uploads, Accepts
<1>4. skewed' = skewed \cup {req[r].user}
  BY <1>1 DEF Return
<1>5. Grows
  BY <1>u, SameGrows
<1> SUFFICES ASSUME NEW u \in Users PROVE CoverOf(u)'
  BY DEF CoverInv
<1>6. CoverOf(u) /\ Sent(u)' = Sent(u)
  BY <1>u DEF CoverInv, Sent, Stored
<1>7. CASE u = req[r].user
  BY <1>1, <1>2, <1>4, <1>6, <1>7, CoverEnds
<1>8. CASE u # req[r].user
  BY <1>u, <1>1, <1>2, <1>3, <1>4, <1>5, <1>6, <1>8, CoverOfOther
<1> QED BY <1>7, <1>8

LEMMA PutCover ==
  ASSUME Base, CoverInv, NEW r \in Reqs, Put(r)
  PROVE  CoverInv'
<1>u. UNCHANGED <<time, rows, recv, seen, accepted>> /\ objects \subseteq objects'
  BY DEF Put, PutObject, clock, marks
<1>1. TypeOK /\ Uploads(r) /\ req[r].at = "put" /\ req[r].user \in Users
  BY Kinds DEF Base, Put, At
<1>2. /\ Other(r)
      /\ \/ /\ req'[r] \in Uploading /\ req'[r].at = "insert" /\ req'[r].id = req[r].id
            /\ req'[r].user = req[r].user /\ req'[r].alone = req[r].alone /\ skewed' = skewed
         \/ req'[r] = Idle /\ skewed' = skewed \cup {req[r].user}
  BY <1>1, GoOnReq DEF Put, Other
<1>3. ~Accepts(r)' /\ (Uploads(r)' => req'[r] # Idle)
  BY <1>2, IdleCall DEF Uploads, Accepts, Uploading, Accepting
<1>4. Uploads(r)' => req'[r].user = req[r].user
  BY <1>2, <1>3
<1>5. Grows
  BY <1>u, SameGrows
<1> SUFFICES ASSUME NEW u \in Users PROVE CoverOf(u)'
  BY DEF CoverInv
<1>6. CoverOf(u) /\ Sent(u)' = Sent(u)
  BY <1>u DEF CoverInv, Sent, Stored
<1>7. CASE u = req[r].user /\ req'[r] = Idle
  BY <1>1, <1>2, <1>6, <1>7, IdleCall, CoverEnds DEF Uploading
<1>8. CASE u = req[r].user /\ req'[r] # Idle
  <2>1. UploadsOf(u)' = UploadsOf(u) /\ \A q \in Reqs : Accepts(q)' <=> Accepts(q)
    <3>1. Uploads(r)' /\ req'[r].user = u
      BY <1>2, <1>8 DEF Uploads
    <3>2. r \in UploadsOf(u) /\ r \in UploadsOf(u)'
      BY <1>1, <1>2, <1>3, <1>8, <3>1, OtherUploads
    <3>3. UploadsOf(u) \ {r} = UploadsOf(u)' \ {r} /\ \A q \in Reqs : Accepts(q)' <=> Accepts(q)
      BY <1>1, <1>2, <1>3, OtherUploads
    <3> QED BY <3>2, <3>3
  <2>2. \A q \in UploadsOf(u) : q \in Reqs /\ (q # r => req'[q] = req[q])
    BY <1>2 DEF UploadsOf, Other
  <2>3. Clear(u)' => Clear(u)
    BY <1>2, <1>8, <2>1, <2>2 DEF Clear
  <2>4. \A q \in UploadsOf(u)' :
           /\ q \in UploadsOf(u) /\ req'[q].id = req[q].id
           /\ req'[q].alone => req[q].alone
           /\ req'[q].at = "seen" => req[q].at = "seen"
    BY <1>2, <1>8, <2>1, <2>2
  <2>5. \A q \in UploadsOf(u) : req[q].at \in {"recv", "seen"} =>
           q \in UploadsOf(u)' /\ req'[q].at \in {"recv", "seen"}
    BY <1>1, <2>1, <2>2
  <2>6. \A q \in Reqs : Accepts(q)' => Accepts(q) /\ req'[q].time = req[q].time
    BY <1>2, <1>3, <2>1 DEF Other
  <2> QED BY <1>u, <1>5, <1>6, <2>3, <2>4, <2>5, <2>6, CoverKept
<1>9. CASE u # req[r].user
  <2>1. u \in skewed <=> u \in skewed'
    BY <1>2, <1>9
  <2> QED BY <1>u, <1>1, <1>2, <1>3, <1>4, <1>5, <1>6, <1>9, <2>1, CoverOfOther
<1> QED BY <1>7, <1>8, <1>9

(* A new row is to be covered by its own upload.                           *)
LEMMA InsertCover ==
  ASSUME Base, CoverInv, NEW r \in Reqs, Insert(r)
  PROVE  CoverInv'
<1>u. UNCHANGED <<time, objects, recv, seen, accepted>>
  BY DEF Insert, clock, marks
<1>1. TypeOK /\ Uploads(r) /\ req[r].user \in Users
  BY Kinds DEF Base, Insert
<1>2. /\ Other(r)
      /\ \/ /\ req'[r] \in Uploading /\ req'[r].at = "recv" /\ req'[r].id = req[r].id
            /\ req'[r].user = req[r].user /\ req'[r].alone = req[r].alone /\ skewed' = skewed
         \/ req'[r] = Idle /\ skewed' = skewed \cup {req[r].user}
  BY <1>1, GoOnReq DEF Insert, Other
<1>3. ~Accepts(r)' /\ (Uploads(r)' => req'[r] # Idle)
  BY <1>2, IdleCall DEF Uploads, Accepts, Uploading, Accepting
<1>4. Uploads(r)' => req'[r].user = req[r].user
  BY <1>2, <1>3
<1>5. /\ TimeOf(r) \in Times /\ Stored' = Stored \cup {TimeOf(r)}
      /\ rows'[TimeOf(r)].user = req[r].user
      /\ \A t \in Stored' : t # TimeOf(r) => t \in Stored /\ rows'[t] = rows[t]
  BY InsertRow
<1>6. Grows
  BY <1>u, <1>5 DEF Grows
<1> SUFFICES ASSUME NEW u \in Users PROVE CoverOf(u)'
  BY DEF CoverInv
<1>7. CoverOf(u)
  BY DEF CoverInv
<1>8. CASE u = req[r].user /\ req'[r] = Idle
  BY <1>1, <1>2, <1>7, <1>8, IdleCall, CoverEnds DEF Uploading
<1>9. CASE u = req[r].user /\ req'[r] # Idle
  <2>1. Uploads(r)' /\ req'[r].user = u /\ req'[r].at = "recv" /\ req'[r].id = req[r].id
        /\ req'[r].alone = req[r].alone
    BY <1>2, <1>9 DEF Uploads
  <2>2. CASE ~req[r].alone
    BY <1>1, <1>2, <1>3, <1>7, <1>9, <2>1, <2>2, CoverNotAlone
  <2>3. CASE req[r].alone
    <3>1. Rivals(u)' = {r} /\ r \in UploadsOf(u)' /\ r \in UploadsOf(u)
      BY <1>1, <1>2, <1>3, <1>7, <1>9, <2>1, <2>3, RivalsAlone
    <3>2. TimeOf(r)' = TimeOf(r)
      BY <1>u, <2>1 DEF TimeOf
    <3>3. \A t \in Sent(u)' : t = TimeOf(r) \/ t \in Sent(u)
      BY <1>5 DEF Sent
    <3>4. \A t \in Sent(u)' : t <= TimeOf(r)'
      BY <1>5, <1>7, <2>3, <3>1, <3>2, <3>3 DEF CoverOf, Times
    <3> QED BY <2>1, <3>1, <3>4, CoverAlone
  <2> QED BY <2>2, <2>3
<1>10. CASE u # req[r].user
  <2>1. u \in skewed <=> u \in skewed'
    BY <1>2, <1>10
  <2>2. Sent(u)' \subseteq Sent(u)
    BY <1>5, <1>10 DEF Sent
  <2> QED BY <1>u, <1>1, <1>2, <1>3, <1>4, <1>6, <1>7, <1>10, <2>1, <2>2, CoverOfOther
<1> QED BY <1>8, <1>9, <1>10

(* The mark of the other user ...                                          *)
LEMMA MarkRecvCover ==
  ASSUME Base, CoverInv, NEW r \in Reqs, MarkRecv(r)
  PROVE  CoverInv'
<1>u. UNCHANGED <<time, objects, rows, seen, accepted>>
  BY DEF MarkRecv, clock, store
<1>1. TypeOK /\ Uploads(r) /\ req[r].user \in Users
  BY Kinds DEF Base, MarkRecv
<1>2. /\ Other(r)
      /\ \/ /\ req'[r] \in Uploading /\ req'[r].at = "seen" /\ req'[r].id = req[r].id
            /\ req'[r].user = req[r].user /\ req'[r].alone = req[r].alone /\ skewed' = skewed
         \/ req'[r] = Idle /\ skewed' = skewed \cup {req[r].user}
  BY <1>1, GoOnReq DEF MarkRecv, Other
<1>3. ~Accepts(r)' /\ (Uploads(r)' => req'[r] # Idle)
  BY <1>2, IdleCall DEF Uploads, Accepts, Uploading, Accepting
<1>4. Uploads(r)' => req'[r].user = req[r].user
  BY <1>2, <1>3
<1>5. PICK x \in Users \ {req[r].user} : recv' = [recv EXCEPT ![x] = TimeOf(r)]
  BY DEF MarkRecv, Receivers, Mark
<1>6. Grows
  BY <1>u, SameGrows
<1> SUFFICES ASSUME NEW u \in Users PROVE CoverOf(u)'
  BY DEF CoverInv
<1>7. CoverOf(u) /\ Sent(u)' = Sent(u)
  BY <1>u DEF CoverInv, Sent, Stored
<1>8. CASE u = req[r].user /\ req'[r] = Idle
  BY <1>1, <1>2, <1>7, <1>8, IdleCall, CoverEnds DEF Uploading
<1>9. CASE u = req[r].user /\ req'[r] # Idle
  <2>1. Uploads(r)' /\ req'[r].user = u /\ req'[r].at = "seen" /\ req'[r].id = req[r].id
        /\ req'[r].alone = req[r].alone
    BY <1>2, <1>9 DEF Uploads
  <2>2. CASE ~req[r].alone
    BY <1>1, <1>2, <1>3, <1>7, <1>9, <2>1, <2>2, CoverNotAlone
  <2>3. CASE req[r].alone
    <3>1. Rivals(u)' = {r} /\ r \in UploadsOf(u)' /\ r \in UploadsOf(u)
      BY <1>1, <1>2, <1>3, <1>7, <1>9, <2>1, <2>3, RivalsAlone
    <3>2. TimeOf(r)' = TimeOf(r)
      BY <1>u, <2>1 DEF TimeOf
    <3>3. \A t \in Sent(u)' : t <= TimeOf(r)'
      BY <1>7, <2>3, <3>1, <3>2 DEF CoverOf
    <3>4. \A v \in Users \ {u} : recv'[v] = TimeOf(r)'
      <4>1. \A v \in Users \ {u} : v = x
        BY <1>5, <1>9, TwoUsers
      <4> QED BY <1>1, <1>5, <3>2, <4>1 DEF TypeOK
    <3> QED BY <2>1, <3>1, <3>3, <3>4, CoverAlone
  <2> QED BY <2>2, <2>3
<1>10. CASE u # req[r].user
  <2>1. u \in skewed <=> u \in skewed'
    BY <1>2, <1>10
  <2>2. \A v \in Users \ {u} : recv'[v] = recv[v]
    <3>1. \A v \in Users \ {u} : v = req[r].user
      BY <1>1, <1>10, TwoUsers
    <3> QED BY <1>1, <1>5, <3>1 DEF TypeOK
  <2> QED BY <1>u, <1>1, <1>2, <1>3, <1>4, <1>6, <1>7, <1>10, <2>1, <2>2, CoverOfOther
<1> QED BY <1>8, <1>9, <1>10

(* ... and that of the sender, who had no other upload if it was alone.    *)
LEMMA MarkSeenCover ==
  ASSUME Base, CoverInv, NEW r \in Reqs, MarkSeen(r)
  PROVE  CoverInv'
<1>u. UNCHANGED <<time, objects, rows, recv, accepted>>
  BY DEF MarkSeen, clock, store
<1>1. TypeOK /\ Uploads(r) /\ req[r].user \in Users /\ req[r].at = "seen"
  BY Kinds DEF Base, MarkSeen, At
<1>2. PICK ok \in BOOLEAN : Return(r, ok)
  BY DEF MarkSeen
<1>3. Other(r) /\ req'[r] = Idle
  BY <1>1, <1>2, ReturnReq DEF Other
<1>4. ~Uploads(r)' /\ ~Accepts(r)'
  BY <1>3, IdleCall DEF Uploads, Accepts
<1>5. \A v \in Users : seen'[v] = IF v = req[r].user THEN TimeOf(r) ELSE seen[v]
  BY <1>1 DEF MarkSeen, Mark, TypeOK
<1>6. Grows
  BY <1>u, SameGrows
<1> SUFFICES ASSUME NEW u \in Users PROVE CoverOf(u)'
  BY DEF CoverInv
<1>7. CoverOf(u) /\ Sent(u)' = Sent(u)
  BY <1>u DEF CoverInv, Sent, Stored
<1>8. CASE u = req[r].user /\ u \in skewed'
  BY <1>1, <1>3, <1>7, <1>8, CoverEnds
<1>9. CASE u = req[r].user /\ u \notin skewed'
  <2>1. req[r].alone
    BY <1>2, <1>9 DEF Return
  <2>2. r \in UploadsOf(u) /\ r \notin UploadsOf(u)' /\ UploadsOf(u) \ {r} = UploadsOf(u)' \ {r}
        /\ \A q \in Reqs : Accepts(q)' <=> Accepts(q)
    BY <1>1, <1>3, <1>4, <1>9, OtherUploads
  <2>3. /\ Rivals(u) = {r} /\ \A t \in Sent(u) : t <= TimeOf(r)
        /\ \A v \in Users \ {u} : recv[v] = TimeOf(r)
    BY <1>1, <1>7, <2>1, <2>2 DEF CoverOf
  <2>4. UploadsOf(u)' = {} /\ \A q \in Reqs : ~Accepts(q)'
    BY <1>4, <2>2, <2>3 DEF Rivals
  <2>5. \A t \in Sent(u)' : Covered(t, u)'
    BY <1>u, <1>5, <1>7, <1>9, <2>3 DEF Covered
  <2> QED BY <2>4, <2>5 DEF CoverOf
<1>10. CASE u # req[r].user
  <2>1. u \in skewed <=> u \in skewed'
    BY <1>2, <1>10 DEF Return
  <2> QED BY <1>u, <1>1, <1>3, <1>4, <1>5, <1>6, <1>7, <1>10, <2>1, CoverOfOther
<1> QED BY <1>8, <1>9, <1>10

(* No row is later than now.                                               *)
LEMMA RowsUntilNow ==
  ASSUME Base
  PROVE  \A t \in Stored : t <= now
<1> SUFFICES ASSUME NEW t \in Stored PROVE t <= now
  OBVIOUS
<1>1. rows[t].id \in Ids
  BY MarksTyped DEF Base
<1> QED BY <1>1 DEF Base, Refs, ClockBound, RowTimes

(* What happens to the others when a request begins.                       *)
LEMMA StaysOf ==
  ASSUME TypeOK, NEW q \in Reqs, Stays(q)
  PROVE  /\ \A u \in Users : q \in UploadsOf(u)' <=> q \in UploadsOf(u)
         /\ Accepts(q)' <=> Accepts(q)
         /\ Accepts(q) => req'[q].time = req[q].time
         /\ Uploads(q) => req'[q].id = req[q].id /\ req'[q].at = req[q].at
                          /\ (req'[q].alone => req[q].alone)
BY DEF Stays, UploadsOf, Uploads, Accepts

(* An upload that begins alone begins when all is covered, and is the latest. *)
LEMMA UploadCover ==
  ASSUME Base, CoverInv, NEW r \in Reqs, NEW w \in Users, Upload(r, w)
  PROVE  CoverInv'
<1>0. TypeOK /\ req[r] = Idle
  BY DEF Base, Upload
<1>u. UNCHANGED <<now, objects, rows, recv, seen, skewed, accepted>>
  BY DEF Upload, store, marks, history
<1> DEFINE call(m) == [at |-> "put", user |-> w, id |-> m, alone |-> Rivals(w) = {}]
<1>1. PICK m \in Ids : /\ time[m] = 0 /\ time' = [time EXCEPT ![m] = now]
                      /\ Enter(r, call(m), Rivals(w))
  BY DEF Upload
<1>2. /\ call(m) \in Uploading /\ call(m) \notin Accepting /\ call(m).id = m /\ call(m).at = "put"
      /\ call(m).user = w /\ (call(m).alone <=> Rivals(w) = {})
  BY DEF Uploading, Accepting
<1>3. \A q \in Rivals(w) : q \in Reqs /\ req[q] # Idle
  BY IdleCall DEF Rivals, UploadsOf, Uploads, Accepts
<1> HIDE DEF call
<1>4. /\ req'[r] = call(m)
      /\ \A q \in Reqs \ {r} : Stays(q)
      /\ \A q \in Rivals(w) : ~req'[q].alone
      /\ \A q \in Reqs \ {r} : q \notin Rivals(w) => req'[q] = req[q]
  BY <1>0, <1>1, <1>2, <1>3, EnterStays
<1>5. Uploads(r)' /\ ~Accepts(r)' /\ ~Uploads(r) /\ ~Accepts(r)
  BY <1>0, <1>2, <1>4, IdleCall DEF Uploads, Accepts
<1>6. \A u \in Users : r \in UploadsOf(u)' <=> u = w
  BY <1>2, <1>4, <1>5 DEF UploadsOf
<1>7. \A q \in Reqs \ {r} : /\ \A u \in Users : q \in UploadsOf(u)' <=> q \in UploadsOf(u)
                            /\ Accepts(q)' <=> Accepts(q)
                            /\ Accepts(q) => req'[q].time = req[q].time
                            /\ Uploads(q) => req'[q].id = req[q].id /\ req'[q].at = req[q].at
                                             /\ (req'[q].alone => req[q].alone)
  BY <1>0, <1>4, StaysOf
<1>8. Grows
  BY <1>0, UploadGrows
<1> SUFFICES ASSUME NEW u \in Users PROVE CoverOf(u)'
  BY DEF CoverInv
<1>9. CoverOf(u) /\ Sent(u)' = Sent(u)
  BY <1>u DEF CoverInv, Sent, Stored
<1>10. UploadsOf(u) \subseteq Reqs \ {r} /\ UploadsOf(u)' \subseteq Reqs
       /\ \A q \in UploadsOf(u) : Uploads(q)
  BY <1>5 DEF UploadsOf
<1>11. CASE u # w
  <2>1. UploadsOf(u)' = UploadsOf(u)
    BY <1>6, <1>7, <1>10, <1>11
  <2>2. \A q \in UploadsOf(u) : q \notin Rivals(w)
    BY <1>0, <1>11, Kinds DEF Rivals, UploadsOf
  <2>3. \A q \in UploadsOf(u) : req'[q] = req[q]
    BY <1>4, <1>10, <2>2
  <2>4. Clear(u)' => Clear(u)
    BY <1>u, <2>1, <2>3 DEF Clear
  <2>5. \A q \in Reqs : Accepts(q)' => Accepts(q) /\ req'[q].time = req[q].time
    BY <1>5, <1>7
  <2> QED BY <1>u, <1>8, <1>9, <2>1, <2>3, <2>4, <2>5, CoverKept
<1>12. CASE u = w /\ Rivals(w) # {}
  <2>1. \A q \in UploadsOf(u)' : ~req'[q].alone
    <3>1. \A q \in UploadsOf(u)' : q = r \/ q \in Rivals(w)
      BY <1>7, <1>10, <1>12 DEF Rivals
    <3> QED BY <1>2, <1>4, <1>12, <3>1
  <2>2. ~Clear(u)'
    BY <1>6, <1>12, <2>1 DEF Clear
  <2> QED BY <2>1, <2>2, CoverUnclear
<1>13. CASE u = w /\ Rivals(w) = {}
  <2>1. UploadsOf(u)' = {r} /\ UploadsOf(u) = {} /\ \A q \in Reqs : ~Accepts(q) /\ ~Accepts(q)'
    BY <1>5, <1>6, <1>7, <1>10, <1>13 DEF Rivals
  <2>2. Rivals(u)' = {r}
    BY <2>1 DEF Rivals
  <2>3. TimeOf(r)' = now
    BY <1>0, <1>1, <1>2, <1>4 DEF TimeOf, TypeOK
  <2>4. \A t \in Sent(u)' : t <= TimeOf(r)'
    BY <1>9, <2>3, RowsUntilNow DEF Sent
  <2>5. Clear(u)' => Clear(u)
    BY <1>u, <2>1 DEF Clear
  <2>6. \A t \in Sent(u) : Clear(u) => Covered(t, u)'
    BY <1>u, <1>9, <2>1 DEF CoverOf, Covered
  <2>7. req'[r].at # "seen"
    BY <1>2, <1>4
  <2> QED BY <1>9, <2>1, <2>2, <2>4, <2>5, <2>6, <2>7 DEF CoverOf
<1> QED BY <1>11, <1>12, <1>13

(* An acceptance that begins is later than every row, and is a rival of all. *)
LEMMA AcceptCover ==
  ASSUME Base, CoverInv, NEW r \in Reqs, NEW w \in Users, Accept(r, w)
  PROVE  CoverInv'
<1>0. TypeOK /\ req[r] = Idle
  BY DEF Base, Accept
<1>u. UNCHANGED <<now, time, objects, rows, recv, seen, skewed>>
  BY DEF Accept, clock, store, marks
<1> DEFINE rivals == {q \in Reqs : req[q] # Idle}
           call == [at |-> "own", user |-> w, time |-> now, alone |-> rivals = {}]
<1>1. now \in Times
  BY <1>0 DEF TypeOK
<1>2. call \in Accepting /\ call \notin Uploading /\ call.time = now
  BY <1>1 DEF Accepting, Uploading
<1>3. Enter(r, call, rivals) /\ \A q \in rivals : q \in Reqs /\ req[q] # Idle
  BY DEF Accept
<1>4. \A q \in Reqs : Uploads(q) => q \in rivals
  BY IdleCall DEF Uploads
<1> HIDE DEF call, rivals
<1>5. /\ req'[r] = call
      /\ \A q \in Reqs \ {r} : Stays(q)
      /\ \A q \in rivals : ~req'[q].alone
  BY <1>0, <1>2, <1>3, EnterStays
<1>6. ~Uploads(r)' /\ ~Uploads(r)
  BY <1>0, <1>2, <1>5, IdleCall DEF Uploads
<1>7. \A q \in Reqs \ {r} : /\ \A u \in Users : q \in UploadsOf(u)' <=> q \in UploadsOf(u)
                            /\ Accepts(q)' <=> Accepts(q)
                            /\ Accepts(q) => req'[q].time = req[q].time
  BY <1>0, <1>5, StaysOf
<1> SUFFICES ASSUME NEW u \in Users PROVE CoverOf(u)'
  BY DEF CoverInv
<1>8. CoverOf(u) /\ Sent(u)' = Sent(u)
  BY <1>u DEF CoverInv, Sent, Stored
<1>9. UploadsOf(u)' = UploadsOf(u) /\ \A q \in UploadsOf(u)' : ~req'[q].alone
  <2>1. UploadsOf(u)' \subseteq Reqs \ {r} /\ UploadsOf(u) \subseteq Reqs \ {r}
    BY <1>6 DEF UploadsOf
  <2>2. UploadsOf(u)' = UploadsOf(u)
    BY <1>7, <2>1
  <2> QED BY <1>4, <1>5, <2>2 DEF UploadsOf
<1>10. CASE UploadsOf(u) # {}
  BY <1>9, <1>10, CoverUnclear DEF Clear
<1>11. CASE UploadsOf(u) = {}
  <2>1. Clear(u)' => Clear(u)
    BY <1>u, <1>9, <1>11 DEF Clear
  <2>2. ASSUME Clear(u)', NEW q \in Reqs, NEW t \in Sent(u), Accepts(q)'
        PROVE  t <= req'[q].time
    <3>1. CASE q = r
      BY <1>2, <1>5, <3>1, RowsUntilNow DEF Sent
    <3>2. CASE q # r
      BY <1>7, <1>8, <2>1, <2>2, <3>2 DEF CoverOf
    <3> QED BY <3>1, <3>2
  <2>3. \A t \in Sent(u) : Clear(u) => Covered(t, u)'
    BY <1>u, <1>8, <1>11 DEF CoverOf, Covered
  <2> QED BY <1>8, <1>9, <1>11, <2>1, <2>2, <2>3 DEF CoverOf
<1> QED BY <1>10, <1>11

(* It moves no mark back over what it is later than.                       *)
LEMMA AcceptStepCover ==
  ASSUME Base, CoverInv, NEW r \in Reqs, AcceptStep(r)
  PROVE  CoverInv'
<1>0. TypeOK /\ Accepts(r)
  BY DEF Base, AcceptStep
<1>u. UNCHANGED <<now, time, objects, rows, skewed>>
  BY DEF AcceptStep
<1>1. \A v \in Users : /\ recv'[v] \in {recv[v], req[r].time}
                       /\ seen'[v] \in {seen[v], req[r].time}
  BY <1>0 DEF AcceptStep, MarkBoth, marks, TypeOK
<1>2. ~Uploads(r)' /\ ~Uploads(r)
  BY <1>0, IdleCall, Kinds DEF AcceptStep, Uploads
<1>3. \A q \in Reqs \ {r} : req'[q] = req[q]
  BY DEF AcceptStep
<1>4. \A q \in Reqs : Accepts(q)' => Accepts(q) /\ req'[q].time = req[q].time
  BY <1>0, <1>3, IdleCall DEF AcceptStep, Accepts
<1> SUFFICES ASSUME NEW u \in Users PROVE CoverOf(u)'
  BY DEF CoverInv
<1>5. CoverOf(u) /\ Sent(u)' = Sent(u)
  BY <1>u DEF CoverInv, Sent, Stored
<1>6. /\ UploadsOf(u)' = UploadsOf(u)
      /\ \A q \in UploadsOf(u) : q # r /\ q \in Reqs /\ req'[q] = req[q]
  BY <1>2, <1>3 DEF UploadsOf, Uploads
<1>7. \A q \in UploadsOf(u) : ~req'[q].alone
  <2>1. r \in Rivals(u)
    BY <1>0 DEF Rivals
  <2> QED BY <1>5, <1>6, <2>1 DEF CoverOf
<1>8. Clear(u)' <=> Clear(u)
  BY <1>u, <1>6 DEF Clear
<1>9. ASSUME Clear(u), NEW t \in Sent(u)
      PROVE  Covered(t, u) => Covered(t, u)'
  <2>1. t <= req[r].time
    BY <1>0, <1>5, <1>9 DEF CoverOf
  <2> QED BY <1>1, <2>1 DEF Covered
<1> QED BY <1>4, <1>5, <1>6, <1>7, <1>8, <1>9 DEF CoverOf

(* The rest leaves the requests and the marks.                             *)
LEMMA RestCover ==
  ASSUME Base, CoverInv, Grows, UNCHANGED <<recv, seen, req, skewed>>,
         \A t \in Stored' : t \in Stored /\ rows'[t].user = rows[t].user
  PROVE  CoverInv'
<1> SUFFICES ASSUME NEW u \in Users PROVE CoverOf(u)'
  BY DEF CoverInv
<1>1. CoverOf(u) /\ Sent(u)' \subseteq Sent(u)
  BY DEF CoverInv, Sent
<1>2. UploadsOf(u)' = UploadsOf(u) /\ \A q \in Reqs : Accepts(q)' <=> Accepts(q)
  BY DEF UploadsOf, Uploads, Accepts
<1>3. Clear(u)' => Clear(u)
  BY <1>2 DEF Clear
<1> QED BY <1>1, <1>2, <1>3, CoverKept

(* Nothing was sent at first.                                              *)
LEMMA InitCover ==
  ASSUME Init
  PROVE  CoverInv
<1>1. \A u \in Users : Sent(u) = {} /\ UploadsOf(u) = {}
  BY IdleCall DEF Init, Sent, Stored, UploadsOf, Uploads
<1> QED BY <1>1 DEF CoverInv, CoverOf

(* Every step keeps the marks over what was sent.                          *)
LEMMA StepCover ==
  ASSUME Base, CoverInv, [Next]_vars
  PROVE  CoverInv'
<1>0. TypeOK
  BY DEF Base
<1>1. CASE UNCHANGED vars \/ Tick \/ \E m \in Ids : Listen(m)
  <2>1. UNCHANGED <<time, objects, rows, recv, seen, req, skewed, accepted>>
    BY <1>1 DEF Tick, Listen, vars, clock, store, marks, history
  <2>2. Stored' = Stored /\ Grows
    BY <2>1, SameGrows DEF Stored
  <2> QED BY <2>1, <2>2, RestCover
<1>2. CASE \E limit \in Limits : Open(limit) \/ Older(limit) \/ Newer(limit) \/ Both(limit)
  <2>1. UNCHANGED <<time, objects, rows, recv, seen, req, skewed, accepted>>
    BY <1>2 DEF Open, Older, Newer, Both, Reads, clock, store, marks, history
  <2>2. Stored' = Stored /\ Grows
    BY <2>1, SameGrows DEF Stored
  <2> QED BY <2>1, <2>2, RestCover
<1>3. CASE \E m \in Ids : MarkHeard(m)
  <2>1. PICK m \in Ids : MarkHeard(m)
    BY <1>3
  <2>2. UNCHANGED <<time, objects, recv, seen, req, skewed, accepted>>
    BY <2>1 DEF MarkHeard, clock, marks, history
  <2>3. Stored' = Stored /\ \A t \in Stored : rows'[t].user = rows[t].user
    BY <2>1, MarkHeardBase
  <2>4. Grows
    BY <2>2, <2>3 DEF Grows
  <2> QED BY <2>2, <2>3, <2>4, RestCover
<1>4. CASE \E r \in Reqs, u \in Users : Upload(r, u) \/ Accept(r, u)
  BY <1>4, UploadCover, AcceptCover
<1>5. CASE \E r \in Reqs : \/ Put(r) \/ Insert(r) \/ MarkRecv(r) \/ MarkSeen(r) \/ Fail(r)
                           \/ AcceptStep(r)
  BY <1>5, PutCover, InsertCover, MarkRecvCover, MarkSeenCover, FailCover, AcceptStepCover
<1> QED BY <1>0, <1>1, <1>2, <1>3, <1>4, <1>5, Steps

-----------------------------------------------------------------------------
(* The inductive invariant.                                                *)
IInv == Base /\ PagesHaveNoGaps /\ CoverInv

(* Every reachable state satisfies it, whatever fails and overlaps.        *)
THEOREM Inductive == Spec => []IInv
<1>1. Init => IInv
  BY InitInv, InitCover DEF IInv
<1>2. IInv /\ [Next]_vars => IInv'
  BY StepBase, StepPages, StepCover DEF IInv
<1> QED BY <1>1, <1>2, PTL DEF Spec

(* Every variable keeps its type: among others, a mark is a time and a page *)
(* holds ids (TypeOK).                                                     *)
THEOREM TypesHold == Spec => []TypeOK
<1>1. IInv => TypeOK
  BY DEF IInv, Base
<1> QED BY <1>1, Inductive, PTL

(* Whatever fails, each row has its audio, and last_recv and last_seen point *)
(* to a row or an acceptance, as AddAudioMessage puts the object before the *)
(* row and the row before the marks.                                       *)
THEOREM MarksCorrect == Spec => []MarksPointToMessages
<1>1. IInv => MarksPointToMessages
  BY DEF IInv, Base
<1> QED BY <1>1, Inductive, PTL

(* GetChain, read page by page in either direction with any limits, gives  *)
(* the messages in order, each once, and leaves none out between the oldest *)
(* and the newest but those that were stored late.                         *)
THEOREM PagesCorrect == Spec => []PagesHaveNoGaps
<1>1. IInv => PagesHaveNoGaps
  BY DEF IInv
<1> QED BY <1>1, Inductive, PTL

(* A row that is marked as seen in the background of GetAudioMessage, or one *)
(* that AddAudioMessage writes in its place, stands for a message that was *)
(* listened to.                                                            *)
THEOREM SeenCorrect == Spec => []SeenWasHeard
<1>1. IInv => SeenWasHeard
  BY DEF IInv, Base
<1> QED BY <1>1, Inductive, PTL

(* Once a user uploads nothing and its last upload went through by itself, *)
(* the marks of both cover all that it has sent, although AcceptRelation   *)
(* moves the same marks, and may stop half way.                            *)
THEOREM CoverCorrect == Spec => []MarksCoverMessages
<1>1. ASSUME IInv, NEW u \in Users \ skewed, UploadsOf(u) = {},
             NEW t \in Stored, rows[t].user = u
      PROVE  t <= seen[u] /\ \A v \in Users \ {u} : t <= recv[v]
  <2>1. CoverOf(u) /\ Clear(u) /\ t \in Sent(u)
    BY <1>1 DEF IInv, CoverInv, Clear, Sent
  <2> QED BY <1>1, <2>1 DEF CoverOf, Covered
<1>2. IInv => MarksCoverMessages
  BY <1>1 DEF MarksCoverMessages
<1> QED BY <1>2, Inductive, PTL
=============================================================================
