----------------------------- MODULE WireProofs -----------------------------
(***************************************************************************)
(* Proofs about what goes over a link to the router: its heartbeats, for   *)
(* any interval, delay and latency that meet the assumptions and any       *)
(* number of versions from three on, and the format of what is written,    *)
(* for inputs of any length.                                               *)
(***************************************************************************)
EXTENDS Heartbeat, WireCodec, Integers, FiniteSetTheorems, SequenceTheorems, TLAPS

-----------------------------------------------------------------------------
(* Versions.                                                               *)

(* The next version is a version ...                                       *)
LEMMA NextVerValue ==
  ASSUME NEW v \in Version
  PROVE  /\ NextVer(v) \in Version
         /\ NextVer(v) = IF v = Versions - 1 THEN 0 ELSE v + 1
<1>1. v \in Nat /\ Versions \in Nat /\ Versions > 2 /\ v < Versions
  BY ConstantsAssumption, TimingAssumption DEF Version
<1>2. CASE v = Versions - 1
  <2>1. (v + 1) % Versions = 0
    BY <1>1, <1>2
  <2> QED
    BY <1>1, <1>2, <2>1 DEF NextVer, Version
<1>3. CASE v # Versions - 1
  <2>1. (v + 1) % Versions = v + 1
    BY <1>1, <1>3
  <2> QED
    BY <1>1, <1>3, <2>1 DEF NextVer, Version
<1> QED
  BY <1>2, <1>3

(* ... another one, and so is the one after it.                            *)
LEMMA NextVerDiffers ==
  ASSUME NEW v \in Version
  PROVE  NextVer(v) # v /\ NextVer(NextVer(v)) # v
<1>1. Versions \in Nat /\ Versions > 2 /\ v \in 0 .. Versions - 1
  BY ConstantsAssumption, TimingAssumption DEF Version
<1>2. NextVer(v) \in Version /\ NextVer(v) = IF v = Versions - 1 THEN 0 ELSE v + 1
  BY NextVerValue
<1>3. NextVer(NextVer(v)) = IF NextVer(v) = Versions - 1 THEN 0 ELSE NextVer(v) + 1
  BY <1>2, NextVerValue
<1> QED
  BY <1>1, <1>2, <1>3

(* The first one is a version.                                             *)
LEMMA FirstVersion == 1 % Versions \in Version
<1>1. 1 % Versions = 1
  BY ConstantsAssumption, TimingAssumption
<1> QED
  BY <1>1, ConstantsAssumption, TimingAssumption DEF Version

-----------------------------------------------------------------------------
(* Types.                                                                  *)

(* The constants are numbers, and times never exceed them.                 *)
LEMMA Numbers ==
  /\ Interval \in Nat /\ MaxDelay \in Nat /\ MaxLatency \in Nat
  /\ 0 < Interval /\ 0 < MaxDelay /\ MaxLatency < MaxDelay /\ MaxDelay <= Interval
  /\ Bound = Interval + MaxDelay
BY ConstantsAssumption, TimingAssumption DEF Bound

(* Every reachable state is well typed.                                    *)
THEOREM TypeCorrect == Spec => []TypeOK
<1>1. Init => TypeOK
  BY FirstVersion, Numbers DEF Init, TypeOK
<1>2. TypeOK /\ [Next]_vars => TypeOK'
  <2> SUFFICES ASSUME TypeOK, [Next]_vars PROVE TypeOK'
    OBVIOUS
  <2>1. CASE UNCHANGED vars
    BY <2>1 DEF vars, TypeOK
  <2>2. CASE Beat
    <3>1. [ver |-> beatVer, age |-> 0] \in Ping
      BY DEF TypeOK, Ping
    <3>2. pings' \in Seq(Ping)
      BY <2>2, <3>1 DEF Beat, TypeOK
    <3>3. timers' \subseteq [ver : Version, left : 0 .. MaxDelay]
      BY <2>2, Numbers DEF Beat, TypeOK
    <3>4. beatVer' \in Version /\ beatIn' \in 0 .. Interval
      BY <2>2, NextVerValue, Numbers DEF Beat, TypeOK
    <3> QED
      BY <2>2, <3>2, <3>3, <3>4 DEF Beat, TypeOK
  <2>3. CASE Echo
    <3>1. Head(pings) \in Ping /\ Tail(pings) \in Seq(Ping)
      BY <2>3 DEF Echo, TypeOK
    <3>2. Head(pings).ver \in Version
      BY <3>1 DEF Ping
    <3> QED
      BY <2>3, <3>1, <3>2 DEF Echo, TypeOK
  <2>4. CASE CheckEcho
    <3>1. hchan' \in Seq(Version)
      BY <2>4 DEF CheckEcho, TypeOK
    <3>2. expected' \in Version /\ gaveUp' \in {"no", "timeout", "mismatch"}
      BY <2>4, NextVerValue DEF CheckEcho, ExpectedNext, TypeOK
    <3> QED
      BY <2>4, <3>1, <3>2 DEF CheckEcho, TypeOK
  <2>5. CASE CheckTimer
    BY <2>5 DEF CheckTimer, TypeOK
  <2>6. CASE Stop
    <3>1. alive' \in BOOLEAN
      BY <2>6 DEF Stop
    <3>2. pings' \in Seq(Ping)
      BY <2>6 DEF Stop
    <3> QED
      BY <2>6, <3>1, <3>2 DEF Stop, TypeOK
  <2>7. CASE Tick
    <3>1. beatIn' \in 0 .. Interval
      BY <2>7, Numbers DEF Tick, Waiting, TypeOK
    <3>2. timers' \subseteq [ver : Version, left : 0 .. MaxDelay]
      <4> SUFFICES ASSUME NEW t \in timers
                   PROVE  [t EXCEPT !.left = @ - 1] \in [ver : Version, left : 0 .. MaxDelay]
        BY <2>7 DEF Tick
      <4>1. t \in [ver : Version, left : 0 .. MaxDelay] /\ t.left > 0
        BY <2>7 DEF Tick, Waiting, TypeOK
      <4>2. t.left - 1 \in 0 .. MaxDelay
        BY <4>1, Numbers
      <4> QED
        BY <4>1, <4>2
    <3>3. pings' \in Seq(Ping)
      <4>1. ASSUME NEW x \in DOMAIN pings
            PROVE  [pings[x] EXCEPT !.age = @ + 1] \in Ping
        <5>1. pings[x] \in Ping
          BY DEF TypeOK
        <5> QED
          BY <5>1 DEF Ping
      <4>2. DOMAIN pings = 1 .. Len(pings) /\ Len(pings) \in Nat
        BY DEF TypeOK
      <4> QED
        BY <2>7, <4>1, <4>2 DEF Tick
    <3>4. silence' \in 0 .. Bound + 1
      BY <2>7, Numbers DEF Tick, TypeOK
    <3> QED
      BY <2>7, <3>1, <3>2, <3>3, <3>4 DEF Tick, TypeOK
  <2> QED
    BY <2>1, <2>2, <2>3, <2>4, <2>5, <2>6, <2>7 DEF Next
<1> QED
  BY <1>1, <1>2, PTL DEF Spec

-----------------------------------------------------------------------------
(* Where a link stands, as long as it is not given up. There is at most    *)
(* one ping that heartbeat_check has not heard of, and its version is the  *)
(* one expected.                                                           *)

\* Ticks since the last ping, and what is left of its timer.
Since == Interval - beatIn
Left == MaxDelay - Since

Pinged == beatVer = NextVer(expected) /\ Since <= MaxLatency

\* The ping is under way ...
Outstanding ==
  /\ Pinged /\ hchan = <<>>
  /\ pings = <<[ver |-> expected, age |-> Since]>>
\* ... its echo is to be compared ...
Echoed == Pinged /\ hchan = <<expected>> /\ pings = <<>>
\* ... or was, and the next ping is to come ...
Settled == beatVer = expected /\ hchan = <<>> /\ pings = <<>>
\* ... or it has no echo, but a timer.
Lost ==
  /\ hchan = <<>> /\ pings = <<>>
  /\ \E t \in timers : t.ver = expected /\ silence + t.left <= Bound

\* The timers that stand while a ping is not settled: its own, and one that
\* goes off within the tick.
OwnTimer(t) == t.ver = expected /\ t.left = Left
TimersOfPing ==
  /\ \E t \in timers : OwnTimer(t)
  /\ \A t \in timers : OwnTimer(t) \/ (NextVer(t.ver) = expected /\ t.left = 0)
\* And when it is.
TimersSettled ==
  \A t \in timers :
    \/ NextVer(t.ver) = expected /\ t.left = Left
    \/ NextVer(NextVer(t.ver)) = expected /\ t.left = 0 /\ beatIn > 0

Up ==
  /\ alive /\ silence = 0
  /\ \/ (Outstanding \/ Echoed) /\ TimersOfPing
     \/ Settled /\ TimersSettled
Silent ==
  /\ ~alive /\ silence <= Bound
  /\ \/ (Echoed \/ Settled) /\ silence + beatIn <= Interval
     \/ Lost
GivenUp == gaveUp = "timeout" /\ ~alive /\ silence <= Bound

LinkInv == (gaveUp = "no" /\ (Up \/ Silent)) \/ GivenUp

(* Both say of a link that is up or silent what the properties ask.        *)
LEMMA LinkIsRight == TypeOK /\ LinkInv => NoFalseAlarm /\ SilenceIsBounded
<1> SUFFICES ASSUME TypeOK, LinkInv PROVE NoFalseAlarm /\ SilenceIsBounded
  OBVIOUS
<1>1. CASE gaveUp = "no" /\ Up
  BY <1>1, Numbers DEF Up, NoFalseAlarm, SilenceIsBounded
<1>2. CASE gaveUp = "no" /\ Silent
  BY <1>2 DEF Silent, NoFalseAlarm, SilenceIsBounded
<1>3. CASE GivenUp
  BY <1>3 DEF GivenUp, NoFalseAlarm, SilenceIsBounded
<1> QED
  BY <1>1, <1>2, <1>3 DEF LinkInv

(* The types of times, for the arithmetic below.                           *)
LEMMA Times ==
  ASSUME TypeOK
  PROVE  /\ beatIn \in Nat /\ beatIn <= Interval /\ silence \in Nat
         /\ expected \in Version /\ beatVer \in Version
         /\ \A t \in timers : /\ t.ver \in Version /\ t.left \in Nat /\ t.left <= MaxDelay
                              /\ t = [ver |-> t.ver, left |-> t.left]
BY Numbers DEF TypeOK

(* A ping whose timer stands has not used it up.                           *)
LEMMA TimerStands ==
  ASSUME TypeOK, Pinged
  PROVE  Left > 0 /\ beatIn > 0
BY Times, Numbers DEF Pinged, Since, Left

(* A ping is written.                                                      *)
LEMMA BeatStep ==
  ASSUME TypeOK, gaveUp = "no", Up \/ Silent, Beat
  PROVE  LinkInv'
<1>1. /\ beatIn = 0 /\ beatIn' = Interval /\ beatVer' = NextVer(beatVer)
      /\ timers' = timers \cup {[ver |-> beatVer, left |-> MaxDelay]}
      /\ UNCHANGED <<hchan, expected, silence, gaveUp>>
  BY DEF Beat
<1>2. ~Pinged
  BY <1>1, TimerStands
<1>3. UNCHANGED alive
  BY DEF Beat
<1>4. PICK own \in timers' : own = [ver |-> beatVer, left |-> MaxDelay]
  BY <1>1
<1>5. CASE Up
  <2>1. Settled /\ TimersSettled /\ alive /\ silence = 0
    BY <1>2, <1>5 DEF Up, Outstanding, Echoed
  <2>2. Since' = 0 /\ Left' = MaxDelay /\ Left <= 0
    BY <1>1, Numbers DEF Since, Left
  <2>3. pings' = <<[ver |-> expected, age |-> 0]>>
    BY <2>1 DEF Beat, Settled
  <2>4. Outstanding'
    BY <1>1, <2>1, <2>2, <2>3, Numbers DEF Settled, Outstanding, Pinged
  <2>5. OwnTimer(own)'
    BY <1>1, <1>4, <2>1, <2>2 DEF OwnTimer, Settled
  <2>6. ASSUME NEW t \in timers PROVE NextVer(t.ver) = expected /\ t.left = 0
    BY <1>1, <2>1, <2>2, Times DEF TimersSettled
  <2>7. ASSUME NEW t \in timers'
        PROVE  OwnTimer(t)' \/ (NextVer(t.ver) = expected' /\ t.left = 0)
    <3>1. CASE t \in timers
      BY <1>1, <2>6, <3>1
    <3>2. CASE t \notin timers
      BY <1>1, <1>4, <2>5, <3>2
    <3> QED
      BY <3>1, <3>2
  <2>8. TimersOfPing'
    BY <2>5, <2>7 DEF TimersOfPing
  <2> QED
    BY <1>1, <1>3, <2>1, <2>4, <2>8 DEF LinkInv, Up
<1>6. CASE Silent
  <2>1. ~alive /\ silence <= Bound /\ pings' = pings
    BY <1>6 DEF Silent, Beat
  <2>2. CASE Settled /\ silence + beatIn <= Interval
    <3>1. own.ver = expected' /\ silence' + own.left <= Bound
      BY <1>1, <1>4, <2>2, Times, Numbers DEF Settled
    <3>2. Lost'
      BY <1>1, <1>4, <2>1, <2>2, <3>1 DEF Lost, Settled, Bound
    <3> QED
      BY <1>1, <1>3, <2>1, <3>2 DEF LinkInv, Silent, Bound
  <2>3. CASE Lost
    <3>1. Lost'
      BY <1>1, <2>1, <2>3 DEF Lost, Bound
    <3> QED
      BY <1>1, <1>3, <2>1, <3>1 DEF LinkInv, Silent, Bound
  <2> QED
    BY <1>2, <1>6, <2>2, <2>3 DEF Silent, Echoed
<1> QED
  BY <1>5, <1>6

(* A ping is echoed.                                                       *)
LEMMA EchoStep ==
  ASSUME TypeOK, gaveUp = "no", Up \/ Silent, Echo
  PROVE  LinkInv'
<1>1. pings # <<>>
  BY DEF Echo
<1>2. Up /\ Outstanding /\ TimersOfPing
  BY <1>1 DEF Up, Silent, Echoed, Settled, Lost
<1>3. Head(pings).ver = expected /\ Tail(pings) = <<>>
  BY <1>2 DEF Outstanding
<1>4. hchan' = <<expected>> /\ pings' = <<>>
  BY <1>2, <1>3 DEF Echo, Outstanding
<1>5. UNCHANGED <<beatIn, beatVer, timers, expected, alive, silence, gaveUp>>
  BY DEF Echo
<1>6. Echoed'
  BY <1>2, <1>4, <1>5 DEF Outstanding, Echoed, Pinged, Since
<1>7. TimersOfPing'
  BY <1>2, <1>5 DEF TimersOfPing, OwnTimer, Left, Since
<1> QED
  BY <1>2, <1>5, <1>6, <1>7 DEF LinkInv, Up

(* An echo is compared: it is the one expected.                            *)
LEMMA CheckEchoStep ==
  ASSUME TypeOK, gaveUp = "no", Up \/ Silent, CheckEcho
  PROVE  LinkInv'
<1>1. hchan # <<>> /\ UNCHANGED <<beatIn, beatVer, timers, pings, alive, silence>>
  BY DEF CheckEcho
<1>2. Echoed
  BY <1>1 DEF Up, Silent, Outstanding, Settled, Lost
<1>3. Head(hchan) = expected /\ Tail(hchan) = <<>>
  BY <1>2 DEF Echoed
<1>4. expected' = NextVer(expected) /\ hchan' = <<>> /\ UNCHANGED gaveUp
  BY <1>3 DEF CheckEcho, ExpectedNext
<1>5. Settled'
  BY <1>1, <1>2, <1>4 DEF Echoed, Pinged, Settled
<1>6. CASE Up
  <2>1. TimersOfPing /\ beatIn > 0
    BY <1>1, <1>2, <1>6, TimerStands DEF Up, Settled, Echoed
  <2>2. ASSUME NEW t \in timers
        PROVE  \/ NextVer(t.ver) = expected' /\ t.left = Left
               \/ NextVer(NextVer(t.ver)) = expected' /\ t.left = 0 /\ beatIn > 0
    BY <1>4, <2>1 DEF TimersOfPing, OwnTimer
  <2>3. TimersSettled'
    BY <1>1, <2>2 DEF TimersSettled, Left, Since
  <2> QED
    BY <1>1, <1>4, <1>5, <1>6, <2>3 DEF LinkInv, Up
<1>7. CASE Silent
  BY <1>1, <1>2, <1>4, <1>5, <1>7 DEF LinkInv, Silent, Lost, Echoed, Bound
<1> QED
  BY <1>6, <1>7

(* A timer goes off: nothing is missing while the router echoes.           *)
LEMMA CheckTimerStep ==
  ASSUME TypeOK, gaveUp = "no", Up \/ Silent, CheckTimer
  PROVE  LinkInv'
<1>1. PICK t \in timers :
        /\ t.left = 0 /\ timers' = timers \ {t}
        /\ gaveUp' = IF Missing(t.ver) THEN "timeout" ELSE gaveUp
  BY DEF CheckTimer
<1>2. UNCHANGED <<beatIn, beatVer, pings, hchan, expected, alive, silence>>
  BY DEF CheckTimer
<1>3. CASE Up
  <2>1. t.ver # expected
    <3>1. CASE TimersOfPing /\ Pinged
      <4>1. ~OwnTimer(t)
        BY <1>1, <3>1, TimerStands DEF OwnTimer
      <4>2. NextVer(t.ver) = expected
        BY <3>1, <4>1 DEF TimersOfPing
      <4> QED
        BY <4>2, Times, NextVerDiffers
    <3>2. CASE TimersSettled
      BY <3>2, Times, NextVerDiffers DEF TimersSettled
    <3> QED
      BY <1>3, <3>1, <3>2 DEF Up, Outstanding, Echoed
  <2>2. gaveUp' = "no"
    BY <1>1, <2>1 DEF Missing
  <2>3. TimersSettled => TimersSettled'
    BY <1>1, <1>2 DEF TimersSettled, Left, Since
  <2>4. TimersOfPing => TimersOfPing'
    <3>1. ASSUME NEW o \in timers, OwnTimer(o) PROVE o \in timers' /\ OwnTimer(o)'
      BY <1>1, <1>2, <2>1, <3>1 DEF OwnTimer, Left, Since
    <3> QED
      BY <1>1, <1>2, <3>1 DEF TimersOfPing
  <2>5. Settled => Settled'
    BY <1>2 DEF Settled
  <2>6. Outstanding \/ Echoed => (Outstanding \/ Echoed)'
    BY <1>2 DEF Outstanding, Echoed, Pinged, Since
  <2> QED
    BY <1>2, <1>3, <2>2, <2>3, <2>4, <2>5, <2>6 DEF LinkInv, Up
<1>4. CASE Silent
  <2>1. CASE Missing(t.ver)
    BY <1>1, <1>2, <1>4, <2>1 DEF LinkInv, GivenUp, Silent, Bound
  <2>2. CASE ~Missing(t.ver)
    <3>1. gaveUp' = "no" /\ t.ver # expected
      BY <1>1, <2>2 DEF Missing
    <3>2. Lost => Lost'
      BY <1>1, <1>2, <3>1 DEF Lost, Bound
    <3>3. (Echoed => Echoed') /\ (Settled => Settled')
      BY <1>2 DEF Settled, Echoed, Pinged, Since
    <3> QED
      BY <1>2, <1>4, <3>1, <3>2, <3>3 DEF LinkInv, Silent, Bound
  <2> QED
    BY <2>1, <2>2
<1> QED
  BY <1>3, <1>4

(* The router stops: a ping under way is lost.                             *)
LEMMA StopStep ==
  ASSUME TypeOK, gaveUp = "no", Up \/ Silent, Stop
  PROVE  LinkInv'
<1>1. /\ alive /\ ~alive' /\ pings' = <<>>
      /\ UNCHANGED <<beatIn, beatVer, timers, hchan, expected, silence, gaveUp>>
  BY DEF Stop
<1>2. Up /\ silence = 0
  BY <1>1 DEF Up, Silent
<1>3. silence + beatIn <= Interval /\ silence <= Bound
  BY <1>2, Times, Numbers
<1>4. CASE Outstanding
  <2>1. TimersOfPing
    BY <1>2, <1>4, TimerStands, Times, NextVerDiffers DEF Up, Outstanding, Pinged, Settled
  <2>2. PICK t \in timers : t.ver = expected
    BY <2>1 DEF TimersOfPing, OwnTimer
  <2>3. silence + t.left <= Bound
    BY <1>2, Times, Numbers
  <2>4. Lost'
    BY <1>1, <1>4, <2>2, <2>3 DEF Lost, Outstanding, Bound
  <2> QED
    BY <1>1, <1>3, <2>4 DEF LinkInv, Silent, Bound
<1>5. CASE Echoed
  <2>1. Echoed'
    BY <1>1, <1>5 DEF Echoed, Pinged, Since
  <2> QED
    BY <1>1, <1>3, <2>1 DEF LinkInv, Silent, Bound
<1>6. CASE Settled
  <2>1. Settled'
    BY <1>1, <1>6 DEF Settled
  <2> QED
    BY <1>1, <1>3, <2>1 DEF LinkInv, Silent, Bound
<1> QED
  BY <1>2, <1>4, <1>5, <1>6 DEF Up

(* A tick passes: no goroutine had anything to do.                         *)
LEMMA TickStep ==
  ASSUME TypeOK, gaveUp = "no", Up \/ Silent, Tick
  PROVE  LinkInv'
<1>1. /\ beatIn > 0 /\ hchan = <<>> /\ beatIn' = beatIn - 1
      /\ \A t \in timers : t.left > 0
      /\ timers' = {[t EXCEPT !.left = @ - 1] : t \in timers}
      /\ UNCHANGED <<beatVer, hchan, expected, alive, gaveUp>>
  BY DEF Tick, Waiting
<1>2. Since' = Since + 1 /\ Left' = Left - 1 /\ Since \in Int /\ Left \in Int
  BY <1>1, Times, Numbers DEF Since, Left
<1>3. \A t \in timers : /\ [t EXCEPT !.left = @ - 1] \in timers'
                        /\ [t EXCEPT !.left = @ - 1].ver = t.ver
                        /\ [t EXCEPT !.left = @ - 1].left = t.left - 1
  BY <1>1, Times
<1>4. \A o \in timers' : \E t \in timers : o.ver = t.ver /\ o.left = t.left - 1
  BY <1>1, <1>3
<1>5. pings = <<>> => pings' = <<>>
  <2> SUFFICES ASSUME pings = <<>> PROVE pings' = <<>>
    OBVIOUS
  <2>1. DOMAIN pings = {}
    OBVIOUS
  <2>2. pings' = [x \in {} |-> [pings[x] EXCEPT !.age = @ + 1]]
    BY <2>1 DEF Tick
  <2> QED
    BY <2>2
<1>6. CASE Up
  <2>1. UNCHANGED silence
    BY <1>6 DEF Tick, Up
  <2>2. CASE Outstanding /\ TimersOfPing
    <3>1. pings[1] = [ver |-> expected, age |-> Since] /\ DOMAIN pings = {1}
      BY <2>2 DEF Outstanding
    <3>2. Since < MaxLatency
      BY <3>1 DEF Tick, Waiting
    <3>3. pings' = <<[ver |-> expected, age |-> Since + 1]>>
      <4>1. [pings[1] EXCEPT !.age = @ + 1] = [ver |-> expected, age |-> Since + 1]
        BY <3>1
      <4>2. pings' = [x \in {1} |-> [pings[x] EXCEPT !.age = @ + 1]]
        BY <3>1 DEF Tick
      <4> QED
        BY <4>1, <4>2
    <3>4. Outstanding'
      BY <1>1, <1>2, <2>2, <3>2, <3>3, Numbers DEF Outstanding, Pinged
    <3>5. PICK t \in timers : OwnTimer(t)
      BY <2>2 DEF TimersOfPing
    <3>6. \E o \in timers' : OwnTimer(o)'
      BY <1>1, <1>2, <1>3, <3>5 DEF OwnTimer
    <3>7. ASSUME NEW o \in timers' PROVE OwnTimer(o)'
      <4>1. PICK x \in timers : o.ver = x.ver /\ o.left = x.left - 1
        BY <1>4
      <4>2. OwnTimer(x)
        BY <1>1, <2>2 DEF TimersOfPing
      <4> QED
        BY <1>1, <1>2, <4>1, <4>2 DEF OwnTimer
    <3> QED
      BY <1>1, <1>6, <2>1, <3>4, <3>6, <3>7 DEF LinkInv, Up, TimersOfPing
  <2>3. CASE Settled /\ TimersSettled
    <3>1. Settled'
      BY <1>1, <1>5, <2>3 DEF Settled
    <3>2. ASSUME NEW o \in timers' PROVE NextVer(o.ver) = expected' /\ o.left = Left'
      <4>1. PICK x \in timers : o.ver = x.ver /\ o.left = x.left - 1
        BY <1>4
      <4>2. NextVer(x.ver) = expected /\ x.left = Left
        BY <1>1, <2>3 DEF TimersSettled
      <4> QED
        BY <1>1, <1>2, <4>1, <4>2
    <3> QED
      BY <1>1, <1>6, <2>1, <3>1, <3>2 DEF LinkInv, Up, TimersSettled
  <2> QED
    BY <1>1, <1>6, <2>2, <2>3 DEF Up, Echoed
<1>7. CASE Silent
  <2>1. silence' = silence + 1 /\ ~alive /\ ~alive'
    BY <1>1, <1>7, Times, Numbers DEF Tick, Silent
  <2>2. CASE Settled /\ silence + beatIn <= Interval
    <3>1. Settled' /\ silence' + beatIn' <= Interval /\ silence' <= Bound
      BY <1>1, <1>5, <2>1, <2>2, Times, Numbers DEF Settled
    <3> QED
      BY <1>1, <2>1, <3>1 DEF LinkInv, Silent, Bound
  <2>3. CASE Lost
    <3>1. PICK t \in timers : t.ver = expected /\ silence + t.left <= Bound
      BY <2>3 DEF Lost
    <3>2. PICK o \in timers' : o.ver = t.ver /\ o.left = t.left - 1
      BY <1>3
    <3>3. t.left > 0 /\ silence' + o.left <= Bound /\ silence' <= Bound
      BY <1>1, <2>1, <3>1, <3>2, Times, Numbers
    <3>4. Lost'
      BY <1>1, <1>5, <2>3, <3>1, <3>2, <3>3 DEF Lost, Bound
    <3> QED
      BY <1>1, <2>1, <3>3, <3>4 DEF LinkInv, Silent, Bound
  <2> QED
    BY <1>1, <1>7, <2>2, <2>3 DEF Silent, Echoed
<1> QED
  BY <1>6, <1>7

(* Every step keeps the invariant.                                         *)
LEMMA LinkInvariant == Spec => []LinkInv
<1>1. Init => LinkInv
  <2> SUFFICES ASSUME Init PROVE LinkInv
    OBVIOUS
  <2>1. Settled /\ TimersSettled /\ alive /\ silence = 0 /\ gaveUp = "no"
    BY DEF Init, Settled, TimersSettled
  <2> QED
    BY <2>1 DEF LinkInv, Up
<1>2. TypeOK /\ LinkInv /\ [Next]_vars => LinkInv'
  <2> SUFFICES ASSUME TypeOK, LinkInv, [Next]_vars PROVE LinkInv'
    OBVIOUS
  <2>1. CASE UNCHANGED vars
    BY <2>1 DEF vars, LinkInv, Up, Silent, GivenUp, Outstanding, Echoed, Settled, Lost, Pinged,
                TimersOfPing, TimersSettled, OwnTimer, Since, Left, Bound
  <2>2. CASE Next
    <3>1. gaveUp = "no" /\ (Up \/ Silent)
      BY <2>2 DEF Next, LinkInv, GivenUp
    <3> QED
      BY <2>2, <3>1, BeatStep, EchoStep, CheckEchoStep, CheckTimerStep, StopStep, TickStep DEF Next
  <2> QED
    BY <2>1, <2>2
<1> QED
  BY <1>1, <1>2, TypeCorrect, PTL DEF Spec

(* heartbeat_check (socket_client.go:332-362) never gives up a link whose  *)
(* router echoes in time, with any number of versions from three on.       *)
THEOREM NoFalseAlarmCorrect == Spec => []NoFalseAlarm
BY LinkIsRight, LinkInvariant, TypeCorrect, PTL

(* A router that stopped is given up within Interval + MaxDelay ticks, by  *)
(* its timer and never because of a version out of order.                  *)
THEOREM SilenceCorrect == Spec => []SilenceIsBounded
BY LinkIsRight, LinkInvariant, TypeCorrect, PTL

(* At most one ping is without an answer or has one that heartbeat_check   *)
(* has not taken yet.                                                      *)
OneBeat == gaveUp = "no" => Len(pings) + Len(hchan) <= 1

(* So read_tcp never waits to hand an echo to heartbeat_check              *)
(* (socket_client.go:255), whatever the capacity of heartbeat_chan.        *)
THEOREM OneBeatCorrect == Spec => []OneBeat
<1>1. LinkInv => OneBeat
  <2> SUFFICES ASSUME LinkInv, gaveUp = "no" PROVE Len(pings) + Len(hchan) <= 1
    BY DEF OneBeat
  <2>1. Outstanding \/ Echoed \/ Settled \/ Lost
    BY DEF LinkInv, GivenUp, Up, Silent
  <2>2. Len(<<>>) = 0
    OBVIOUS
  <2>3. CASE Outstanding
    <3> DEFINE ping == [ver |-> expected, age |-> Since]
    <3>1. hchan = <<>> /\ pings = <<ping>>
      BY <2>3 DEF Outstanding
    <3> HIDE DEF ping
    <3>2. Len(<<ping>>) = 1
      OBVIOUS
    <3> QED
      BY <2>2, <3>1, <3>2
  <2>4. CASE Echoed
    <3>1. hchan = <<expected>> /\ pings = <<>>
      BY <2>4 DEF Echoed
    <3>2. Len(<<expected>>) = 1
      OBVIOUS
    <3> QED
      BY <2>2, <3>1, <3>2
  <2>5. CASE Settled \/ Lost
    BY <2>2, <2>5 DEF Settled, Lost
  <2> QED
    BY <2>1, <2>3, <2>4, <2>5
<1> QED
  BY <1>1, LinkInvariant, PTL

-----------------------------------------------------------------------------
(* What the invariant of the codec says of an input s.                     *)

(* The k-th cut of s is there.                                             *)
HasCut(s, k) == k = 0 \/ IsCut(s, k, Cut(s, k))

(* The first k parameters of a package are the parts of s between its      *)
(* delimiters, and the k-th is all that follows the last delimiter.        *)
Led(s, ps, k) == \A j \in 1 .. k : HasCut(s, j) /\ Part(s, j) = ps[j]
Joined(s, ps, k) ==
  IF k = 0 THEN s = <<>>
  ELSE /\ Delims(s, Len(s)) = k - 1
       /\ Led(s, ps, k - 1)
       /\ From(s, k - 1) = ps[k]

(* The whole package.                                                      *)
Packed(s, ps, load) ==
  IF load = None THEN Joined(s, ps, Len(ps))
  ELSE /\ Delims(s, Len(s)) >= Len(ps)
       /\ Led(s, ps, Len(ps))
       /\ From(s, Len(ps)) = load

-----------------------------------------------------------------------------
(* Delimiters and cuts.                                                    *)

(* The delimiters up to an index are finitely many, ...                    *)
LEMMA DelimsNumber ==
  ASSUME NEW s, NEW j \in Nat
  PROVE  IsFiniteSet(DelimsIn(s, j)) /\ Delims(s, j) \in Nat
<1>1. IsFiniteSet(1 .. j)
  BY FS_Interval
<1>2. DelimsIn(s, j) \in SUBSET (1 .. j)
  BY DEF DelimsIn
<1>3. IsFiniteSet(DelimsIn(s, j))
  BY <1>1, <1>2, FS_Subset
<1> QED
  BY <1>3, FS_CardinalityType DEF Delims

(* ... one more if a delimiter follows, ...                                *)
LEMMA DelimsStep ==
  ASSUME NEW s, NEW j \in Nat
  PROVE  /\ Delims(s, 0) = 0
         /\ Delims(s, j + 1) = IF s[j + 1] = Delim THEN Delims(s, j) + 1 ELSE Delims(s, j)
<1>1. DelimsIn(s, 0) = {}
  BY DEF DelimsIn
<1>2. Delims(s, 0) = 0
  BY <1>1, FS_EmptySet DEF Delims
<1>3. CASE s[j + 1] = Delim
  <2>1. DelimsIn(s, j + 1) = DelimsIn(s, j) \cup {j + 1}
    BY <1>3 DEF DelimsIn
  <2>2. j + 1 \notin DelimsIn(s, j)
    BY DEF DelimsIn
  <2>3. Cardinality(DelimsIn(s, j) \cup {j + 1}) = Cardinality(DelimsIn(s, j)) + 1
    BY <2>2, DelimsNumber, FS_AddElement
  <2> QED
    BY <1>2, <1>3, <2>1, <2>3 DEF Delims
<1>4. CASE s[j + 1] # Delim
  <2>1. DelimsIn(s, j + 1) = DelimsIn(s, j)
    BY <1>4 DEF DelimsIn
  <2> QED
    BY <1>2, <1>4, <2>1 DEF Delims
<1> QED
  BY <1>3, <1>4

(* ... and never fewer.                                                    *)
LEMMA DelimsGrow ==
  ASSUME NEW s, NEW j \in Nat, NEW k \in Nat, j <= k
  PROVE  Delims(s, j) <= Delims(s, k)
<1>1. DelimsIn(s, j) \in SUBSET DelimsIn(s, k)
  BY DEF DelimsIn
<1> QED
  BY <1>1, DelimsNumber, FS_Subset DEF Delims

(* No two delimiters have the same number, so a cut is found where it is.  *)
LEMMA CutUnique ==
  ASSUME NEW s, NEW k \in Nat \ {0}, NEW j, Len(s) \in Nat, IsCut(s, k, j)
  PROVE  Cut(s, k) = j /\ HasCut(s, k)
<1>1. j \in 1 .. Len(s)
  BY DEF IsCut, DelimsIn
<1>2. ASSUME NEW l \in 1 .. Len(s), NEW m \in 1 .. Len(s), l < m,
             IsCut(s, k, l), IsCut(s, k, m)
      PROVE  FALSE
  <2>1. s[m] = Delim /\ Delims(s, l) = k /\ Delims(s, m) = k
    BY <1>2 DEF IsCut, DelimsIn
  <2>2. l \in Nat /\ m - 1 \in Nat /\ l <= m - 1 /\ (m - 1) + 1 = m
    BY <1>2
  <2>3. Delims(s, l) <= Delims(s, m - 1)
    BY <2>2, DelimsGrow
  <2>4. Delims(s, m) = Delims(s, m - 1) + 1
    BY <2>1, <2>2, DelimsStep
  <2>5. Delims(s, m - 1) \in Nat
    BY <2>2, DelimsNumber
  <2> QED
    BY <2>1, <2>3, <2>4, <2>5
<1>3. Cut(s, k) = CHOOSE l \in 1 .. Len(s) : IsCut(s, k, l)
  BY DEF Cut
<1>4. Cut(s, k) \in 1 .. Len(s) /\ IsCut(s, k, Cut(s, k))
  BY <1>1, <1>3
<1> QED
  BY <1>1, <1>2, <1>4 DEF HasCut

(* A delimiter that is looked at is the next cut.                          *)
LEMMA NextCut ==
  ASSUME NEW s, Len(s) \in Nat, NEW j \in 1 .. Len(s), s[j] = Delim
  PROVE  /\ Delims(s, j - 1) + 1 \in Nat \ {0}
         /\ Delims(s, j) = Delims(s, j - 1) + 1
         /\ HasCut(s, Delims(s, j - 1) + 1)
         /\ Cut(s, Delims(s, j - 1) + 1) = j
<1>1. j - 1 \in Nat /\ (j - 1) + 1 = j
  OBVIOUS
<1>2. Delims(s, j - 1) \in Nat /\ Delims(s, j) = Delims(s, j - 1) + 1
  BY <1>1, DelimsNumber, DelimsStep
<1>3. IsCut(s, Delims(s, j - 1) + 1, j)
  BY <1>2 DEF IsCut, DelimsIn
<1>4. Delims(s, j - 1) + 1 \in Nat \ {0}
  BY <1>2
<1> QED
  BY <1>2, <1>3, <1>4, CutUnique

(* What follows leaves the delimiters and cuts of s where they are.        *)
LEMMA CutsKept ==
  ASSUME NEW s \in Seq(Alphabet), NEW t \in Seq(Alphabet)
  PROVE  /\ \A j \in 0 .. Len(s) : Delims(s \o t, j) = Delims(s, j)
         /\ \A k \in Nat : HasCut(s, k) => HasCut(s \o t, k) /\ Cut(s \o t, k) = Cut(s, k)
<1> DEFINE u == s \o t
<1>1. /\ Len(s) \in Nat /\ Len(t) \in Nat /\ Len(u) = Len(s) + Len(t)
      /\ \A j \in 1 .. Len(s) : u[j] = s[j]
  BY ConcatProperties, LenProperties
<1> HIDE DEF u
<1>2. \A j \in 0 .. Len(s) : DelimsIn(u, j) = DelimsIn(s, j)
  BY <1>1 DEF DelimsIn
<1>3. \A j \in 0 .. Len(s) : Delims(u, j) = Delims(s, j)
  BY <1>2 DEF Delims
<1>4. ASSUME NEW k \in Nat, HasCut(s, k)
      PROVE  HasCut(u, k) /\ Cut(u, k) = Cut(s, k)
  <2>1. CASE k = 0
    BY <2>1 DEF HasCut, Cut
  <2>2. CASE k # 0
    <3> DEFINE c == Cut(s, k)
    <3>1. c \in 1 .. Len(s) /\ s[c] = Delim /\ Delims(s, c) = k
      BY <1>4, <2>2 DEF HasCut, IsCut, DelimsIn
    <3> HIDE DEF c
    <3>2. c \in 1 .. Len(u) /\ u[c] = Delim /\ Delims(u, c) = k
      BY <1>1, <1>3, <3>1
    <3>3. IsCut(u, k, c)
      BY <3>2 DEF IsCut, DelimsIn
    <3>4. k \in Nat \ {0} /\ Len(u) \in Nat
      BY <1>1, <2>2
    <3>5. Cut(u, k) = c /\ HasCut(u, k)
      BY <3>3, <3>4, CutUnique
    <3> QED
      BY <3>5 DEF c
  <2> QED
    BY <2>1, <2>2
<1> QED
  BY <1>3, <1>4 DEF u

-----------------------------------------------------------------------------
(* Parts.                                                                  *)

(* A cut is a number, and no part of s reaches beyond its end.             *)
LEMMA CutNumber ==
  ASSUME NEW s \in Seq(Alphabet), NEW k \in Nat, HasCut(s, k)
  PROVE  /\ Cut(s, k) \in 0 .. Len(s)
         /\ k # 0 => Cut(s, k) \in 1 .. Len(s)
<1>1. Len(s) \in Nat
  BY LenProperties
<1> QED
  BY <1>1 DEF HasCut, Cut, IsCut, DelimsIn

(* A stretch of s is the same in what begins with s.                       *)
LEMMA StretchKept ==
  ASSUME NEW s \in Seq(Alphabet), NEW t \in Seq(Alphabet),
         NEW j \in Nat \ {0}, NEW k \in Nat, k <= Len(s)
  PROVE  SubSeq(s \o t, j, k) = SubSeq(s, j, k)
<1>1. Len(s) \in Nat
  BY LenProperties
<1>2. CASE j <= k
  <2>1. j \in 1 .. Len(s) /\ k \in 1 .. Len(s)
    BY <1>1, <1>2
  <2> QED
    BY <2>1, SubSeqOfConcat1
<1>3. CASE k < j
  BY <1>3, SubSeqEmpty
<1> QED
  BY <1>2, <1>3

(* So are the parts of s, ...                                              *)
LEMMA PartKept ==
  ASSUME NEW s \in Seq(Alphabet), NEW t \in Seq(Alphabet), NEW k \in Nat \ {0},
         HasCut(s, k - 1), HasCut(s, k)
  PROVE  Part(s \o t, k) = Part(s, k)
<1>1. k - 1 \in Nat /\ Len(s) \in Nat
  BY LenProperties
<1>2. Cut(s \o t, k - 1) = Cut(s, k - 1) /\ Cut(s \o t, k) = Cut(s, k)
  BY <1>1, CutsKept
<1>3. Cut(s, k - 1) \in 0 .. Len(s) /\ Cut(s, k) \in 1 .. Len(s)
  BY <1>1, CutNumber
<1> DEFINE c == Cut(s, k - 1) + 1
           e == Cut(s, k) - 1
<1>4. c \in Nat \ {0} /\ e \in Nat /\ e <= Len(s)
  BY <1>1, <1>3
<1> HIDE DEF c, e
<1>5. SubSeq(s \o t, c, e) = SubSeq(s, c, e)
  BY <1>4, StretchKept
<1> QED
  BY <1>2, <1>5 DEF Part, c, e

(* ... so whatever led s still does, ...                                   *)
LEMMA LedKept ==
  ASSUME NEW s \in Seq(Alphabet), NEW t \in Seq(Alphabet), NEW ps, NEW k \in Nat,
         Led(s, ps, k)
  PROVE  Led(s \o t, ps, k)
<1> SUFFICES ASSUME NEW j \in 1 .. k
             PROVE  HasCut(s \o t, j) /\ Part(s \o t, j) = ps[j]
  BY DEF Led
<1>1. j \in Nat \ {0} /\ j - 1 \in Nat /\ (j - 1 = 0 \/ j - 1 \in 1 .. k)
  OBVIOUS
<1>2. HasCut(s, j) /\ HasCut(s, j - 1) /\ Part(s, j) = ps[j]
  BY <1>1 DEF Led, HasCut
<1> QED
  BY <1>1, <1>2, CutsKept, PartKept

(* ... and letters without delimiters add none.                            *)
LEMMA NoMoreDelims ==
  ASSUME NEW s \in Seq(Alphabet), NEW t \in Seq(Bytes)
  PROVE  Delims(s \o t, Len(s \o t)) = Delims(s, Len(s))
<1> DEFINE u == s \o t
<1>1. t \in Seq(Alphabet)
  BY SeqMonotonic DEF Alphabet
<1>2. /\ Len(s) \in Nat /\ Len(t) \in Nat /\ Len(u) = Len(s) + Len(t)
      /\ \A j \in 1 .. Len(s) + Len(t) : u[j] = IF j <= Len(s) THEN s[j] ELSE t[j - Len(s)]
  BY <1>1, ConcatProperties, LenProperties
<1>3. \A j \in 1 .. Len(t) : t[j] # Delim
  BY ElementOfSeq, CodecAssumption
<1> HIDE DEF u
<1>4. DelimsIn(u, Len(u)) = DelimsIn(s, Len(s))
  <2>1. ASSUME NEW j \in DelimsIn(u, Len(u)) PROVE j \in DelimsIn(s, Len(s))
    <3>1. j \in 1 .. Len(s) + Len(t) /\ u[j] = Delim
      BY <1>2 DEF DelimsIn
    <3>2. j <= Len(s)
      <4>1. SUFFICES ASSUME j > Len(s) PROVE FALSE
        BY <1>2, <3>1
      <4>2. j - Len(s) \in 1 .. Len(t) /\ u[j] = t[j - Len(s)]
        BY <1>2, <3>1, <4>1
      <4> QED
        BY <1>3, <3>1, <4>2
    <3> QED
      BY <1>2, <3>1, <3>2 DEF DelimsIn
  <2>2. ASSUME NEW j \in DelimsIn(s, Len(s)) PROVE j \in DelimsIn(u, Len(u))
    BY <1>2 DEF DelimsIn
  <2> QED
    BY <2>1, <2>2
<1> QED
  BY <1>4 DEF Delims, u

(* What follows the last delimiter of s becomes a part when one more       *)
(* delimiter is appended, and whatever is appended then follows the last   *)
(* cut.                                                                    *)
LEMMA AfterDelimiter ==
  ASSUME NEW s \in Seq(Alphabet), NEW t \in Seq(Alphabet),
         NEW k \in Nat, Delims(s, Len(s)) = k
  PROVE  LET u == Append(s, Delim) \o t IN
         /\ Delims(Append(s, Delim), Len(Append(s, Delim))) = k + 1
         /\ Delims(u, Len(u)) >= k + 1
         /\ HasCut(u, k + 1)
         /\ From(u, k + 1) = t
         /\ HasCut(s, k) => Part(u, k + 1) = From(s, k)
<1> DEFINE a == Append(s, Delim)
           u == a \o t
           l == Len(s)
<1>1. Delim \in Alphabet
  BY DEF Alphabet
<1>2. /\ a \in Seq(Alphabet) /\ a = s \o <<Delim>> /\ <<Delim>> \in Seq(Alphabet)
      /\ l \in Nat /\ Len(a) = l + 1 /\ a[l + 1] = Delim
  BY <1>1, AppendProperties, AppendIsConcat, LenProperties
<1>3. /\ u \in Seq(Alphabet) /\ Len(t) \in Nat /\ Len(u) = l + 1 + Len(t)
      /\ u[l + 1] = Delim
      /\ \A j \in 1 .. Len(t) : u[l + 1 + j] = t[j]
  <2> HIDE DEF a, l
  <2>1. /\ u \in Seq(Alphabet) /\ Len(t) \in Nat /\ Len(u) = Len(a) + Len(t)
        /\ \A j \in 1 .. Len(a) + Len(t) : u[j] = IF j <= Len(a) THEN a[j] ELSE t[j - Len(a)]
    BY <1>2, ConcatProperties, LenProperties
  <2> HIDE DEF u
  <2>2. u[l + 1] = Delim
    BY <1>2, <2>1
  <2>3. ASSUME NEW j \in 1 .. Len(t) PROVE u[l + 1 + j] = t[j]
    BY <1>2, <2>1
  <2> QED
    BY <1>2, <2>1, <2>2, <2>3
<1>4. Delims(a, l) = k /\ (HasCut(s, k) => Cut(a, k) = Cut(s, k) /\ HasCut(a, k))
  <2> DEFINE d == <<Delim>>
  <2>1. l \in 0 .. Len(s) /\ d \in Seq(Alphabet) /\ a = s \o d
    BY <1>2
  <2> HIDE DEF a, d
  <2>2. /\ \A j \in 0 .. Len(s) : Delims(s \o d, j) = Delims(s, j)
        /\ \A j \in Nat : HasCut(s, j) => HasCut(s \o d, j) /\ Cut(s \o d, j) = Cut(s, j)
    BY <2>1, CutsKept
  <2> QED
    BY <2>1, <2>2
<1>5. Delims(u, l) = k /\ (HasCut(s, k) => Cut(u, k) = Cut(s, k))
  <2>1. l \in 0 .. Len(a)
    BY <1>2
  <2> HIDE DEF a, l
  <2> QED
    BY <1>2, <1>4, <2>1, CutsKept
<1>6. Delims(a, Len(a)) = k + 1
  <2> HIDE DEF a, l
  <2> QED
    BY <1>2, <1>4, DelimsStep
<1> HIDE DEF a, u
<1>7. HasCut(u, k + 1) /\ Cut(u, k + 1) = l + 1 /\ Delims(u, l + 1) = k + 1
  <2>1. l + 1 \in 1 .. Len(u) /\ Len(u) \in Nat /\ (l + 1) - 1 = l
    BY <1>2, <1>3
  <2> HIDE DEF l
  <2> QED
    BY <1>3, <1>5, <2>1, NextCut
<1>8. Delims(u, Len(u)) >= k + 1
  <2>1. l + 1 \in Nat /\ Len(u) \in Nat /\ l + 1 <= Len(u)
    BY <1>2, <1>3
  <2>2. Delims(u, l + 1) <= Delims(u, Len(u))
    BY <2>1, DelimsGrow
  <2> QED
    BY <1>7, <2>1, <2>2, DelimsNumber
<1>9. From(u, k + 1) = t
  <2> HIDE DEF l
  <2>1. \A j \in (l + 1) + 1 .. Len(u) : u[j] \in Alphabet
    BY <1>2, <1>3, ElementOfSeq
  <2>2. (l + 1) + 1 \in Int /\ Len(u) \in Int
    BY <1>2, <1>3
  <2> DEFINE r == SubSeq(u, (l + 1) + 1, Len(u))
  <2>3. /\ r \in Seq(Alphabet)
        /\ Len(r) = IF (l + 1) + 1 <= Len(u) THEN Len(u) - ((l + 1) + 1) + 1 ELSE 0
        /\ \A j \in 1 .. Len(u) - ((l + 1) + 1) + 1 : r[j] = u[(l + 1) + 1 + j - 1]
    BY <2>1, <2>2, SubSeqProperties
  <2> HIDE DEF r
  <2>4. Len(r) = Len(t)
    BY <1>2, <1>3, <2>3
  <2>5. \A j \in 1 .. Len(r) : r[j] = t[j]
    BY <1>2, <1>3, <2>3, <2>4
  <2>6. r = t
    BY <2>3, <2>4, <2>5, SeqEqual
  <2> QED
    BY <1>7, <2>6 DEF From, r
<1>10. HasCut(s, k) => Part(u, k + 1) = From(s, k)
  <2> SUFFICES ASSUME HasCut(s, k) PROVE Part(u, k + 1) = From(s, k)
    OBVIOUS
  <2> HIDE DEF l
  <2>1. Cut(s, k) + 1 \in Nat \ {0} /\ l <= Len(s) /\ l <= Len(a)
    BY <1>2, CutNumber DEF l
  <2>2. SubSeq(a, Cut(s, k) + 1, l) = SubSeq(s, Cut(s, k) + 1, l)
    BY <1>2, <2>1, StretchKept
  <2>3. SubSeq(u, Cut(s, k) + 1, l) = SubSeq(a, Cut(s, k) + 1, l)
    BY <1>2, <2>1, StretchKept DEF u
  <2>4. (k + 1) - 1 = k /\ (l + 1) - 1 = l
    BY <1>2
  <2>5. Part(u, k + 1) = SubSeq(u, Cut(s, k) + 1, l)
    BY <1>5, <1>7, <2>4 DEF Part
  <2> QED
    BY <2>2, <2>3, <2>5 DEF From, l
<1> QED
  BY <1>6, <1>7, <1>8, <1>9, <1>10 DEF a, u

-----------------------------------------------------------------------------
(* What package_op makes.                                                  *)

(* A delimiter and what is appended to it make the parameter before a part *)
(* of its own.                                                             *)
LEMMA JoinedGrows ==
  ASSUME NEW s \in Seq(Alphabet), NEW t \in Seq(Alphabet),
         NEW ps, NEW k \in Nat \ {0}, Joined(s, ps, k)
  PROVE  LET u == Append(s, Delim) \o t IN
         /\ u \in Seq(Alphabet)
         /\ Delims(u, Len(u)) >= k
         /\ Led(u, ps, k)
         /\ From(u, k) = t
         /\ t \in Seq(Bytes) => Delims(u, Len(u)) = k
<1> DEFINE a == Append(s, Delim)
           u == a \o t
           d == <<Delim>>
<1>1. /\ k - 1 \in Nat /\ (k - 1) + 1 = k
      /\ Delims(s, Len(s)) = k - 1 /\ Led(s, ps, k - 1) /\ From(s, k - 1) = ps[k]
  BY DEF Joined
<1>2. HasCut(s, k - 1)
  <2>1. k - 1 = 0 \/ k - 1 \in 1 .. k - 1
    BY <1>1
  <2> QED
    BY <1>1, <2>1 DEF Led, HasCut
<1>3. /\ Delims(a, Len(a)) = k /\ Delims(u, Len(u)) >= k
      /\ HasCut(u, k) /\ From(u, k) = t /\ Part(u, k) = ps[k]
  BY <1>1, <1>2, AfterDelimiter
<1>4. Delim \in Alphabet
  BY DEF Alphabet
<1>5. d \in Seq(Alphabet) /\ a = s \o d /\ a \in Seq(Alphabet)
  BY <1>4, AppendProperties, AppendIsConcat
<1> HIDE DEF a, d
<1>6. u \in Seq(Alphabet)
  BY <1>5, ConcatProperties
<1>7. Led(a, ps, k - 1)
  BY <1>1, <1>5, LedKept
<1>8. Led(u, ps, k - 1)
  BY <1>1, <1>5, <1>7, LedKept
<1>9. t \in Seq(Bytes) => Delims(u, Len(u)) = k
  BY <1>3, <1>5, NoMoreDelims
<1> HIDE DEF u
<1>10. Led(u, ps, k)
  <2>1. SUFFICES ASSUME NEW j \in 1 .. k PROVE HasCut(u, j) /\ Part(u, j) = ps[j]
    BY DEF Led
  <2>2. j \in 1 .. k - 1 \/ j = k
    OBVIOUS
  <2> QED
    BY <1>3, <1>8, <2>2 DEF Led
<1> QED
  BY <1>3, <1>6, <1>9, <1>10 DEF u, a

(* One more parameter is joined.                                           *)
LEMMA JoinedStep ==
  ASSUME NEW s \in Seq(Alphabet), NEW ps \in Seq(Seq(Bytes)), NEW k \in Nat,
         k < Len(ps), Joined(s, ps, k)
  PROVE  LET u == (IF k = 0 THEN s ELSE Append(s, Delim)) \o ps[k + 1] IN
         u \in Seq(Alphabet) /\ Joined(u, ps, k + 1)
<1> DEFINE t == ps[k + 1]
           u == (IF k = 0 THEN s ELSE Append(s, Delim)) \o t
<1>1. k + 1 \in 1 .. Len(ps)
  BY LenProperties
<1>2. t \in Seq(Bytes)
  BY <1>1, ElementOfSeq
<1>3. t \in Seq(Alphabet)
  BY <1>2, SeqMonotonic DEF Alphabet
<1>4. k + 1 # 0 /\ (k + 1) - 1 = k
  OBVIOUS
<1> HIDE DEF t
<1>5. CASE k = 0
  <2>1. s = <<>> /\ s \o t = t
    BY <1>3, <1>5, ConcatEmptySeq DEF Joined
  <2>2. u = t
    BY <1>5, <2>1
  <2> HIDE DEF u
  <2>3. Delims(s, Len(s)) = 0
    BY <2>1, DelimsStep, EmptySeq
  <2>4. Delims(t, Len(t)) = 0
    <3>1. Delims(s \o t, Len(s \o t)) = 0
      BY <1>2, <2>3, NoMoreDelims
    <3> QED
      BY <2>1, <3>1
  <2>5. From(t, 0) = t
    BY <1>3, SubSeqFull DEF From, Cut
  <2> QED
    BY <1>3, <1>4, <1>5, <2>2, <2>4, <2>5 DEF Joined, Led, u, t
<1>6. CASE k # 0
  <2>1. k \in Nat \ {0} /\ u = Append(s, Delim) \o t
    BY <1>6
  <2> HIDE DEF u
  <2>2. /\ u \in Seq(Alphabet) /\ Led(u, ps, k) /\ From(u, k) = t
        /\ Delims(u, Len(u)) = k
    BY <1>2, <1>3, <2>1, JoinedGrows
  <2> QED
    BY <1>4, <2>2 DEF Joined, u, t
<1> QED
  BY <1>5, <1>6

(* The payload is appended to all of them.                                 *)
LEMMA JoinedEnds ==
  ASSUME NEW s \in Seq(Alphabet), NEW ps \in Seq(Seq(Bytes)),
         NEW load \in Seq(Alphabet), load # None, Joined(s, ps, Len(ps))
  PROVE  LET u == (IF Len(ps) > 0 THEN Append(s, Delim) ELSE s) \o load IN
         u \in Seq(Alphabet) /\ Packed(u, ps, load)
<1>1. Len(ps) \in Nat
  BY LenProperties
<1>2. CASE Len(ps) = 0
  <2>1. s = <<>> /\ s \o load = load
    BY <1>2, ConcatEmptySeq DEF Joined
  <2>2. From(load, 0) = load
    BY SubSeqFull DEF From, Cut
  <2>3. Delims(load, Len(load)) >= 0
    BY DelimsNumber, LenProperties
  <2> QED
    BY <1>2, <2>1, <2>2, <2>3 DEF Packed, Led
<1>3. CASE Len(ps) # 0
  <2>1. Len(ps) \in Nat \ {0} /\ Len(ps) > 0
    BY <1>1, <1>3
  <2> QED
    BY <2>1, JoinedGrows DEF Packed
<1> QED
  BY <1>2, <1>3

-----------------------------------------------------------------------------
(* The invariant of packaging and decoding.                                *)

(* What may be packaged: the parameters have no delimiters.                *)
Package == [ps : Seq(Seq(Bytes)), load : Seq(Alphabet) \cup {None}]

CodecTypes ==
  /\ b \in Seq(Alphabet)
  /\ nParam \in Nat /\ exists \in BOOLEAN
  /\ i \in Nat \ {0} /\ n \in Nat /\ last \in Nat \ {0}
  /\ param \in [1 .. nParam -> Seq(Alphabet)]
  /\ ~exists => payload = None

(* The input is packaged, or was, from made.                               *)
IsMade == made \in Package /\ nParam = Len(made.ps) /\ exists = (made.load # None)

(* While it is packaged.                                                   *)
Packaging ==
  /\ IsMade /\ n <= nParam /\ Joined(b, made.ps, n)
  /\ i = 1 /\ last = 1

(* What the loop has found when it looks at index i.                       *)
Found ==
  /\ n <= nParam /\ (nParam > 0 => n < nParam)
  /\ i <= Len(b) + 1
  /\ n = Delims(b, i - 1)
  /\ last = Cut(b, n) + 1 /\ last <= i
  /\ TakesRest => last = i
  /\ \A k \in 1 .. n : param[k] = Part(b, k)

(* What it returns.                                                        *)
Ended ==
  /\ err \in {"nil", "expected_more", "unexpected_payload"}
  /\ err = "unexpected_payload" => nParam = 0
  /\ DecodesMeaning

(* A finished package keeps its parts while it is decoded, and what has    *)
(* ended has decoded what the input means; that the two are the same       *)
(* parameters follows in the end (PackageIsDecoded).                       *)
CodecInv ==
  /\ CodecTypes
  /\ \/ err = "packaging" /\ Packaging
     \/ /\ (err = "running" /\ Found) \/ Ended
        /\ made # None => IsMade /\ Packed(b, made.ps, made.load)

(* Sequences up to a length are sequences.                                 *)
LEMMA TextIsSeq ==
  ASSUME NEW S, NEW k \in Nat
  PROVE  Text(S, k) \subseteq Seq(S)
BY SeqDef DEF Text, BoundedSeq, SeqOf

(* A package is packaged from nothing, and an input of any kind is looked  *)
(* at from its start.                                                      *)
LEMMA CodecStart == DecodeInit => CodecInv
<1> SUFFICES ASSUME DecodeInit PROVE CodecInv
  OBVIOUS
<1>1. MaxLen \in Nat /\ MaxParams \in Nat /\ MaxField \in Nat
  BY CodecAssumption
<1>2. <<>> \in Seq(Alphabet) /\ Len(<<>>) = 0
  BY EmptySeq
<1>3. i = 1 /\ n = 0 /\ last = 1 /\ payload = None /\ param = [k \in 1 .. nParam |-> <<>>]
  BY DEF DecodeInit
<1>4. nParam \in Nat => param \in [1 .. nParam -> Seq(Alphabet)]
  BY <1>2, <1>3
<1>5. ASSUME NEW ps \in Text(Text(Bytes, MaxField), MaxParams),
             NEW load \in Text(Alphabet, MaxField) \cup {None},
             made = [ps |-> ps, load |-> load], nParam = Len(ps), exists = (load # None),
             b = <<>>, err = "packaging"
      PROVE  CodecInv
  <2>1. Text(Bytes, MaxField) \subseteq Seq(Bytes) /\ Text(Alphabet, MaxField) \subseteq Seq(Alphabet)
    BY <1>1, TextIsSeq
  <2>2. ps \in Seq(Text(Bytes, MaxField))
    BY <1>1, TextIsSeq
  <2>3. ps \in Seq(Seq(Bytes))
    BY <2>1, <2>2, SeqMonotonic
  <2>4. load \in Seq(Alphabet) \cup {None}
    BY <2>1
  <2>5. IsMade /\ nParam \in Nat
    BY <1>5, <2>3, <2>4, LenProperties DEF IsMade, Package
  <2>6. CodecTypes
    BY <1>2, <1>3, <1>4, <1>5, <2>5 DEF CodecTypes
  <2>7. Packaging
    BY <1>3, <1>5, <2>5 DEF Packaging, Joined
  <2> QED
    BY <1>5, <2>6, <2>7 DEF CodecInv
<1>6. ASSUME made = None, nParam \in 0 .. MaxParams, exists \in BOOLEAN,
             b \in Text(Alphabet, MaxLen), err = "running"
      PROVE  CodecInv
  <2>1. b \in Seq(Alphabet) /\ nParam \in Nat
    BY <1>1, <1>6, TextIsSeq
  <2>2. CodecTypes
    BY <1>3, <1>4, <1>6, <2>1 DEF CodecTypes
  <2>3. Delims(b, i - 1) = 0 /\ Cut(b, n) = 0
    BY <1>3, DelimsStep DEF Cut
  <2>4. Len(b) \in Nat
    BY <2>1, LenProperties
  <2>5. Found
    BY <1>3, <2>1, <2>3, <2>4 DEF Found
  <2> QED
    BY <1>6, <2>2, <2>5 DEF CodecInv
<1> QED
  BY <1>5, <1>6 DEF DecodeInit

(* Joining a parameter keeps what leads the input.                         *)
LEMMA JoinParamStep == CodecInv /\ JoinParam => CodecInv'
<1> SUFFICES ASSUME CodecInv, JoinParam PROVE CodecInv'
  OBVIOUS
<1>1. err = "packaging" /\ n < nParam /\ CodecTypes /\ Packaging
  BY DEF CodecInv, JoinParam, Ended
<1>2. made.ps \in Seq(Seq(Bytes)) /\ nParam = Len(made.ps) /\ n \in Nat /\ nParam \in Nat
      /\ b \in Seq(Alphabet) /\ Joined(b, made.ps, n)
  BY <1>1 DEF Packaging, IsMade, Package, CodecTypes
<1>3. /\ b' = (IF n = 0 THEN b ELSE Append(b, Delim)) \o made.ps[n + 1]
      /\ n' = n + 1 /\ made' = made /\ nParam' = nParam /\ exists' = exists /\ i' = i
      /\ last' = last /\ param' = param /\ payload' = payload /\ err' = err
  BY DEF JoinParam
<1>4. b' \in Seq(Alphabet) /\ Joined(b', made.ps, n + 1)
  BY <1>1, <1>2, <1>3, JoinedStep
<1>5. CodecTypes'
  BY <1>1, <1>2, <1>3, <1>4 DEF CodecTypes
<1>6. Packaging'
  BY <1>1, <1>2, <1>3, <1>4 DEF Packaging, IsMade
<1> QED
  BY <1>1, <1>3, <1>5, <1>6 DEF CodecInv

(* With its payload the package is whole, and is looked at from its start. *)
LEMMA AddPayloadStep == CodecInv /\ AddPayload => CodecInv'
<1> SUFFICES ASSUME CodecInv, AddPayload PROVE CodecInv'
  OBVIOUS
<1>1. err = "packaging" /\ n = nParam /\ CodecTypes /\ Packaging
  BY DEF CodecInv, AddPayload, Ended
<1>2. /\ made.ps \in Seq(Seq(Bytes)) /\ made.load \in Seq(Alphabet) \cup {None}
      /\ nParam = Len(made.ps) /\ nParam \in Nat
      /\ b \in Seq(Alphabet) /\ Joined(b, made.ps, Len(made.ps))
  BY <1>1 DEF Packaging, IsMade, Package, CodecTypes
<1>3. /\ b' = IF made.load = None THEN b
              ELSE (IF nParam > 0 THEN Append(b, Delim) ELSE b) \o made.load
      /\ n' = 0 /\ made' = made /\ nParam' = nParam /\ exists' = exists /\ i' = i
      /\ last' = last /\ param' = param /\ payload' = payload /\ err' = "running"
  BY DEF AddPayload
<1>4. b' \in Seq(Alphabet) /\ Packed(b', made.ps, made.load)
  <2>1. CASE made.load = None
    BY <1>2, <1>3, <2>1 DEF Packed
  <2>2. CASE made.load # None
    <3>1. made.load \in Seq(Alphabet)
      BY <1>2, <2>2
    <3> QED
      BY <1>2, <1>3, <2>2, <3>1, JoinedEnds
  <2> QED
    BY <2>1, <2>2
<1>5. CodecTypes'
  BY <1>1, <1>3, <1>4 DEF CodecTypes
<1>6. IsMade'
  BY <1>1, <1>3 DEF Packaging, IsMade
<1>7. Found'
  <2>1. i' = 1 /\ last' = 1
    BY <1>1, <1>3 DEF Packaging
  <2>2. Delims(b', 0) = 0 /\ Cut(b', 0) = 0
    BY DelimsStep DEF Cut
  <2>3. Len(b') \in Nat
    BY <1>4, LenProperties
  <2>4. n' = Delims(b', i' - 1) /\ last' = Cut(b', n') + 1
    <3>1. i' - 1 = 0 /\ n' = 0
      BY <1>3, <2>1
    <3> QED
      BY <2>1, <2>2, <3>1
  <2>5. \A k \in 1 .. n' : param'[k] = Part(b', k)
    BY <1>3
  <2>6. n' <= nParam' /\ (nParam' > 0 => n' < nParam')
    BY <1>2, <1>3
  <2>7. i' <= Len(b') + 1 /\ last' <= i' /\ (TakesRest' => last' = i')
    BY <2>1, <2>3
  <2> QED
    BY <2>4, <2>5, <2>6, <2>7 DEF Found
<1> QED
  BY <1>3, <1>4, <1>5, <1>6, <1>7 DEF CodecInv

(* Steps of the decoder leave the input and what it was made from alone.   *)
LEMMA SteadyStep ==
  ASSUME CodecInv, Steady, err = "running",
         CodecTypes', (err' = "running" /\ Found') \/ Ended'
  PROVE  CodecInv'
<1>1. made # None => IsMade /\ Packed(b, made.ps, made.load)
  BY DEF CodecInv, Ended
<1>2. made' = made /\ b' = b /\ nParam' = nParam /\ exists' = exists
  BY DEF Steady
<1>3. (made # None => IsMade /\ Packed(b, made.ps, made.load))'
  BY <1>1, <1>2 DEF IsMade
<1> QED
  BY <1>3 DEF CodecInv

(* While decoding, the loop has found what lies before its index.          *)
LEMMA Running ==
  ASSUME CodecInv, err = "running"
  PROVE  CodecTypes /\ Found /\ Len(b) \in Nat /\ DOMAIN b = 1 .. Len(b)
<1>1. CodecTypes /\ Found
  BY DEF CodecInv, Ended
<1> QED
  BY <1>1, LenProperties DEF CodecTypes

(* Without parameters the input is the payload, or there is none.          *)
LEMMA NoParamsStep == CodecInv /\ NoParams => CodecInv'
<1> SUFFICES ASSUME CodecInv, NoParams PROVE CodecInv'
  OBVIOUS
<1>1. /\ err = "running" /\ nParam = 0 /\ Steady
      /\ param' = param /\ payload' = (IF exists THEN b ELSE None)
      /\ err' = (IF exists \/ b \in {<<>>, <<Delim>>} THEN "nil" ELSE "unexpected_payload")
      /\ i' = i /\ n' = n /\ last' = last
  BY DEF NoParams, Result
<1>2. CodecTypes
  BY <1>1, Running
<1>3. b' = b /\ nParam' = nParam /\ exists' = exists
  BY <1>1 DEF Steady
<1>4. CodecTypes'
  BY <1>1, <1>2, <1>3 DEF CodecTypes
<1>5. (err' = "nil") <=> Complete'
  BY <1>1, <1>3 DEF Complete
<1>6. Meaning'
  <2>1. Len(param) = nParam
    BY <1>2 DEF CodecTypes
  <2>2. From(b, 0) = b
    BY <1>2, SubSeqFull DEF From, Cut, CodecTypes
  <2>3. Len(param') = nParam' /\ 1 .. nParam' = {}
    <3>1. param' = param /\ nParam' = nParam /\ nParam' = 0
      BY <1>1, <1>3
    <3>2. Len(param') = nParam'
      BY <2>1, <3>1
    <3>3. 1 .. nParam' = {}
      BY <3>1
    <3> QED
      BY <3>2, <3>3
  <2>4. exists' => payload' = From(b', nParam')
    BY <1>1, <1>3, <2>2
  <2> QED
    BY <2>3, <2>4 DEF Meaning
<1>7. Ended'
  BY <1>1, <1>3, <1>5, <1>6 DEF Ended, DecodesMeaning
<1> QED
  BY <1>1, <1>4, <1>7, SteadyStep

(* The number of delimiters in the input is at least what was found.       *)
LEMMA FoundSoFar ==
  ASSUME CodecTypes, Found, Len(b) \in Nat
  PROVE  n <= Delims(b, Len(b)) /\ Delims(b, Len(b)) \in Nat
<1>1. i - 1 \in Nat /\ i - 1 <= Len(b)
  BY DEF CodecTypes, Found
<1>2. n = Delims(b, i - 1)
  BY DEF Found
<1> QED
  BY <1>1, <1>2, DelimsGrow, DelimsNumber

(* The stretches that are taken out of the input have bytes of it.         *)
LEMMA Stretch ==
  ASSUME NEW s \in Seq(Alphabet), NEW j \in Nat \ {0}, NEW k \in Nat, k <= Len(s)
  PROVE  SubSeq(s, j, k) \in Seq(Alphabet) /\ (j <= k => SubSeq(s, j, k) # <<>>)
<1>1. Len(s) \in Nat
  BY LenProperties
<1>2. \A m \in j .. k : s[m] \in Alphabet
  BY <1>1, ElementOfSeq
<1>3. /\ SubSeq(s, j, k) \in Seq(Alphabet)
      /\ Len(SubSeq(s, j, k)) = IF j <= k THEN k - j + 1 ELSE 0
  BY <1>2, SubSeqProperties
<1>4. Len(<<>>) = 0
  BY EmptySeq
<1> QED
  BY <1>3, <1>4

(* What is left is the last parameter, and is not empty.                   *)
LEMMA LastParamStep == CodecInv /\ LastParam => CodecInv'
<1> SUFFICES ASSUME CodecInv, LastParam PROVE CodecInv'
  OBVIOUS
<1> DEFINE r == SubSeq(b, last, Len(b))
<1>1. /\ err = "running" /\ nParam > 0 /\ i <= Len(b) /\ TakesRest /\ Steady
      /\ param' = [param EXCEPT ![n + 1] = r] /\ payload' = payload /\ err' = "nil"
      /\ i' = i /\ n' = n /\ last' = last
  BY DEF LastParam, Looping, Result
<1>2. CodecTypes /\ Found /\ Len(b) \in Nat
  BY <1>1, Running
<1>3. b' = b /\ nParam' = nParam /\ exists' = exists
  BY <1>1 DEF Steady
<1>4. /\ b \in Seq(Alphabet) /\ last \in Nat \ {0} /\ n \in Nat /\ nParam \in Nat
      /\ param \in [1 .. nParam -> Seq(Alphabet)]
  BY <1>2 DEF CodecTypes
<1>5. n + 1 = nParam /\ nParam - 1 = n /\ ~exists /\ last = i
  BY <1>1, <1>2, <1>4 DEF TakesRest, Found
<1>6. r \in Seq(Alphabet) /\ r # <<>>
  <2>1. last <= Len(b) /\ Len(b) <= Len(b)
    BY <1>1, <1>2, <1>5
  <2> QED
    BY <1>2, <1>4, <2>1, Stretch
<1>7. r = From(b, nParam - 1)
  <2>1. last = Cut(b, n) + 1
    BY <1>2 DEF Found
  <2> QED
    BY <1>5, <2>1 DEF From
<1> HIDE DEF r
<1>8. CodecTypes'
  BY <1>1, <1>2, <1>3, <1>4, <1>6 DEF CodecTypes
<1>9. Complete'
  <2>1. Delims(b, Len(b)) >= nParam - 1
    BY <1>2, <1>4, <1>5, FoundSoFar
  <2> QED
    BY <1>1, <1>3, <1>5, <1>6, <1>7, <2>1 DEF Complete
<1>10. Meaning'
  <2>1. param' \in [1 .. nParam -> Seq(Alphabet)]
    BY <1>3, <1>8 DEF CodecTypes
  <2>2. Len(param') = nParam
    BY <1>4, <2>1
  <2>3. ASSUME NEW k \in 1 .. nParam
        PROVE  param'[k] = IF k = nParam /\ ~exists THEN From(b, k - 1) ELSE Part(b, k)
    <3>1. CASE k = nParam
      BY <1>1, <1>4, <1>5, <1>7, <3>1
    <3>2. CASE k # nParam
      <4>1. k \in 1 .. n /\ k # n + 1
        BY <1>4, <1>5, <3>2
      <4>2. param[k] = Part(b, k)
        BY <1>2, <4>1 DEF Found
      <4> QED
        BY <1>1, <1>4, <3>2, <4>1, <4>2
    <3> QED
      BY <3>1, <3>2
  <2> QED
    BY <1>3, <1>5, <2>2, <2>3 DEF Meaning
<1>11. Ended'
  BY <1>1, <1>9, <1>10 DEF Ended, DecodesMeaning
<1> QED
  BY <1>1, <1>8, <1>11, SteadyStep

(* A delimiter is the next cut, and ends a part.                           *)
LEMMA AtDelimStep == CodecInv /\ AtDelim => CodecInv'
<1> SUFFICES ASSUME CodecInv, AtDelim PROVE CodecInv'
  OBVIOUS
<1> DEFINE r == SubSeq(b, last, i - 1)
           w == SubSeq(b, i + 1, Len(b))
<1>1. /\ err = "running" /\ nParam > 0 /\ i <= Len(b) /\ ~TakesRest /\ b[i] = Delim /\ Steady
      /\ n' = n + 1 /\ last' = i + 1 /\ i' = i + 1
      /\ param' = [param EXCEPT ![n + 1] = r]
      /\ n + 1 = nParam => payload' = w /\ err' = "nil"
      /\ n + 1 # nParam => payload' = payload /\ err' = err
  BY DEF AtDelim, Looping, Result, AfterDelim
<1>2. CodecTypes /\ Found /\ Len(b) \in Nat
  BY <1>1, Running
<1>3. b' = b /\ nParam' = nParam /\ exists' = exists
  BY <1>1 DEF Steady
<1>4. /\ b \in Seq(Alphabet) /\ i \in Nat \ {0} /\ last \in Nat \ {0} /\ n \in Nat /\ nParam \in Nat
      /\ param \in [1 .. nParam -> Seq(Alphabet)] /\ exists \in BOOLEAN
      /\ ~exists => payload = None
  BY <1>2 DEF CodecTypes
<1>5. /\ n < nParam /\ n = Delims(b, i - 1) /\ last = Cut(b, n) + 1 /\ last <= i
      /\ \A k \in 1 .. n : param[k] = Part(b, k)
  BY <1>1, <1>2 DEF Found
<1>6. Delims(b, i) = n + 1 /\ Cut(b, n + 1) = i
  <2>1. i \in 1 .. Len(b)
    BY <1>1, <1>2, <1>4
  <2> QED
    BY <1>1, <1>2, <1>5, <2>1, NextCut
<1>7. r \in Seq(Alphabet)
  <2>1. i - 1 \in Nat /\ i - 1 <= Len(b)
    BY <1>1, <1>2, <1>4
  <2> QED
    BY <1>4, <2>1, Stretch
<1>8. r = Part(b, n + 1)
  <2>1. (n + 1) - 1 = n
    BY <1>4
  <2> QED
    BY <1>5, <1>6, <2>1 DEF Part
<1>9. w = From(b, n + 1)
  BY <1>6 DEF From
<1>10. n + 1 = nParam => exists
  BY <1>1, <1>4 DEF TakesRest
<1> HIDE DEF r, w
<1>11. CodecTypes'
  <2>1. ~exists => payload' = None
    BY <1>1, <1>4, <1>10
  <2>2. param' \in [1 .. nParam -> Seq(Alphabet)]
    BY <1>1, <1>4, <1>7
  <2>3. i' \in Nat \ {0} /\ n' \in Nat /\ last' \in Nat \ {0}
    BY <1>1, <1>4
  <2> QED
    BY <1>3, <1>4, <2>1, <2>2, <2>3 DEF CodecTypes
<1>12. \A k \in 1 .. n + 1 : param'[k] = Part(b, k)
  <2> SUFFICES ASSUME NEW k \in 1 .. n + 1 PROVE param'[k] = Part(b, k)
    OBVIOUS
  <2>1. n + 1 \in 1 .. nParam /\ k \in 1 .. nParam /\ (k \in 1 .. n \/ k = n + 1)
    BY <1>4, <1>5
  <2>2. param'[k] = IF k = n + 1 THEN r ELSE param[k]
    BY <1>1, <1>4, <2>1
  <2> QED
    BY <1>4, <1>5, <1>8, <2>1, <2>2
<1>13. CASE n + 1 # nParam
  <2>1. n' < nParam'
    BY <1>1, <1>3, <1>4, <1>5, <1>13
  <2>2. i' <= Len(b') + 1 /\ last' <= i' /\ (TakesRest' => last' = i')
    BY <1>1, <1>2, <1>3, <1>4
  <2>3. n' = Delims(b', i' - 1) /\ last' = Cut(b', n') + 1
    <3>1. i' - 1 = i
      BY <1>1, <1>4
    <3> QED
      BY <1>1, <1>3, <1>6, <3>1
  <2>4. \A k \in 1 .. n' : param'[k] = Part(b', k)
    BY <1>1, <1>3, <1>12
  <2>5. n' <= nParam' /\ (nParam' > 0 => n' < nParam')
    BY <1>1, <1>3, <1>4, <2>1
  <2>6. Found'
    BY <2>2, <2>3, <2>4, <2>5 DEF Found
  <2> QED
    BY <1>1, <1>11, <1>13, <2>6, SteadyStep
<1>14. CASE n + 1 = nParam
  <2>1. err' = "nil" /\ payload' = w /\ exists
    BY <1>1, <1>10, <1>14
  <2>2. Complete'
    <3>1. i \in Nat /\ i <= Len(b)
      BY <1>1, <1>4
    <3>2. nParam <= Delims(b, Len(b)) /\ Delims(b, Len(b)) \in Nat
      BY <1>2, <1>6, <1>14, <3>1, DelimsGrow, DelimsNumber
    <3>3. Delims(b, Len(b)) >= nParam
      BY <1>4, <3>2
    <3> QED
      BY <1>1, <1>3, <1>4, <2>1, <3>3 DEF Complete
  <2>3. Meaning'
    <3>1. Len(param') = nParam
      <4>1. param' \in [1 .. nParam -> Seq(Alphabet)]
        BY <1>3, <1>11 DEF CodecTypes
      <4> QED
        BY <1>4, <4>1
    <3>2. \A k \in 1 .. nParam : param'[k] = Part(b, k)
      BY <1>12, <1>14
    <3>3. payload' = From(b, nParam)
      BY <1>9, <1>14, <2>1
    <3> QED
      BY <1>3, <2>1, <3>1, <3>2, <3>3 DEF Meaning
  <2>4. Ended'
    BY <2>1, <2>2, <2>3 DEF Ended, DecodesMeaning
  <2> QED
    BY <1>1, <1>11, <2>4, SteadyStep
<1> QED
  BY <1>13, <1>14

(* Any other byte is no cut.                                               *)
LEMMA OtherByteStep == CodecInv /\ OtherByte => CodecInv'
<1> SUFFICES ASSUME CodecInv, OtherByte PROVE CodecInv'
  OBVIOUS
<1>1. /\ err = "running" /\ nParam > 0 /\ i <= Len(b) /\ ~TakesRest /\ b[i] # Delim /\ Steady
      /\ i' = i + 1 /\ n' = n /\ last' = last /\ param' = param /\ payload' = payload /\ err' = err
  BY DEF OtherByte, Looping
<1>2. CodecTypes /\ Found /\ Len(b) \in Nat
  BY <1>1, Running
<1>3. b' = b /\ nParam' = nParam /\ exists' = exists
  BY <1>1 DEF Steady
<1>4. i \in Nat \ {0} /\ last \in Nat
  BY <1>2 DEF CodecTypes
<1>5. CodecTypes'
  BY <1>1, <1>2, <1>3, <1>4 DEF CodecTypes
<1>6. n' = Delims(b', i' - 1)
  <2>1. i - 1 \in Nat /\ (i - 1) + 1 = i /\ i' - 1 = i
    BY <1>1, <1>4
  <2>2. Delims(b, i) = Delims(b, i - 1)
    BY <1>1, <2>1, DelimsStep
  <2>3. n = Delims(b, i - 1)
    BY <1>2 DEF Found
  <2> QED
    BY <1>1, <1>3, <2>1, <2>2, <2>3
<1>7. ~TakesRest'
  BY <1>1, <1>3 DEF TakesRest
<1>8. i' <= Len(b') + 1 /\ last' <= i'
  BY <1>1, <1>2, <1>3, <1>4 DEF Found
<1>9. Found'
  BY <1>1, <1>2, <1>3, <1>6, <1>7, <1>8 DEF Found
<1> QED
  BY <1>1, <1>5, <1>9, SteadyStep

(* An input that ends too early lacks a part, or its last one is empty.    *)
LEMMA InputEndsStep == CodecInv /\ InputEnds => CodecInv'
<1> SUFFICES ASSUME CodecInv, InputEnds PROVE CodecInv'
  OBVIOUS
<1>1. /\ err = "running" /\ nParam > 0 /\ i > Len(b) /\ Steady
      /\ i' = i /\ n' = n /\ last' = last /\ param' = param /\ payload' = payload
      /\ err' = "expected_more"
  BY DEF InputEnds, Result
<1>2. CodecTypes /\ Found /\ Len(b) \in Nat
  BY <1>1, Running
<1>3. b' = b /\ nParam' = nParam /\ exists' = exists
  BY <1>1 DEF Steady
<1>4. i \in Nat /\ n \in Nat /\ nParam \in Nat
  BY <1>2 DEF CodecTypes
<1>5. CodecTypes'
  BY <1>1, <1>2, <1>3 DEF CodecTypes
<1>6. n = Delims(b, Len(b)) /\ n < nParam
  <2>1. n = Delims(b, i - 1) /\ n < nParam /\ i <= Len(b) + 1
    BY <1>1, <1>2 DEF Found
  <2>2. i - 1 = Len(b)
    BY <1>1, <1>2, <1>4, <2>1
  <2> QED
    BY <2>1, <2>2
<1>7. ~Complete
  <2>1. CASE TakesRest
    <3>1. nParam - 1 = n /\ i = Cut(b, n) + 1 /\ ~exists /\ nParam # 0
      BY <1>1, <1>2, <1>4, <2>1 DEF TakesRest, Found
    <3>2. SubSeq(b, i, Len(b)) = <<>>
      BY <1>1, <1>2, <1>4, SubSeqEmpty
    <3>3. From(b, nParam - 1) = <<>>
      BY <3>1, <3>2 DEF From
    <3> QED
      BY <3>1, <3>3 DEF Complete
  <2>2. CASE ~TakesRest
    <3>1. exists \/ n < nParam - 1
      BY <1>4, <1>6, <2>2 DEF TakesRest
    <3>2. nParam # 0 /\ ~(Delims(b, Len(b)) >= nParam)
      BY <1>1, <1>4, <1>6
    <3>3. ~exists => ~(Delims(b, Len(b)) >= nParam - 1)
      BY <1>4, <1>6, <3>1
    <3> QED
      BY <3>2, <3>3 DEF Complete
  <2> QED
    BY <2>1, <2>2
<1>8. ~Complete'
  BY <1>3, <1>7 DEF Complete
<1>9. Ended'
  BY <1>1, <1>8 DEF Ended, DecodesMeaning
<1> QED
  BY <1>1, <1>5, <1>9, SteadyStep

(* Packaging and decoding keep the invariant.                              *)
LEMMA CodecInvariant == DecodeSpec => []CodecInv
<1>1. CodecInv /\ [DecodeNext]_decodeVars => CodecInv'
  <2> SUFFICES ASSUME CodecInv, [DecodeNext]_decodeVars PROVE CodecInv'
    OBVIOUS
  <2>1. CASE UNCHANGED decodeVars
    BY <2>1 DEF decodeVars, CodecInv, CodecTypes, Packaging, IsMade, Found, TakesRest,
                Ended, DecodesMeaning, Complete, Meaning
  <2> QED
    BY <2>1, JoinParamStep, AddPayloadStep, NoParamsStep, LastParamStep, AtDelimStep,
       OtherByteStep, InputEndsStep DEF DecodeNext
<1> QED
  BY <1>1, CodecStart, PTL DEF DecodeSpec

(* What was packaged is decoded into the same, or its last parameter is    *)
(* empty and no payload follows.                                           *)
LEMMA PackageIsDecoded ==
  ASSUME CodecInv, err \notin {"packaging", "running"}, made # None
  PROVE  RoundTrip
<1>1. CodecTypes /\ Ended /\ IsMade /\ Packed(b, made.ps, made.load)
  BY DEF CodecInv
<1>2. made.ps \in Seq(Seq(Bytes)) /\ nParam = Len(made.ps) /\ exists = (made.load # None)
  BY <1>1 DEF IsMade, Package
<1>3. nParam \in Nat /\ param \in [1 .. nParam -> Seq(Alphabet)] /\ (~exists => payload = None)
  BY <1>1 DEF CodecTypes
<1>4. /\ exists => /\ Delims(b, Len(b)) >= nParam
                   /\ Led(b, made.ps, nParam) /\ From(b, nParam) = made.load
      /\ ~exists => Joined(b, made.ps, nParam)
  BY <1>1, <1>2 DEF Packed
<1>5. CASE err = "nil"
  <2>1. Meaning
    BY <1>1, <1>5 DEF Ended, DecodesMeaning
  <2>2. payload = made.load
    <3>1. CASE exists
      BY <1>4, <2>1, <3>1 DEF Meaning
    <3>2. CASE ~exists
      <4>1. made.load = None
        BY <1>2, <3>2
      <4> QED
        BY <1>3, <3>2, <4>1
    <3> QED
      BY <3>1, <3>2
  <2>3. \A k \in 1 .. nParam : param[k] = made.ps[k]
    <3> SUFFICES ASSUME NEW k \in 1 .. nParam PROVE param[k] = made.ps[k]
      OBVIOUS
    <3>1. CASE exists
      BY <1>4, <2>1, <3>1 DEF Meaning, Led
    <3>2. CASE ~exists /\ k = nParam
      <4>1. nParam # 0
        BY <1>3
      <4> QED
        BY <1>4, <2>1, <3>2, <4>1 DEF Meaning, Joined
    <3>3. CASE ~exists /\ k # nParam
      <4>1. nParam # 0 /\ k \in 1 .. nParam - 1
        BY <1>3, <3>3
      <4> QED
        BY <1>4, <2>1, <3>3, <4>1 DEF Meaning, Joined, Led
    <3> QED
      BY <3>1, <3>2, <3>3
  <2>4. made.ps \in [1 .. nParam -> Seq(Bytes)]
    BY <1>2, LenProperties
  <2>5. param = made.ps
    BY <1>3, <2>3, <2>4
  <2> QED
    BY <1>5, <2>2, <2>5 DEF RoundTrip
<1>6. CASE err # "nil"
  <2>1. ~Complete
    BY <1>1, <1>6 DEF Ended, DecodesMeaning
  <2>2. nParam # 0
    BY <1>4, <2>1 DEF Complete, Joined
  <2>3. err = "expected_more"
    BY <1>1, <1>6, <2>2 DEF Ended
  <2>4. ~exists
    BY <1>4, <2>1, <2>2 DEF Complete
  <2>5. From(b, nParam - 1) = made.ps[nParam] /\ Delims(b, Len(b)) = nParam - 1
    BY <1>4, <2>2, <2>4 DEF Joined
  <2>6. Delims(b, Len(b)) >= nParam - 1
    BY <1>3, <2>5
  <2>7. made.ps[nParam] = <<>>
    BY <2>1, <2>2, <2>4, <2>5, <2>6 DEF Complete
  <2> QED
    BY <1>2, <2>3, <2>4, <2>7 DEF RoundTrip, Last
<1> QED
  BY <1>5, <1>6

(* byte_to_params_and_payload takes every input apart where the format     *)
(* says, and undoes package_op, for inputs, parameters and payloads of any *)
(* length over any set of bytes.                                           *)
THEOREM DecodingCorrect == DecodeSpec => []CodecCorrect
<1>1. CodecInv => CodecCorrect
  BY PackageIsDecoded DEF CodecCorrect, CodecInv, Ended
<1> QED
  BY <1>1, CodecInvariant, PTL

(* What the loop indexes.                                                  *)
IndexesInRange ==
  err = "running" /\ nParam > 0 =>
    n \in 0 .. nParam - 1 /\ last \in 1 .. i /\ i \in 1 .. Len(b) + 1

(* byte_to_params_and_payload never panics: param[n] exists, and the       *)
(* bounds of b[last_delim_i:i] and b[last_delim_i:] are those of a slice   *)
(* of b (conn_helpers.go:34, 38 and 43), whatever input and number of      *)
(* parameters it is called with.                                           *)
THEOREM IndexesCorrect == DecodeSpec => []IndexesInRange
<1>1. CodecInv => IndexesInRange
  <2> SUFFICES ASSUME CodecInv, err = "running", nParam > 0
               PROVE  n \in 0 .. nParam - 1 /\ last \in 1 .. i /\ i \in 1 .. Len(b) + 1
    BY DEF IndexesInRange
  <2>1. CodecTypes /\ Found /\ Len(b) \in Nat
    BY Running
  <2> QED
    BY <2>1 DEF CodecTypes, Found
<1> QED
  BY <1>1, CodecInvariant, PTL
=============================================================================
