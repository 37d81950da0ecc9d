------------------------------ MODULE Heartbeat ------------------------------
(***************************************************************************)
(* The heartbeats of one link to the router: heartbeat_worker numbers and  *)
(* writes a ping in every interval and starts a timer for each of them,    *)
(* the router echoes the number, read_tcp passes the echo on, and          *)
(* heartbeat_check compares echoes and timers with the number it expects.  *)
(* RouterLink has what follows when heartbeat_check gives the link up.     *)
(*                                                                         *)
(* Time is counted in ticks. A goroutine that can go on does so within the *)
(* tick; a tick passes when all of them wait.                              *)
(***************************************************************************)
EXTENDS Naturals, Sequences

CONSTANTS
  Interval,    \* HEARTBEAT_INTERVAL
  MaxDelay,    \* HEARTBEAT_MAX_DELAY, equal to the interval in the code
  MaxLatency,  \* an echo takes at most so long while the router is alive
  Versions,    \* number of versions, 256 for a byte
  ChanCap      \* capacity of heartbeat_chan (3 in the code)

ASSUME ConstantsAssumption ==
  /\ Interval \in Nat \ {0}
  /\ MaxDelay \in Nat \ {0}
  /\ MaxLatency \in Nat
  /\ Versions \in Nat \ {0}
  /\ ChanCap \in Nat \ {0}

(* An echo always comes before its timer, which goes off before the ping   *)
(* after the next one. Two versions would be too few: the timer of the     *)
(* ping before last may still stand when the next version is expected.     *)
ASSUME TimingAssumption ==
  /\ MaxLatency < MaxDelay /\ MaxDelay <= Interval
  /\ Versions > 2

VARIABLES
  beatIn,    \* ticks until heartbeat_worker wakes up
  beatVer,   \* its heartbeat_ver
  timers,    \* the sleeping goroutines: version and ticks left
  pings,     \* pings that were not echoed yet: version and age
  hchan,     \* heartbeat_chan
  expected,  \* heartbeat_ver of heartbeat_check
  alive,     \* the router echoes
  silence,   \* ticks since it stopped, up to Bound
  gaveUp     \* "no", "timeout" or "mismatch": heartbeat_check has closed the link

vars == <<beatIn, beatVer, timers, pings, hchan, expected, alive, silence, gaveUp>>

Version == 0 .. Versions - 1
Ping == [ver : Version, age : Nat]

(* A router that stops right after an echo is found out by the timer of    *)
(* the next ping.                                                          *)
Bound == Interval + MaxDelay

TypeOK ==
  /\ beatIn \in 0 .. Interval
  /\ beatVer \in Version
  /\ timers \subseteq [ver : Version, left : 0 .. MaxDelay]
  /\ pings \in Seq(Ping)
  /\ hchan \in Seq(Version)
  /\ expected \in Version
  /\ alive \in BOOLEAN
  /\ silence \in 0 .. Bound + 1
  /\ gaveUp \in {"no", "timeout", "mismatch"}

Init ==
  /\ beatIn = 0 /\ beatVer = 1 % Versions
  /\ timers = {} /\ pings = <<>>
  /\ hchan = <<>> /\ expected = 1 % Versions
  /\ alive = TRUE /\ silence = 0
  /\ gaveUp = "no"

NextVer(v) == (v + 1) % Versions

-----------------------------------------------------------------------------
(* Fault: the timer is not started.                                        *)
BeatNoTimer ==
  /\ beatIn = 0
  /\ pings' = IF alive THEN Append(pings, [ver |-> beatVer, age |-> 0]) ELSE pings
  /\ beatVer' = NextVer(beatVer)
  /\ beatIn' = Interval
  /\ UNCHANGED <<timers, hchan, expected, alive, silence, gaveUp>>

(* heartbeat_worker: write a ping, start its timer, sleep.                 *)
Beat ==
  /\ beatIn = 0
  /\ pings' = IF alive THEN Append(pings, [ver |-> beatVer, age |-> 0]) ELSE pings
  /\ timers' = timers \cup {[ver |-> beatVer, left |-> MaxDelay]}
  /\ beatVer' = NextVer(beatVer)
  /\ beatIn' = Interval
  /\ UNCHANGED <<hchan, expected, alive, silence, gaveUp>>

(* The router echoes a ping, and read_tcp hands it to heartbeat_check.     *)
Echo ==
  /\ pings # <<>> /\ Len(hchan) < ChanCap
  /\ hchan' = Append(hchan, Head(pings).ver)
  /\ pings' = Tail(pings)
  /\ UNCHANGED <<beatIn, beatVer, timers, expected, alive, silence, gaveUp>>

(* Fault: the version that a byte cannot hold is expected.                 *)
ExpectedNoWrap == expected + 1

ExpectedNext == NextVer(expected)

(* heartbeat_check, which takes whichever is ready.                        *)
CheckEcho ==
  /\ hchan # <<>>
  /\ hchan' = Tail(hchan)
  /\ IF Head(hchan) = expected
     THEN expected' = ExpectedNext /\ UNCHANGED gaveUp
     ELSE gaveUp' = "mismatch" /\ UNCHANGED expected
  /\ UNCHANGED <<beatIn, beatVer, timers, pings, alive, silence>>

(* Fault: the timer of a ping that was echoed is taken seriously.          *)
MissingUpTo(v) == v = expected \/ NextVer(v) = expected

Missing(v) == v = expected

CheckTimer ==
  /\ \E t \in timers :
       /\ t.left = 0
       /\ timers' = timers \ {t}
       /\ gaveUp' = IF Missing(t.ver) THEN "timeout" ELSE gaveUp
  /\ UNCHANGED <<beatIn, beatVer, pings, hchan, expected, alive, silence>>

(* The router stops for good, with the pings it has not echoed.            *)
Stop ==
  /\ alive
  /\ alive' = FALSE
  /\ pings' = <<>>
  /\ UNCHANGED <<beatIn, beatVer, timers, hchan, expected, silence, gaveUp>>

Waiting ==
  /\ beatIn > 0 /\ hchan = <<>>
  /\ \A t \in timers : t.left > 0
  /\ \A i \in DOMAIN pings : pings[i].age < MaxLatency

Tick ==
  /\ Waiting
  /\ beatIn' = beatIn - 1
  /\ timers' = {[t EXCEPT !.left = @ - 1] : t \in timers}
  /\ pings' = [i \in DOMAIN pings |-> [pings[i] EXCEPT !.age = @ + 1]]
  /\ silence' = IF alive \/ silence > Bound THEN silence ELSE silence + 1
  /\ UNCHANGED <<beatVer, hchan, expected, alive, gaveUp>>

Next ==
  /\ gaveUp = "no"
  /\ Beat \/ Echo \/ CheckEcho \/ CheckTimer \/ Stop \/ Tick

Spec == Init /\ [][Next]_vars

(* The goroutines and the clock go on; that the router stops is not        *)
(* assumed.                                                                *)
FairSpec ==
  Spec /\ WF_vars(gaveUp = "no" /\ (Beat \/ Echo \/ CheckEcho \/ CheckTimer \/ Tick))

-----------------------------------------------------------------------------
(* A link whose router answers in time is never given up, although the     *)
(* numbers of the pings wrap and the timers of answered pings go off in    *)
(* between.                                                                *)
NoFalseAlarm == gaveUp # "no" => ~alive

(* A router that has stopped is given up within an interval and the delay, *)
(* by its timer and for no other reason.                                   *)
SilenceIsBounded ==
  /\ silence <= Bound
  /\ gaveUp # "mismatch"

(* Time does not stop, and the link is given up in the end.                *)
SilentRouterIsGivenUp == ~alive ~> gaveUp # "no"
==============================================================================
