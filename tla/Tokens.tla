-------------------------------- MODULE Tokens --------------------------------
(***************************************************************************)
(* The sessions of the HTTP API. Login draws a session id and hands out an *)
(* access token, a JWT that lives for an hour, and a refresh token, which  *)
(* Redis keeps under the session id for sixty days. A client sends both,   *)
(* and the time the refresh token expires, with every request;             *)
(* Authenticate lets it in, and, when the JWT has expired and the client   *)
(* wishes it, answers with new ones. Requests overlap; the writes to Redis *)
(* are a pipeline, not a transaction; answers get lost or overtaken.       *)
(*                                                                         *)
(* The refresh token itself is never compared with the stored one, so only *)
(* its times are modelled. A session id is drawn for one user: that the    *)
(* stored userid is the JWT's says no more than that there is an entry.    *)
(* Clients send what they were given. A tick is a millisecond, the unit of *)
(* the time that the client is told and sends back. The time of an entry   *)
(* in Redis and the claim exp of a JWT are whole seconds (Whole), so that  *)
(* an entry goes before its token says, within the same second.            *)
(***************************************************************************)
EXTENDS Naturals

CONSTANTS
  Sessions,    \* the ids that RandomTokenString returns; bounds the logins
  Reqs,        \* HTTP requests that are served at the same time
  AccessTTL,   \* lifetime of a JWT: an hour
  RefreshTTL,  \* RefreshTokenDuration: sixty days
  Second,      \* ticks of a second
  MaxTime,     \* bound: the clock
  None,        \* no tokens, no entry
  Never        \* an entry that does not expire

ASSUME ConstantsAssumption ==
  /\ AccessTTL \in Nat /\ RefreshTTL \in Nat /\ MaxTime \in Nat
  /\ Second \in Nat \ {0}
  /\ None \notin Nat /\ Never \notin Nat /\ None # Never

VARIABLES
  now,         \* the clock, in ticks
  entry,       \* refreshtokens:<session> in Redis: when it expires
  held,        \* the tokens that the client of a session holds
  drawn,       \* sessions that a Login was served for
  req,         \* what each request is doing
  overlapped   \* history: sessions whose tokens were renewed by two requests
               \*   at once, and by none alone since

vars == <<now, entry, held, drawn, req, overlapped>>

Token == [access : Nat, refresh : Nat]

(* The second in which t lies, in ticks: Time.Unix.                        *)
Whole(t) == Second * (t \div Second)

Idle == [at |-> "idle"]
Looking == [at : {"lookup"}, session : Sessions, refresh : BOOLEAN]
Issuing == [at : {"exec", "answer"}, session : Sessions, token : Token, alone : BOOLEAN]

TypeOK ==
  /\ now \in Nat
  /\ entry \in [Sessions -> Nat \cup {None, Never}]
  /\ held \in [Sessions -> Token \cup {None}]
  /\ drawn \subseteq Sessions
  /\ req \in [Reqs -> Looking \cup Issuing \cup {Idle}]
  /\ overlapped \subseteq Sessions

Init ==
  /\ now = 0
  /\ entry = [s \in Sessions |-> None]
  /\ held = [s \in Sessions |-> None]
  /\ drawn = {}
  /\ req = [r \in Reqs |-> Idle]
  /\ overlapped = {}

At(r, at) == req[r].at = at
Goto(r, next) == req' = [req EXCEPT ![r] = next]

(* Redis drops the entries whose time has passed.                          *)
Tick ==
  /\ now < MaxTime
  /\ now' = now + 1
  /\ entry' = [s \in Sessions |->
                 IF entry[s] \in Nat /\ entry[s] <= now THEN None ELSE entry[s]]
  /\ UNCHANGED <<held, drawn, req, overlapped>>

-----------------------------------------------------------------------------
(* GenerateAndRefreshTokens. The times are fixed while the pipeline is     *)
(* filled ...                                                              *)
(* Fault: the client is not told when the refresh token expires.           *)
NewAccessToken == [access |-> Whole(now + AccessTTL)]

NewToken == [access |-> Whole(now + AccessTTL), refresh |-> now + RefreshTTL]

Writing(s) == {r \in Reqs : At(r, "exec") /\ req[r].session = s}

Issue(r, s) ==
  /\ req' = [q \in Reqs |->
       IF q = r
       THEN [at |-> "exec", session |-> s, token |-> NewToken, alone |-> Writing(s) = {}]
       ELSE IF q \in Writing(s) THEN [req[q] EXCEPT !.alone = FALSE] ELSE req[q]]
  /\ overlapped' = IF Writing(s) = {} THEN overlapped ELSE overlapped \cup {s}

SetTo(r, expiry) == entry' = [entry EXCEPT ![req[r].session] = expiry]

(* What is left of an entry that Redis is told to keep until the given     *)
(* time: one that is not in the future makes it drop the entry at once.    *)
Kept(until) == IF until <= now THEN None ELSE until

(* Fault: the time of an entry is set only when the entry is made.         *)
ExpireIfNew(r) ==
  IF entry[req[r].session] = None THEN SetTo(r, Kept(Whole(req[r].token.refresh)))
                                  ELSE UNCHANGED entry

ExpireAt(r) == SetTo(r, Kept(Whole(req[r].token.refresh)))

(* HSet alone makes an entry that never expires, or leaves its time.       *)
HSet(r) == IF entry[req[r].session] = None THEN SetTo(r, Never) ELSE UNCHANGED entry

(* ... and it is sent after that.                                          *)
Exec(r) ==
  /\ At(r, "exec")
  /\ ExpireAt(r)
  /\ Goto(r, [req[r] EXCEPT !.at = "answer"])
  /\ overlapped' = IF req[r].alone THEN overlapped \ {req[r].session} ELSE overlapped
  /\ UNCHANGED <<now, held, drawn>>

(* A pipeline that is reported as failed was applied, or half of it, or    *)
(* nothing. The request goes on without new tokens.                        *)
ExecFails(r) ==
  /\ At(r, "exec")
  /\ ExpireAt(r) \/ HSet(r) \/ UNCHANGED entry
  /\ Goto(r, Idle)
  /\ UNCHANGED <<now, held, drawn, overlapped>>

(* The client puts the tokens of an answer in the place of its own,        *)
(* whatever it holds by then, or the answer is lost.                       *)
Answer(r) ==
  /\ At(r, "answer")
  /\ held' = [held EXCEPT ![req[r].session] = req[r].token]
  /\ Goto(r, Idle)
  /\ UNCHANGED <<now, entry, drawn, overlapped>>

AnswerLost(r) ==
  /\ At(r, "answer")
  /\ Goto(r, Idle)
  /\ UNCHANGED <<now, entry, held, drawn, overlapped>>

-----------------------------------------------------------------------------
(* Login, once the address and the password are found right.               *)
Login(r, s) ==
  /\ At(r, "idle") /\ s \notin drawn
  /\ drawn' = drawn \cup {s}
  /\ Issue(r, s)
  /\ UNCHANGED <<now, entry, held>>

(* Authenticate looks into Redis only for an expired JWT, and turns away   *)
(* an expired refresh token by the time that the client sends.             *)
Authenticate(r, s, refresh) ==
  /\ At(r, "idle") /\ held[s] # None
  /\ held[s].access < Whole(now) /\ now <= held[s].refresh
  /\ Goto(r, [at |-> "lookup", session |-> s, refresh |-> refresh])
  /\ UNCHANGED <<now, entry, held, drawn, overlapped>>

Lookup(r) ==
  /\ At(r, "lookup")
  /\ entry[req[r].session] # None
  /\ \/ req[r].refresh /\ Issue(r, req[r].session)
     \/ ~req[r].refresh /\ Goto(r, Idle) /\ UNCHANGED overlapped
  /\ UNCHANGED <<now, entry, held, drawn>>

(* There is no entry, or it could not be read.                             *)
Refuse(r) ==
  /\ At(r, "lookup")
  /\ Goto(r, Idle)
  /\ UNCHANGED <<now, entry, held, drawn, overlapped>>

-----------------------------------------------------------------------------
Next ==
  \/ Tick
  \/ \E r \in Reqs :
       \/ \E s \in Sessions :
            \/ Login(r, s)
            \/ \E refresh \in BOOLEAN : Authenticate(r, s, refresh)
       \/ Lookup(r) \/ Refuse(r)
       \/ Exec(r) \/ ExecFails(r) \/ Answer(r) \/ AnswerLost(r)

Spec == Init /\ [][Next]_vars

-----------------------------------------------------------------------------
(* The tokens of a session that are held or on their way to the client.    *)
Given(s) ==
  ({held[s]} \ {None})
    \cup {req[r].token : r \in {q \in Reqs : At(q, "answer") /\ req[q].session = s}}

(* Tokens work until the second in which they expire by their own time:    *)
(* whatever was lost, overtaken or half done, Redis still has the entry    *)
(* without which Authenticate would turn the client away. In that second   *)
(* it may be gone, up to 999 ms before the time that the client was told   *)
(* (auth.helpers.go:76 and :89). Only where two requests renewed the       *)
(* tokens at once may it be gone earlier, until one does so alone.         *)
HeldTokensWork ==
  \A s \in Sessions \ overlapped :
    \A token \in Given(s) : now < Whole(token.refresh) => entry[s] # None
===============================================================================
