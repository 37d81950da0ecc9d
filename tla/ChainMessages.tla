---------------------------- MODULE ChainMessages ----------------------------
(***************************************************************************)
(* The messages of one chain of two users. AddAudioMessage stores the      *)
(* audio, a row of chains and the marks last_recv and last_seen of the two *)
(* users, one after the other; AcceptRelation, which finds this chain when *)
(* the two become friends again, moves all their marks; meanwhile a client *)
(* reads the chain in pages (GetChain) and listens to messages             *)
(* (GetAudioMessage).                                                      *)
(*                                                                         *)
(* A message gets its id and its time when AddAudioMessage starts; its row *)
(* is keyed by that time in milliseconds, and rows are read latest first   *)
(* (the table chains of server.go). Expiry is left out: MinIO drops an     *)
(* object after a time, and rows are never deleted.                        *)
(***************************************************************************)
EXTENDS Naturals, Sequences, FiniteSets, SequencesExt

CONSTANTS
  Users,    \* the two users of the chain
  Ids,      \* the UUIDs that gocql.TimeUUID returns; bounds the messages
  Reqs,     \* uploads that are served at the same time
  MaxTime,  \* bound: the clock, in milliseconds
  MaxEvents,\* bound: acceptances after the first, and messages listened to,
            \*   which touch different columns, together
  PageCap,  \* a page is never longer (10 in the code)
  Limits,   \* the limits that clients ask for
  None

Message == [id : Ids, user : Users, seen : BOOLEAN]

ASSUME ConstantsAssumption ==
  /\ IsFiniteSet(Users) /\ Cardinality(Users) = 2
  /\ None \notin Message
  /\ MaxTime \in Nat \ {0} /\ MaxEvents \in Nat
  /\ PageCap \in Nat \ {0}
  /\ Limits \subseteq Nat

VARIABLES
  now,      \* the clock
  time,     \* the time of each id that was drawn, 0 for the others
  objects,  \* the audio objects in MinIO
  rows,     \* chains, by created
  heard,    \* what is known of each message: no request to listen yet, one
            \*   whose UPDATE in the background is to come, or has come
  recv,     \* last_recv of each user, in its row of user_relations
  seen,     \* last_seen of each user
  req,      \* what each upload is doing
  view,     \* the messages that a client has read, oldest first
  late,     \* history: rows written after the client had read a later one
  skewed,   \* history: users whose last upload failed or overlapped another
            \*   one of theirs or an acceptance
  accepted  \* history: times of acceptances

clock == <<now, time>>
store == <<objects, rows>>
marks == <<recv, seen>>
history == <<skewed, accepted>>
reader == <<view, heard>>

vars == <<clock, store, marks, reader, req, late, history>>

Times == 1 .. MaxTime
Idle == [at |-> "idle"]
Uploading ==
  [at : {"put", "insert", "recv", "seen"}, user : Users, id : Ids, alone : BOOLEAN]
Accepting == [at : {"own", "other"}, user : Users, time : Times, alone : BOOLEAN]

TypeOK ==
  /\ now \in Times
  /\ time \in [Ids -> 0 .. MaxTime]
  /\ objects \subseteq Ids
  /\ rows \in [Times -> Message \cup {None}]
  /\ heard \in [Ids -> {"no", "marking", "yes"}]
  /\ recv \in [Users -> 0 .. MaxTime]
  /\ seen \in [Users -> 0 .. MaxTime]
  /\ req \in [Reqs -> Uploading \cup Accepting \cup {Idle}]
  /\ view \in Seq(Ids)
  /\ late \subseteq Ids
  /\ skewed \subseteq Users
  /\ accepted \subseteq Times

Init ==
  /\ now = 1
  /\ time = [m \in Ids |-> 0]
  /\ objects = {}
  /\ rows = [t \in Times |-> None]
  /\ heard = [m \in Ids |-> "no"]
  /\ recv = [u \in Users |-> 0] /\ seen = [u \in Users |-> 0]
  /\ req = [r \in Reqs |-> Idle]
  /\ view = <<>> /\ late = {} /\ skewed = {} /\ accepted = {}

Tick ==
  /\ now < MaxTime
  /\ now' = now + 1
  /\ UNCHANGED <<time, store, marks, reader, req, late, history>>

-----------------------------------------------------------------------------
(* AddAudioMessage. A step that fails, whether or not it was applied, ends *)
(* the handler.                                                            *)
At(r, at) == req[r] # Idle /\ req[r].at = at
Uploads(r) == req[r] \in Uploading
Accepts(r) == req[r] \in Accepting
UploadsOf(u) == {r \in Reqs : Uploads(r) /\ req[r].user = u}

(* The requests that write the same marks as an upload of a user.          *)
Rivals(u) == UploadsOf(u) \cup {r \in Reqs : Accepts(r)}

Enter(r, call, rivals) ==
  req' = [q \in Reqs |->
    IF q = r THEN call
    ELSE IF q \in rivals THEN [req[q] EXCEPT !.alone = FALSE] ELSE req[q]]

Upload(r, u) ==
  /\ req[r] = Idle
  /\ \E m \in {k \in Ids : time[k] = 0} :
       /\ time' = [time EXCEPT ![m] = now]
       /\ Enter(r, [at |-> "put", user |-> u, id |-> m, alone |-> Rivals(u) = {}], Rivals(u))
  /\ UNCHANGED <<now, store, marks, reader, late, history>>

Return(r, ok) ==
  /\ req' = [req EXCEPT ![r] = Idle]
  /\ skewed' = IF ok /\ req[r].alone THEN skewed \ {req[r].user} ELSE skewed \cup {req[r].user}

GoOn(r, at) ==
  \/ req' = [req EXCEPT ![r].at = at] /\ UNCHANGED skewed
  \/ Return(r, FALSE)

Fail(r) ==
  /\ Uploads(r)
  /\ Return(r, FALSE)
  /\ UNCHANGED <<clock, store, marks, reader, late, accepted>>

(* Fault: the object is stored in the background.                          *)
PutObjectLater(r) == UNCHANGED objects

PutObject(r) == objects' = objects \cup {req[r].id}

Put(r) ==
  /\ At(r, "put")
  /\ PutObject(r)
  /\ GoOn(r, "insert")
  /\ UNCHANGED <<clock, rows, marks, reader, late, accepted>>

Newest == IF view = <<>> THEN 0 ELSE time[Last(view)]
TimeOf(r) == time[req[r].id]

(* Fault: a message is stored as seen.                                     *)
RowSeen(r) == [id |-> req[r].id, user |-> req[r].user, seen |-> TRUE]

(* seen is left unset: a new row reads FALSE, and a row with the same key, *)
(* here a message of the same millisecond, keeps it as it is overwritten.  *)
RowOf(r) ==
  [id |-> req[r].id, user |-> req[r].user,
   seen |-> rows[TimeOf(r)] # None /\ rows[TimeOf(r)].seen]

Insert(r) ==
  /\ At(r, "insert")
  /\ rows' = [rows EXCEPT ![TimeOf(r)] = RowOf(r)]
  /\ late' = IF TimeOf(r) <= Newest THEN late \cup {req[r].id} ELSE late
  /\ GoOn(r, "recv")
  /\ UNCHANGED <<clock, objects, marks, reader, accepted>>

(* Fault: the mark is the id of the message.                               *)
MarkId(r) == req[r].id

Mark(r) == TimeOf(r)

(* Fault: both marks are put on the sender's row.                          *)
ReceiversSender(r) == {req[r].user}

Receivers(r) == Users \ {req[r].user}

(* The other user has received it ...                                      *)
MarkRecv(r) ==
  /\ At(r, "recv")
  /\ \E u \in Receivers(r) : recv' = [recv EXCEPT ![u] = Mark(r)]
  /\ GoOn(r, "seen")
  /\ UNCHANGED <<clock, store, seen, reader, late, accepted>>

(* ... and the sender has seen all before it.                              *)
MarkSeen(r) ==
  /\ At(r, "seen")
  /\ seen' = [seen EXCEPT ![req[r].user] = Mark(r)]
  /\ \E ok \in BOOLEAN : Return(r, ok)
  /\ UNCHANGED <<clock, store, recv, reader, late, accepted>>

-----------------------------------------------------------------------------
Events == Cardinality(accepted) + Cardinality({m \in Ids : heard[m] # "no"})

(* AcceptRelation, once it has found the chain: it puts both marks of the  *)
(* user and then those of the other at the time it is accepted, which they *)
(* would also have seen by then. Either UPDATE may fail, applied or not.   *)
Accept(r, u) ==
  /\ req[r] = Idle /\ Events < MaxEvents
  /\ LET rivals == {q \in Reqs : req[q] # Idle} IN
     Enter(r, [at |-> "own", user |-> u, time |-> now, alone |-> rivals = {}], rivals)
  /\ now \notin accepted /\ accepted' = accepted \cup {now}
  /\ UNCHANGED <<clock, store, marks, reader, late, skewed>>

MarkBoth(r, u) ==
  /\ recv' = [recv EXCEPT ![u] = req[r].time]
  /\ seen' = [seen EXCEPT ![u] = req[r].time]

AcceptOwn(r) ==
  /\ At(r, "own")
  /\ MarkBoth(r, req[r].user)
  /\ \E next \in {[req[r] EXCEPT !.at = "other"], Idle} : req' = [req EXCEPT ![r] = next]
  /\ UNCHANGED <<clock, store, reader, late, history>>

AcceptOther(r) ==
  /\ At(r, "other")
  /\ \E u \in Users \ {req[r].user} : MarkBoth(r, u)
  /\ req' = [req EXCEPT ![r] = Idle]
  /\ UNCHANGED <<clock, store, reader, late, history>>

AcceptFails(r) ==
  /\ Accepts(r)
  /\ req' = [req EXCEPT ![r] = Idle]
  /\ UNCHANGED <<clock, store, marks, reader, late, history>>

-----------------------------------------------------------------------------
(* GetAudioMessage with seen=false, for a message that the client has read *)
(* and has not heard before. The row is marked in the background. The      *)
(* UPDATE of last_seen that follows names chain_id, which is not in the    *)
(* key of user_relations: it always fails, and changes nothing.            *)
Listen(m) ==
  /\ m \in ToSet(view) \cap objects
  /\ heard[m] = "no" /\ Events < MaxEvents
  /\ heard' = [heard EXCEPT ![m] = "marking"]
  /\ UNCHANGED <<clock, store, marks, view, req, late, history>>

(* An UPDATE of a row that does not exist would create it.                 *)
MarkHeard(m) ==
  /\ heard[m] = "marking"
  /\ heard' = [heard EXCEPT ![m] = "yes"]
  /\ \/ rows' = [rows EXCEPT ![time[m]].seen = TRUE]
     \/ UNCHANGED rows
  /\ UNCHANGED <<clock, objects, marks, view, req, late, history>>

-----------------------------------------------------------------------------
(* GetChain: the rows after a time, oldest first, or the ones before it    *)
(* (up to it, for a first page), latest first and then turned round.       *)
Clamped(limit) == IF limit > PageCap THEN PageCap ELSE limit

Stored == {t \in Times : rows[t] # None}
Some(s, k) == SubSeq(s, 1, IF k < Len(s) THEN k ELSE Len(s))
Page(s) == [k \in DOMAIN s |-> rows[s[k]].id]

(* The rows of a partition in the order of their key.                      *)
InOrder(S) ==
  CHOOSE s \in [1 .. Cardinality(S) -> S] : \A j, k \in DOMAIN s : j < k => s[j] < s[k]

After(t, limit) == Page(Some(InOrder({k \in Stored : k > t}), Clamped(limit)))

(* Fault: the rows of a page are not turned round.                         *)
BeforeTurned(S, limit) == Page(Some(Reverse(InOrder(S)), Clamped(limit)))

Latest(S, limit) == Reverse(Page(Some(Reverse(InOrder(S)), Clamped(limit))))

Before(t, limit) == Latest({k \in Stored : k < t}, limit)
UpTo(t, limit) == Latest({k \in Stored : k <= t}, limit)

Reads(v) ==
  /\ view' = v
  /\ UNCHANGED <<clock, store, marks, heard, req, late, history>>

(* A client opens the chain at a time, then asks for what is older than    *)
(* the oldest or newer than the newest message it has, or, having just     *)
(* one, for both at once. A query that fails passes for an empty page, as  *)
(* the error of iter.Close is not looked at: of both, either may.          *)
Open(limit) == view = <<>> /\ Reads(UpTo(now, limit))
Older(limit) == view # <<>> /\ Reads(Before(time[Head(view)], limit) \o view)
Newer(limit) == view # <<>> /\ Reads(view \o After(time[Last(view)], limit))
Both(limit) ==
  /\ Len(view) = 1
  /\ LET t == time[Head(view)] IN
     \E before \in {Before(t, limit), <<>>}, after \in {After(t, limit), <<>>} :
       Reads(before \o view \o after)

-----------------------------------------------------------------------------
Next ==
  \/ Tick
  \/ \E r \in Reqs :
       \/ \E u \in Users : Upload(r, u) \/ Accept(r, u)
       \/ Put(r) \/ Insert(r) \/ MarkRecv(r) \/ MarkSeen(r) \/ Fail(r)
       \/ AcceptOwn(r) \/ AcceptOther(r) \/ AcceptFails(r)
  \/ \E m \in Ids : Listen(m) \/ MarkHeard(m)
  \/ \E limit \in Limits : Open(limit) \/ Older(limit) \/ Newer(limit) \/ Both(limit)

Spec == Init /\ [][Next]_vars

-----------------------------------------------------------------------------
(* A client that reads page by page, in either direction, has the messages *)
(* in order, each once, and all between the oldest and the newest, except  *)
(* those that were stored after it had read later ones.                    *)
PagesHaveNoGaps ==
  /\ \A i, j \in DOMAIN view : i < j => time[view[i]] < time[view[j]]
  /\ view # <<>> =>
       \A t \in Stored :
         time[Head(view)] <= t /\ t <= time[Last(view)] =>
           rows[t].id \in ToSet(view) \cup late

(* Whatever fails, every row has its audio, and the marks of the users     *)
(* point to rows, or to an acceptance: a client that is told of a message  *)
(* finds it.                                                               *)
MarksPointToMessages ==
  /\ \A t \in Stored : rows[t].id \in objects
  /\ \A u \in Users : {recv[u], seen[u]} \subseteq Stored \cup accepted \cup {0}

(* While a user uploads nothing, the marks cover what that user has sent:  *)
(* the other is told of the last message, and the sender is told of none   *)
(* of its own as unseen, unless uploads overlapped each other or an        *)
(* acceptance, or failed, and none went through since. An acceptance that  *)
(* is served alone, even if it stops half way, never takes a mark back.    *)
MarksCoverMessages ==
  \A u \in Users \ skewed : UploadsOf(u) = {} =>
    \A t \in Stored : rows[t].user = u =>
      /\ t <= seen[u]
      /\ \A v \in Users \ {u} : t <= recv[v]

(* A message that is shown as seen was listened to, or has taken the place *)
(* of one of the same millisecond that was; the mark is made after the     *)
(* answer, by then the row may be another message's.                       *)
SeenWasHeard ==
  \A t \in Stored : rows[t].seen =>
    \E m \in Ids : time[m] = t /\ heard[m] = "yes"
==============================================================================
