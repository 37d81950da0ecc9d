------------------------------- MODULE Accounts -------------------------------
(***************************************************************************)
(* How an account comes into being: Register leaves a code in Redis and    *)
(* mails it, VerifyEmail turns the entry into rows of three tables. Only   *)
(* the first of these writes is a lightweight transaction; handlers run    *)
(* concurrently and any of them may stop between two queries.              *)
(*                                                                         *)
(* An e-mail address stands for its lower-case spelling, which is the key  *)
(* of everything that is stored. Passwords and the tokens of sessions are  *)
(* left out.                                                               *)
(***************************************************************************)
EXTENDS Naturals, FiniteSets

CONSTANTS
  Emails,     \* addresses, in lower case
  Spellings,  \* how clients write an address: "lower", "mixed" or both
  Names,      \* usernames
  Codes,      \* the codes that Register draws; bounds the registrations
  Ids,        \* the UUIDs that gocql.TimeUUID returns; bounds the verifications
  Reqs,       \* HTTP requests that are served at the same time
  None

ASSUME ConstantsAssumption ==
  /\ Spellings \subseteq {"lower", "mixed"}
  /\ None \notin Names \cup Codes \cup Ids \cup [id : Ids, name : Names]

VARIABLES
  verifying,  \* Redis, by e-mail: the username and the code to verify
  mailed,     \* the codes that reached the owner of an address
  public,     \* users_public: the user of each username
  users,      \* users, by e-mail: user_id and username
  private,    \* users_private: the username of each user
  codes,      \* codes that were drawn
  ids,        \* user_ids that were drawn
  req,        \* what each request is doing
  lost        \* history: users whose VerifyEmail failed half-way, or whose
              \*   row in users was replaced by another user's

vars == <<verifying, mailed, public, users, private, codes, ids, req, lost>>

Entry == [name : Names, code : Codes]
Account == [id : Ids, name : Names]

Idle == [at |-> "idle"]
Registering == [at : {"name", "email"}, email : Emails, spelling : Spellings, name : Names]
                 \cup [at : {"store"}, email : Emails, name : Names]
Verifying == [at : {"read"}, email : Emails, code : Codes]
               \cup [at : {"public", "users", "private"}, email : Emails, name : Names, id : Ids]

TypeOK ==
  /\ verifying \in [Emails -> Entry \cup {None}]
  /\ mailed \subseteq Emails \X Codes
  /\ public \in [Names -> Ids \cup {None}]
  /\ users \in [Emails -> Account \cup {None}]
  /\ private \in [Ids -> Names \cup {None}]
  /\ codes \subseteq Codes
  /\ ids \subseteq Ids
  /\ req \in [Reqs -> Registering \cup Verifying \cup {Idle}]
  /\ lost \subseteq Ids

Init ==
  /\ verifying = [e \in Emails |-> None]
  /\ mailed = {}
  /\ public = [n \in Names |-> None]
  /\ users = [e \in Emails |-> None]
  /\ private = [i \in Ids |-> None]
  /\ codes = {}
  /\ ids = {}
  /\ req = [r \in Reqs |-> Idle]
  /\ lost = {}

Goto(r, f) == req' = [req EXCEPT ![r] = f]
Return(r) == Goto(r, Idle)

Unstored == UNCHANGED <<verifying, mailed, public, users, private, codes, ids>>

(* A query fails before it has any effect, and the handler returns.        *)
Halted(r) == IF req[r].at \in {"users", "private"} THEN lost \cup {req[r].id} ELSE lost

Fail(r) ==
  /\ req[r] # Idle
  /\ Return(r)
  /\ lost' = Halted(r)
  /\ Unstored

(* Redis forgets an entry after 24 hours.                                  *)
Expire(e) ==
  /\ verifying[e] # None
  /\ verifying' = [verifying EXCEPT ![e] = None]
  /\ UNCHANGED <<mailed, public, users, private, codes, ids, req, lost>>

-----------------------------------------------------------------------------
(* Register.                                                               *)

StartRegister(r, e, s, n) ==
  /\ req[r] = Idle
  /\ Goto(r, [at |-> "name", email |-> e, spelling |-> s, name |-> n])
  /\ Unstored /\ UNCHANGED lost

CheckName(r) ==
  /\ req[r].at = "name"
  /\ IF public[req[r].name] = None THEN Goto(r, [req[r] EXCEPT !.at = "email"]) ELSE Return(r)
  /\ Unstored /\ UNCHANGED lost

(* The address is looked up as the client wrote it: it is put into lower   *)
(* case later.                                                             *)
Found(r) == req[r].spelling = "lower" /\ users[req[r].email] # None

CheckEmail(r) ==
  /\ req[r].at = "email"
  /\ IF Found(r) THEN Return(r)
     ELSE Goto(r, [at |-> "store", email |-> req[r].email, name |-> req[r].name])
  /\ Unstored /\ UNCHANGED lost

(* Redis takes the new entry, over an old one; the mail may not arrive.    *)
Store(r) ==
  /\ req[r].at = "store"
  /\ \E c \in Codes \ codes :
       /\ codes' = codes \cup {c}
       /\ verifying' = [verifying EXCEPT ![req[r].email] = [name |-> req[r].name, code |-> c]]
       /\ \/ mailed' = mailed \cup {<<req[r].email, c>>}
          \/ UNCHANGED mailed
  /\ Return(r)
  /\ UNCHANGED <<public, users, private, ids, lost>>

(* ResendVerification mails the code of the entry again.                   *)
Resend(e) ==
  /\ verifying[e] # None
  /\ mailed' = mailed \cup {<<e, verifying[e].code>>}
  /\ UNCHANGED <<verifying, public, users, private, codes, ids, req, lost>>

-----------------------------------------------------------------------------
(* VerifyEmail, with a code that was mailed to the address.                *)

StartVerify(r, e, c) ==
  /\ req[r] = Idle
  /\ <<e, c>> \in mailed
  /\ Goto(r, [at |-> "read", email |-> e, code |-> c])
  /\ Unstored /\ UNCHANGED lost

(* No entry reads as an empty map, whose code is not the one presented.    *)
Valid(e, c) == verifying[e] # None /\ verifying[e].code = c

Read(r) ==
  /\ req[r].at = "read"
  /\ LET e == req[r].email IN
     \/ /\ Valid(e, req[r].code)
        /\ \E i \in Ids \ ids :
             /\ ids' = ids \cup {i}
             /\ Goto(r, [at |-> "public", email |-> e, name |-> verifying[e].name, id |-> i])
     \/ /\ ~Valid(e, req[r].code)
        /\ Return(r)
        /\ UNCHANGED ids
  /\ UNCHANGED <<verifying, mailed, public, users, private, codes, lost>>

(* Fault: the insertion is not conditional.                                *)
AppliedAlways(n) == TRUE

(* INSERT ... IF NOT EXISTS                                                *)
Applied(n) == public[n] = None

(* A query that is reported as failed may have been applied all the same.  *)
InsertPublic(r) ==
  /\ req[r].at = "public"
  /\ \/ /\ Applied(req[r].name)
        /\ public' = [public EXCEPT ![req[r].name] = req[r].id]
        /\ \/ Goto(r, [req[r] EXCEPT !.at = "users"]) /\ UNCHANGED lost
           \/ Return(r) /\ lost' = lost \cup {req[r].id}
     \/ /\ ~Applied(req[r].name)
        /\ Return(r)
        /\ UNCHANGED <<public, lost>>
  /\ UNCHANGED <<verifying, mailed, users, private, codes, ids>>

(* Fault: an address that has an account keeps it.                         *)
InsertUsersIfNew(r) ==
  users' = [users EXCEPT ![req[r].email] =
              IF @ = None THEN [id |-> req[r].id, name |-> req[r].name] ELSE @]

InsertUsers(r) ==
  users' = [users EXCEPT ![req[r].email] = [id |-> req[r].id, name |-> req[r].name]]

Replaced(r) == {a.id : a \in {users[req[r].email]} \ {None}}

WriteUsers(r) ==
  /\ req[r].at = "users"
  /\ InsertUsers(r)
  /\ \/ Goto(r, [req[r] EXCEPT !.at = "private"]) /\ lost' = lost \cup Replaced(r)
     \/ Return(r) /\ lost' = lost \cup Replaced(r) \cup {req[r].id}
  /\ UNCHANGED <<verifying, mailed, public, private, codes, ids>>

(* Fault: the user's id is written into the column of the username.        *)
InsertPrivateSwapped(r) ==
  /\ req[r].at = "private"
  /\ private' = [private EXCEPT ![req[r].id] = req[r].id]
  /\ Return(r)
  /\ UNCHANGED <<verifying, mailed, public, users, codes, ids, lost>>

InsertPrivate(r) ==
  /\ req[r].at = "private"
  /\ private' = [private EXCEPT ![req[r].id] = req[r].name]
  /\ Return(r)
  /\ UNCHANGED <<verifying, mailed, public, users, codes, ids, lost>>

-----------------------------------------------------------------------------
Next ==
  \/ \E r \in Reqs :
       \/ \E e \in Emails, s \in Spellings, n \in Names : StartRegister(r, e, s, n)
       \/ \E e \in Emails, c \in Codes : StartVerify(r, e, c)
       \/ CheckName(r) \/ CheckEmail(r) \/ Store(r)
       \/ Read(r) \/ InsertPublic(r) \/ WriteUsers(r) \/ InsertPrivate(r)
       \/ Fail(r)
  \/ \E e \in Emails : Expire(e) \/ Resend(e)

Spec == Init /\ [][Next]_vars

-----------------------------------------------------------------------------
(* A username belongs to one user, and whatever names that user, in users  *)
(* or in users_private, names it alike, however verifications overlap or   *)
(* fail; no two addresses log in as the same user.                         *)
NamesAreUnique ==
  /\ \A e \in Emails : users[e] # None => public[users[e].name] = users[e].id
  /\ \A i \in Ids : private[i] # None => public[private[i]] = i
  /\ \A e, f \in Emails : users[e] # None /\ users[f] # None /\ users[e].id = users[f].id => e = f

(* A username is taken only by a user who can log in and be found, or will *)
(* be once VerifyEmail is through, unless that user was lost on the way.   *)
TakenNamesAreUsable ==
  \A n \in Names : public[n] # None /\ public[n] \notin lost =>
    \/ \E e \in Emails :
         /\ users[e] = [id |-> public[n], name |-> n]
         /\ \/ private[public[n]] = n
            \/ \E r \in Reqs : req[r].at = "private" /\ req[r].id = public[n]
    \/ \E r \in Reqs : req[r].at = "users" /\ req[r].id = public[n]

-----------------------------------------------------------------------------
(* A claim of the repository that the code does not meet.                  *)

(* services/auth.services.go:85 "Email", "exists": Register turns away an  *)
(* address that has an account, so that nobody's row in users is replaced. *)
EmailKeepsAccount ==
  [][\A e \in Emails : users[e] # None => users'[e] = users[e]]_vars
==============================================================================
