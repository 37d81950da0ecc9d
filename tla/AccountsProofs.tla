---------------------------- MODULE AccountsProofs ----------------------------
(***************************************************************************)
(* Proofs about Accounts, for any addresses, names, codes and requests.    *)
(***************************************************************************)
EXTENDS Accounts, TLAPS

-----------------------------------------------------------------------------
(* Types.                                                                  *)

(* What a request is at each of its steps.                                 *)
LEMMA RequestType ==
  ASSUME TypeOK, NEW r \in Reqs
  PROVE  /\ req[r].at \in {"name", "email"} =>
              req[r] \in [at : {"name", "email"}, email : Emails, spelling : Spellings, name : Names]
         /\ req[r].at = "store" => req[r] \in [at : {"store"}, email : Emails, name : Names]
         /\ req[r].at = "read" => req[r] \in [at : {"read"}, email : Emails, code : Codes]
         /\ req[r].at \in {"public", "users", "private"} =>
              req[r] \in [at : {"public", "users", "private"}, email : Emails, name : Names, id : Ids]
         /\ req[r] # Idle => req[r].at # "idle"
<1>1. req[r] \in Registering \cup Verifying \cup {Idle}
  BY DEF TypeOK
<1>2. CASE req[r] \in Registering
  BY <1>2 DEF Registering, Idle
<1>3. CASE req[r] \in Verifying
  BY <1>3 DEF Verifying, Idle
<1>4. CASE req[r] = Idle
  BY <1>4 DEF Idle
<1> QED
  BY <1>1, <1>2, <1>3, <1>4

(* A request that goes to a well-typed state leaves requests well typed.   *)
LEMMA GotoType ==
  ASSUME TypeOK, NEW r \in Reqs, NEW f \in Registering \cup Verifying \cup {Idle}, Goto(r, f)
  PROVE  req' \in [Reqs -> Registering \cup Verifying \cup {Idle}]
BY DEF Goto, TypeOK

(* So does one that returns.                                               *)
LEMMA ReturnType ==
  ASSUME TypeOK, NEW r \in Reqs, Return(r)
  PROVE  req' \in [Reqs -> Registering \cup Verifying \cup {Idle}]
BY GotoType DEF Return

(* And one that goes on to the next query of VerifyEmail.                  *)
LEMMA NextQueryType ==
  ASSUME TypeOK, NEW r \in Reqs, req[r].at \in {"public", "users", "private"},
         NEW at \in {"public", "users", "private"}, Goto(r, [req[r] EXCEPT !.at = at])
  PROVE  req' \in [Reqs -> Registering \cup Verifying \cup {Idle}]
<1>1. [req[r] EXCEPT !.at = at] \in Verifying
  BY RequestType DEF Verifying
<1> QED
  BY <1>1, GotoType

(* The users that a write to users may lose are users.                     *)
LEMMA ReplacedType ==
  ASSUME TypeOK, NEW r \in Reqs, req[r].at = "users"
  PROVE  Replaced(r) \subseteq Ids
<1>1. users[req[r].email] \in Account \cup {None}
  BY RequestType DEF TypeOK
<1> QED
  BY <1>1 DEF Replaced, Account

(* Every step of a request keeps the types.                                *)
LEMMA RequestStep ==
  ASSUME TypeOK, NEW r \in Reqs,
         \/ \E e \in Emails, s \in Spellings, n \in Names : StartRegister(r, e, s, n)
         \/ \E e \in Emails, c \in Codes : StartVerify(r, e, c)
         \/ CheckName(r) \/ CheckEmail(r) \/ Store(r)
         \/ Read(r) \/ InsertPublic(r) \/ WriteUsers(r) \/ InsertPrivate(r)
         \/ Fail(r)
  PROVE  TypeOK'
<1>1. ASSUME NEW e \in Emails, NEW s \in Spellings, NEW n \in Names, StartRegister(r, e, s, n)
      PROVE  TypeOK'
  <2>1. [at |-> "name", email |-> e, spelling |-> s, name |-> n] \in Registering
    BY DEF Registering
  <2>2. req' \in [Reqs -> Registering \cup Verifying \cup {Idle}]
    BY <1>1, <2>1, GotoType DEF StartRegister
  <2> QED
    BY <1>1, <2>2 DEF StartRegister, Unstored, TypeOK
<1>2. ASSUME NEW e \in Emails, NEW c \in Codes, StartVerify(r, e, c)
      PROVE  TypeOK'
  <2>1. [at |-> "read", email |-> e, code |-> c] \in Verifying
    BY DEF Verifying
  <2>2. req' \in [Reqs -> Registering \cup Verifying \cup {Idle}]
    BY <1>2, <2>1, GotoType DEF StartVerify
  <2> QED
    BY <1>2, <2>2 DEF StartVerify, Unstored, TypeOK
<1>3. CASE CheckName(r)
  <2>1. [req[r] EXCEPT !.at = "email"] \in Registering
    BY <1>3, RequestType DEF CheckName, Registering
  <2>2. req' \in [Reqs -> Registering \cup Verifying \cup {Idle}]
    BY <1>3, <2>1, GotoType, ReturnType DEF CheckName
  <2> QED
    BY <1>3, <2>2 DEF CheckName, Unstored, TypeOK
<1>4. CASE CheckEmail(r)
  <2>1. [at |-> "store", email |-> req[r].email, name |-> req[r].name] \in Registering
    BY <1>4, RequestType DEF CheckEmail, Registering
  <2>2. req' \in [Reqs -> Registering \cup Verifying \cup {Idle}]
    BY <1>4, <2>1, GotoType, ReturnType DEF CheckEmail
  <2> QED
    BY <1>4, <2>2 DEF CheckEmail, Unstored, TypeOK
<1>5. CASE Store(r)
  <2>1. PICK c \in Codes \ codes :
          /\ codes' = codes \cup {c}
          /\ verifying' = [verifying EXCEPT ![req[r].email] = [name |-> req[r].name, code |-> c]]
          /\ \/ mailed' = mailed \cup {<<req[r].email, c>>}
             \/ UNCHANGED mailed
    BY <1>5 DEF Store
  <2>2. req[r].email \in Emails /\ req[r].name \in Names
    BY <1>5, RequestType DEF Store
  <2>3. verifying' \in [Emails -> Entry \cup {None}]
    BY <2>1, <2>2 DEF TypeOK, Entry
  <2>4. mailed' \subseteq Emails \X Codes
    BY <2>1, <2>2 DEF TypeOK
  <2>5. req' \in [Reqs -> Registering \cup Verifying \cup {Idle}]
    BY <1>5, ReturnType DEF Store
  <2> QED
    BY <1>5, <2>1, <2>3, <2>4, <2>5 DEF Store, TypeOK
<1>6. CASE Read(r)
  <2>1. req[r].email \in Emails
    BY <1>6, RequestType DEF Read
  <2>2. CASE Return(r) /\ UNCHANGED ids
    BY <1>6, <2>2, ReturnType DEF Read, TypeOK
  <2>3. CASE Valid(req[r].email, req[r].code)
    <3>1. PICK i \in Ids \ ids :
            /\ ids' = ids \cup {i}
            /\ Goto(r, [at |-> "public", email |-> req[r].email,
                        name |-> verifying[req[r].email].name, id |-> i])
      BY <1>6, <2>3 DEF Read
    <3>2. verifying[req[r].email].name \in Names
      BY <2>1, <2>3 DEF Valid, TypeOK, Entry
    <3>3. [at |-> "public", email |-> req[r].email,
           name |-> verifying[req[r].email].name, id |-> i] \in Verifying
      BY <2>1, <3>2 DEF Verifying
    <3>4. req' \in [Reqs -> Registering \cup Verifying \cup {Idle}]
      BY <3>1, <3>3, GotoType
    <3> QED
      BY <1>6, <3>1, <3>4 DEF Read, TypeOK
  <2> QED
    BY <1>6, <2>2, <2>3 DEF Read
<1>7. CASE InsertPublic(r)
  <2>1. req[r].name \in Names /\ req[r].id \in Ids /\ req[r].at = "public"
    BY <1>7, RequestType DEF InsertPublic
  <2>2. public' \in [Names -> Ids \cup {None}] /\ lost' \subseteq Ids
    BY <1>7, <2>1 DEF InsertPublic, TypeOK
  <2>3. req' \in [Reqs -> Registering \cup Verifying \cup {Idle}]
    BY <1>7, <2>1, NextQueryType, ReturnType DEF InsertPublic
  <2> QED
    BY <1>7, <2>2, <2>3 DEF InsertPublic, TypeOK
<1>8. CASE WriteUsers(r)
  <2>1. req[r].email \in Emails /\ req[r].name \in Names /\ req[r].id \in Ids /\ req[r].at = "users"
    BY <1>8, RequestType DEF WriteUsers
  <2>2. users' \in [Emails -> Account \cup {None}]
    BY <1>8, <2>1 DEF WriteUsers, InsertUsers, TypeOK, Account
  <2>3. lost' \subseteq Ids
    BY <1>8, <2>1, ReplacedType DEF WriteUsers, TypeOK
  <2>4. req' \in [Reqs -> Registering \cup Verifying \cup {Idle}]
    BY <1>8, <2>1, NextQueryType, ReturnType DEF WriteUsers
  <2> QED
    BY <1>8, <2>2, <2>3, <2>4 DEF WriteUsers, TypeOK
<1>9. CASE InsertPrivate(r)
  <2>1. req[r].name \in Names /\ req[r].id \in Ids
    BY <1>9, RequestType DEF InsertPrivate
  <2>2. req' \in [Reqs -> Registering \cup Verifying \cup {Idle}]
    BY <1>9, ReturnType DEF InsertPrivate
  <2> QED
    BY <1>9, <2>1, <2>2 DEF InsertPrivate, TypeOK
<1>10. CASE Fail(r)
  <2>1. lost' \subseteq Ids
    BY <1>10, RequestType DEF Fail, Halted, TypeOK
  <2>2. req' \in [Reqs -> Registering \cup Verifying \cup {Idle}]
    BY <1>10, ReturnType DEF Fail
  <2> QED
    BY <1>10, <2>1, <2>2 DEF Fail, Unstored, TypeOK
<1> QED
  BY <1>1, <1>2, <1>3, <1>4, <1>5, <1>6, <1>7, <1>8, <1>9, <1>10

(* Every reachable state is well typed.                                    *)
THEOREM TypeCorrect == Spec => []TypeOK
<1>1. Init => TypeOK
  BY DEF Init, TypeOK
<1>2. TypeOK /\ [Next]_vars => TypeOK'
  <2> SUFFICES ASSUME TypeOK, [Next]_vars PROVE TypeOK'
    OBVIOUS
  <2>1. CASE UNCHANGED vars
    BY <2>1 DEF vars, TypeOK
  <2>2. ASSUME NEW e \in Emails, Expire(e) PROVE TypeOK'
    BY <2>2 DEF Expire, TypeOK
  <2>3. ASSUME NEW e \in Emails, Resend(e) PROVE TypeOK'
    <3>1. verifying[e].code \in Codes
      BY <2>3 DEF Resend, TypeOK, Entry
    <3> QED
      BY <2>3, <3>1 DEF Resend, TypeOK
  <2> QED
    BY <2>1, <2>2, <2>3, RequestStep DEF Next
<1> QED
  BY <1>1, <1>2, PTL DEF Spec

-----------------------------------------------------------------------------
(* NamesAreUnique needs to know who owns a drawn user_id: one request at   *)
(* most, whose name is taken for it before any other row names it.         *)

Owns(r) == req[r].at \in {"public", "users", "private"}

NamesAreDrawn == \A n \in Names : public[n] # None => public[n] \in ids
OwnersDiffer ==
  \A r \in Reqs : Owns(r) =>
    /\ req[r].id \in ids
    /\ \A q \in Reqs : q # r /\ Owns(q) => req[q].id # req[r].id
NewHaveNoAccount ==
  \A r \in Reqs : req[r].at \in {"public", "users"} =>
    \A e \in Emails : users[e] # None => users[e].id # req[r].id
NameIsTaken ==
  \A r \in Reqs : req[r].at \in {"users", "private"} => public[req[r].name] = req[r].id

NameInv == NamesAreUnique /\ NamesAreDrawn /\ OwnersDiffer /\ NewHaveNoAccount /\ NameIsTaken

(* An account's user_id was drawn.                                         *)
LEMMA AccountIsDrawn ==
  ASSUME TypeOK, NameInv, NEW e \in Emails, users[e] # None
  PROVE  users[e].id \in ids /\ users[e].id \in Ids /\ users[e].name \in Names
<1>1. users[e].id \in Ids /\ users[e].name \in Names
  BY DEF TypeOK, Account
<1> QED
  BY <1>1, ConstantsAssumption DEF NameInv, NamesAreUnique, NamesAreDrawn, TypeOK

(* A step that writes no table and draws no user_id, and after which every *)
(* request stands where it stood, or owns nothing, keeps the invariant.    *)
LEMMA QuietStep ==
  ASSUME NameInv, UNCHANGED <<public, users, private, ids>>,
         \A q \in Reqs : req'[q] = req[q] \/ ~Owns(q)'
  PROVE  NameInv'
<1>1. NamesAreUnique' /\ NamesAreDrawn'
  BY DEF NameInv, NamesAreUnique, NamesAreDrawn
<1>2. OwnersDiffer'
  BY DEF NameInv, OwnersDiffer, Owns
<1>3. NewHaveNoAccount'
  BY DEF NameInv, NewHaveNoAccount, Owns
<1>4. NameIsTaken'
  BY DEF NameInv, NameIsTaken, Owns
<1> QED
  BY <1>1, <1>2, <1>3, <1>4 DEF NameInv

(* A request that returns owns nothing, and neither does one that goes to  *)
(* a state without a user_id; the others stay where they are.              *)
LEMMA GotoOthers ==
  ASSUME TypeOK, NEW r \in Reqs, NEW f, Goto(r, f)
  PROVE  req'[r] = f /\ \A q \in Reqs : q # r => req'[q] = req[q]
BY DEF Goto, TypeOK

(* Every step of a request that writes no table.                           *)
LEMMA ReadingStep ==
  ASSUME TypeOK, NameInv, NEW r \in Reqs,
         \/ \E e \in Emails, s \in Spellings, n \in Names : StartRegister(r, e, s, n)
         \/ \E e \in Emails, c \in Codes : StartVerify(r, e, c)
         \/ CheckName(r) \/ CheckEmail(r) \/ Store(r) \/ Fail(r)
  PROVE  NameInv'
<1>1. UNCHANGED <<public, users, private, ids>>
  BY DEF StartRegister, StartVerify, CheckName, CheckEmail, Store, Fail, Unstored
<1>2. ~Owns(r)' /\ \A q \in Reqs : q # r => req'[q] = req[q]
  <2>1. ASSUME NEW e \in Emails, NEW s \in Spellings, NEW n \in Names, StartRegister(r, e, s, n)
        PROVE  ~Owns(r)' /\ \A q \in Reqs : q # r => req'[q] = req[q]
    BY <2>1, GotoOthers DEF StartRegister, Owns
  <2>2. ASSUME NEW e \in Emails, NEW c \in Codes, StartVerify(r, e, c)
        PROVE  ~Owns(r)' /\ \A q \in Reqs : q # r => req'[q] = req[q]
    BY <2>2, GotoOthers DEF StartVerify, Owns
  <2>3. CASE Return(r)
    BY <2>3, GotoOthers DEF Return, Owns, Idle
  <2>4. CASE CheckName(r)
    <3>1. [req[r] EXCEPT !.at = "email"].at = "email"
      BY <2>4, RequestType DEF CheckName
    <3> QED
      BY <2>3, <2>4, <3>1, GotoOthers DEF CheckName, Owns
  <2>5. CASE CheckEmail(r)
    BY <2>3, <2>5, GotoOthers DEF CheckEmail, Owns
  <2> QED
    BY <2>1, <2>2, <2>3, <2>4, <2>5 DEF Store, Fail
<1> QED
  BY <1>1, <1>2, QuietStep

(* VerifyEmail draws a user_id that nobody owns and no row names.          *)
LEMMA ReadStep ==
  ASSUME TypeOK, NameInv, NEW r \in Reqs, Read(r)
  PROVE  NameInv'
<1>1. UNCHANGED <<public, users, private>>
  BY DEF Read
<1>2. CASE Return(r) /\ UNCHANGED ids
  <2>1. ~Owns(r)' /\ \A q \in Reqs : q # r => req'[q] = req[q]
    BY <1>2, GotoOthers DEF Return, Owns, Idle
  <2> QED
    BY <1>1, <1>2, <2>1, QuietStep
<1>3. CASE Valid(req[r].email, req[r].code)
  <2>1. PICK i \in Ids \ ids :
          /\ ids' = ids \cup {i}
          /\ Goto(r, [at |-> "public", email |-> req[r].email,
                      name |-> verifying[req[r].email].name, id |-> i])
    BY <1>3 DEF Read
  <2>2. /\ req'[r].at = "public" /\ req'[r].id = i
        /\ \A q \in Reqs : q # r => req'[q] = req[q]
    BY <2>1, GotoOthers
  <2>3. NamesAreUnique' /\ NamesAreDrawn'
    BY <1>1, <2>1 DEF NameInv, NamesAreUnique, NamesAreDrawn
  <2>4. OwnersDiffer'
    BY <2>1, <2>2 DEF NameInv, OwnersDiffer, Owns
  <2>5. NewHaveNoAccount'
    BY <1>1, <2>1, <2>2, AccountIsDrawn DEF NameInv, NewHaveNoAccount
  <2>6. NameIsTaken'
    BY <1>1, <2>2 DEF NameInv, NameIsTaken
  <2> QED
    BY <2>3, <2>4, <2>5, <2>6 DEF NameInv
<1> QED
  BY <1>2, <1>3 DEF Read

(* It takes a name that is free, or nothing at all.                        *)
LEMMA InsertPublicStep ==
  ASSUME TypeOK, NameInv, NEW r \in Reqs, InsertPublic(r)
  PROVE  NameInv'
<1>1. /\ UNCHANGED <<users, private, ids>> /\ req[r].at = "public" /\ Owns(r)
      /\ req[r].name \in Names /\ req[r].id \in Ids
  BY RequestType DEF InsertPublic, Owns
<1>2. \A q \in Reqs : q # r => req'[q] = req[q]
  BY GotoOthers DEF InsertPublic, Return
<1>3. \/ ~Owns(r)'
      \/ Applied(req[r].name) /\ public' = [public EXCEPT ![req[r].name] = req[r].id]
           /\ req'[r].at = "users" /\ req'[r].id = req[r].id /\ req'[r].name = req[r].name
  <2>1. CASE Return(r)
    BY <2>1, GotoOthers DEF Return, Owns, Idle
  <2>2. CASE Goto(r, [req[r] EXCEPT !.at = "users"])
    <3>1. req'[r] = [req[r] EXCEPT !.at = "users"]
      BY <2>2, GotoOthers
    <3>2. /\ req'[r].at = "users" /\ req'[r].id = req[r].id /\ req'[r].name = req[r].name
      BY <1>1, <3>1, RequestType
    <3>3. req'[r] # Idle
      BY <3>2 DEF Idle
    <3> QED
      BY <1>1, <2>2, <3>2, <3>3, GotoOthers DEF InsertPublic, Return
  <2> QED
    BY <2>1, <2>2 DEF InsertPublic
<1>4. \/ UNCHANGED public
      \/ Applied(req[r].name) /\ public' = [public EXCEPT ![req[r].name] = req[r].id]
  BY DEF InsertPublic
<1>5. \A n \in Names : public[n] # None => public'[n] = public[n]
  BY <1>1, <1>4 DEF Applied, TypeOK
<1>6. NamesAreUnique'
  <2>1. \A e \in Emails : users[e] # None => public'[users[e].name] = users[e].id
    BY <1>5, AccountIsDrawn, ConstantsAssumption DEF NameInv, NamesAreUnique
  <2>2. \A i \in Ids : private[i] # None => public'[private[i]] = i
    BY <1>5, ConstantsAssumption DEF NameInv, NamesAreUnique, TypeOK
  <2> QED
    BY <1>1, <2>1, <2>2 DEF NameInv, NamesAreUnique
<1>7. NamesAreDrawn'
  BY <1>1, <1>4 DEF NameInv, NamesAreDrawn, OwnersDiffer, TypeOK
<1>8. OwnersDiffer'
  BY <1>1, <1>2, <1>3 DEF NameInv, OwnersDiffer, Owns
<1>9. NewHaveNoAccount'
  BY <1>1, <1>2, <1>3 DEF NameInv, NewHaveNoAccount, Owns
<1>10. NameIsTaken'
  <2>1. ASSUME NEW q \in Reqs, q # r, req[q].at \in {"users", "private"}
        PROVE  public'[req[q].name] = req[q].id
    BY <2>1, <1>5, RequestType, ConstantsAssumption DEF NameInv, NameIsTaken
  <2>2. req'[r].at \in {"users", "private"} => public'[req'[r].name] = req'[r].id
    BY <1>1, <1>3 DEF Owns, TypeOK
  <2> QED
    BY <1>2, <2>1, <2>2 DEF NameIsTaken
<1> QED
  BY <1>6, <1>7, <1>8, <1>9, <1>10 DEF NameInv

(* The account it then writes is the only one of its user.                 *)
LEMMA WriteUsersStep ==
  ASSUME TypeOK, NameInv, NEW r \in Reqs, WriteUsers(r)
  PROVE  NameInv'
<1>1. /\ UNCHANGED <<public, private, ids>> /\ req[r].at = "users" /\ Owns(r)
      /\ req[r].email \in Emails /\ req[r].name \in Names /\ req[r].id \in Ids
  BY RequestType DEF WriteUsers, Owns
<1>2. \A q \in Reqs : q # r => req'[q] = req[q]
  BY GotoOthers DEF WriteUsers, Return
<1>3. \/ ~Owns(r)'
      \/ req'[r].at = "private" /\ req'[r].id = req[r].id /\ req'[r].name = req[r].name
  <2>1. CASE Return(r)
    BY <2>1, GotoOthers DEF Return, Owns, Idle
  <2>2. CASE Goto(r, [req[r] EXCEPT !.at = "private"])
    <3>1. req'[r] = [req[r] EXCEPT !.at = "private"]
      BY <2>2, GotoOthers
    <3> QED
      BY <1>1, <3>1, RequestType
  <2> QED
    BY <2>1, <2>2 DEF WriteUsers
<1>4. /\ users'[req[r].email].id = req[r].id /\ users'[req[r].email].name = req[r].name
      /\ \A e \in Emails : e # req[r].email => users'[e] = users[e]
  BY <1>1 DEF WriteUsers, InsertUsers, TypeOK
<1>5. public[req[r].name] = req[r].id
  BY <1>1 DEF NameInv, NameIsTaken
<1>6. \A e \in Emails : users[e] # None => users[e].id # req[r].id
  BY <1>1 DEF NameInv, NewHaveNoAccount
<1>7. NamesAreUnique'
  BY <1>1, <1>4, <1>5, <1>6 DEF NameInv, NamesAreUnique
<1>8. NamesAreDrawn'
  BY <1>1 DEF NameInv, NamesAreDrawn
<1>9. OwnersDiffer'
  BY <1>1, <1>2, <1>3 DEF NameInv, OwnersDiffer, Owns
<1>10. NewHaveNoAccount'
  <2>1. ASSUME NEW q \in Reqs, req'[q].at \in {"public", "users"}
        PROVE  q # r /\ req'[q] = req[q] /\ req[q].id # req[r].id
    BY <1>1, <1>2, <1>3, <2>1 DEF NameInv, OwnersDiffer, Owns
  <2> QED
    BY <1>4, <2>1 DEF NameInv, NewHaveNoAccount
<1>11. NameIsTaken'
  BY <1>1, <1>2, <1>3, <1>5 DEF NameInv, NameIsTaken, Owns
<1> QED
  BY <1>7, <1>8, <1>9, <1>10, <1>11 DEF NameInv

(* And users_private names it as users_public does.                        *)
LEMMA InsertPrivateStep ==
  ASSUME TypeOK, NameInv, NEW r \in Reqs, InsertPrivate(r)
  PROVE  NameInv'
<1>1. /\ UNCHANGED <<public, users, ids>> /\ req[r].at = "private" /\ req[r].id \in Ids
      /\ private' = [private EXCEPT ![req[r].id] = req[r].name]
  BY RequestType DEF InsertPrivate
<1>2. ~Owns(r)' /\ \A q \in Reqs : q # r => req'[q] = req[q]
  BY GotoOthers DEF InsertPrivate, Return, Owns, Idle
<1>3. public[req[r].name] = req[r].id
  BY <1>1 DEF NameInv, NameIsTaken
<1>4. NamesAreUnique'
  BY <1>1, <1>3 DEF NameInv, NamesAreUnique, TypeOK
<1>5. NamesAreDrawn' /\ OwnersDiffer'
  BY <1>1, <1>2 DEF NameInv, NamesAreDrawn, OwnersDiffer, Owns
<1>6. NewHaveNoAccount' /\ NameIsTaken'
  BY <1>1, <1>2 DEF NameInv, NewHaveNoAccount, NameIsTaken, Owns
<1> QED
  BY <1>4, <1>5, <1>6 DEF NameInv

(* Every step keeps it.                                                    *)
LEMMA NameInvariant == Spec => []NameInv
<1>1. Init => NameInv
  BY DEF Init, Idle, Owns, NameInv, NamesAreUnique, NamesAreDrawn, OwnersDiffer, NewHaveNoAccount,
         NameIsTaken
<1>2. TypeOK /\ NameInv /\ [Next]_vars => NameInv'
  <2> SUFFICES ASSUME TypeOK, NameInv, [Next]_vars PROVE NameInv'
    OBVIOUS
  <2>1. CASE UNCHANGED vars
    BY <2>1, QuietStep DEF vars
  <2>2. ASSUME NEW e \in Emails, Expire(e) \/ Resend(e) PROVE NameInv'
    BY <2>2, QuietStep DEF Expire, Resend
  <2> QED
    BY <2>1, <2>2, ReadingStep, ReadStep, InsertPublicStep, WriteUsersStep, InsertPrivateStep DEF Next
<1> QED
  BY <1>1, <1>2, TypeCorrect, PTL DEF Spec

(* A username belongs to one user, whatever names that user names it       *)
(* alike, and no two addresses log in as the same user, however            *)
(* verifications overlap or fail: INSERT ... IF NOT EXISTS into            *)
(* users_public comes first (auth.services.go:202).                        *)
THEOREM NamesUnique == Spec => []NamesAreUnique
<1>1. NameInv => NamesAreUnique
  BY DEF NameInv
<1> QED
  BY <1>1, NameInvariant, PTL

-----------------------------------------------------------------------------
(* TakenNamesAreUsable needs, besides, that no user_id has two names, and  *)
(* that a request which has yet to take its name is not known by another.  *)

OneNameEach ==
  \A n, m \in Names : public[n] # None /\ public[n] = public[m] => n = m
NewHaveNoName ==
  \A r \in Reqs : req[r].at = "public" => \A n \in Names : public[n] # req[r].id

\* A taken name whose user is not lost: where the rest of its account is.
Kept(n) ==
  \E e \in Emails :
    /\ users[e] = [id |-> public[n], name |-> n]
    /\ \/ private[public[n]] = n
       \/ \E r \in Reqs : req[r].at = "private" /\ req[r].id = public[n]
Awaited(n) == \E r \in Reqs : req[r].at = "users" /\ req[r].id = public[n]
Usable(n) == public[n] # None /\ public[n] \notin lost => Kept(n) \/ Awaited(n)

UsableInv == OneNameEach /\ NewHaveNoName /\ \A n \in Names : Usable(n)

LEMMA UsableIsTaken == UsableInv => TakenNamesAreUsable
BY DEF UsableInv, Usable, Kept, Awaited, TakenNamesAreUsable

(* A step that writes no table, forgets no lost user and after which every *)
(* request that is past Read stands where it stood, or its user is lost.   *)
LEMMA QuietUsable ==
  ASSUME UsableInv, UNCHANGED <<public, users, private>>, lost \subseteq lost',
         \A q \in Reqs : \/ req'[q] = req[q]
                         \/ /\ req'[q].at # "public"
                            /\ req[q].at \in {"users", "private"} => req[q].id \in lost'
  PROVE  UsableInv'
<1>1. OneNameEach'
  BY DEF UsableInv, OneNameEach
<1>2. NewHaveNoName'
  BY DEF UsableInv, NewHaveNoName
<1>3. ASSUME NEW n \in Names, public'[n] # None, public'[n] \notin lost'
      PROVE  Kept(n)' \/ Awaited(n)'
  <2>1. Kept(n) \/ Awaited(n)
    BY <1>3 DEF UsableInv, Usable
  <2>2. CASE Awaited(n)
    BY <1>3, <2>2 DEF Awaited
  <2>3. CASE Kept(n)
    BY <1>3, <2>3 DEF Kept
  <2> QED
    BY <2>1, <2>2, <2>3
<1> QED
  BY <1>1, <1>2, <1>3 DEF UsableInv, Usable

(* Every step of a request that writes no table and draws no user_id.      *)
LEMMA ReadingUsable ==
  ASSUME TypeOK, UsableInv, NEW r \in Reqs,
         \/ \E e \in Emails, s \in Spellings, n \in Names : StartRegister(r, e, s, n)
         \/ \E e \in Emails, c \in Codes : StartVerify(r, e, c)
         \/ CheckName(r) \/ CheckEmail(r) \/ Store(r) \/ Fail(r)
  PROVE  UsableInv'
<1>1. UNCHANGED <<public, users, private>> /\ lost \subseteq lost'
  BY DEF StartRegister, StartVerify, CheckName, CheckEmail, Store, Fail, Unstored, Halted
<1>2. req[r].at \in {"users", "private"} => req[r].id \in lost'
  <2>1. CASE req[r].at \in {"users", "private"} /\ Fail(r)
    BY <2>1 DEF Fail, Halted
  <2>2. CASE ~Fail(r)
    <3>1. req[r] = Idle \/ req[r].at \in {"name", "email", "store"}
      BY <2>2 DEF StartRegister, StartVerify, CheckName, CheckEmail, Store
    <3> QED
      BY <3>1 DEF Idle
  <2> QED
    BY <2>1, <2>2
<1>3. req'[r].at # "public" /\ \A q \in Reqs : q # r => req'[q] = req[q]
  <2>1. ASSUME NEW e \in Emails, NEW s \in Spellings, NEW n \in Names, StartRegister(r, e, s, n)
        PROVE  req'[r].at # "public" /\ \A q \in Reqs : q # r => req'[q] = req[q]
    BY <2>1, GotoOthers DEF StartRegister
  <2>2. ASSUME NEW e \in Emails, NEW c \in Codes, StartVerify(r, e, c)
        PROVE  req'[r].at # "public" /\ \A q \in Reqs : q # r => req'[q] = req[q]
    BY <2>2, GotoOthers DEF StartVerify
  <2>3. CASE Return(r)
    BY <2>3, GotoOthers DEF Return, Idle
  <2>4. CASE CheckName(r)
    <3>1. [req[r] EXCEPT !.at = "email"].at = "email"
      BY <2>4, RequestType DEF CheckName
    <3> QED
      BY <2>3, <2>4, <3>1, GotoOthers DEF CheckName
  <2>5. CASE CheckEmail(r)
    BY <2>3, <2>5, GotoOthers DEF CheckEmail
  <2> QED
    BY <2>1, <2>2, <2>3, <2>4, <2>5 DEF Store, Fail
<1> QED
  BY <1>1, <1>2, <1>3, QuietUsable

(* VerifyEmail draws a user_id that has no name.                           *)
LEMMA ReadUsable ==
  ASSUME TypeOK, NameInv, UsableInv, NEW r \in Reqs, Read(r)
  PROVE  UsableInv'
<1>1. UNCHANGED <<public, users, private, lost>> /\ req[r].at = "read"
  BY DEF Read
<1>2. CASE Return(r) /\ UNCHANGED ids
  <2>1. req'[r].at # "public" /\ \A q \in Reqs : q # r => req'[q] = req[q]
    BY <1>2, GotoOthers DEF Return, Idle
  <2> QED
    BY <1>1, <2>1, QuietUsable
<1>3. CASE Valid(req[r].email, req[r].code)
  <2>1. PICK i \in Ids \ ids :
          /\ ids' = ids \cup {i}
          /\ Goto(r, [at |-> "public", email |-> req[r].email,
                      name |-> verifying[req[r].email].name, id |-> i])
    BY <1>3 DEF Read
  <2>2. /\ req'[r].at = "public" /\ req'[r].id = i
        /\ \A q \in Reqs : q # r => req'[q] = req[q]
    BY <2>1, GotoOthers
  <2>3. OneNameEach'
    BY <1>1 DEF UsableInv, OneNameEach
  <2>4. \A n \in Names : public[n] # i
    BY <2>1, ConstantsAssumption DEF NameInv, NamesAreDrawn
  <2>5. NewHaveNoName'
    BY <1>1, <2>2, <2>4 DEF UsableInv, NewHaveNoName
  <2>6. ASSUME NEW n \in Names, public'[n] # None, public'[n] \notin lost'
        PROVE  Kept(n)' \/ Awaited(n)'
    <3>1. Kept(n) \/ Awaited(n)
      BY <1>1, <2>6 DEF UsableInv, Usable
    <3>2. CASE Awaited(n)
      BY <1>1, <2>2, <3>2 DEF Awaited
    <3>3. CASE Kept(n)
      BY <1>1, <2>2, <3>3 DEF Kept
    <3> QED
      BY <3>1, <3>2, <3>3
  <2> QED
    BY <2>3, <2>5, <2>6 DEF UsableInv, Usable
<1> QED
  BY <1>2, <1>3 DEF Read

(* A name is taken for a user who goes on to the next table or is lost.    *)
LEMMA InsertPublicUsable ==
  ASSUME TypeOK, NameInv, UsableInv, NEW r \in Reqs, InsertPublic(r)
  PROVE  UsableInv'
<1>1. /\ UNCHANGED <<users, private>> /\ lost \subseteq lost' /\ req[r].at = "public" /\ Owns(r)
      /\ req[r].name \in Names /\ req[r].id \in Ids
  BY RequestType DEF InsertPublic, Owns
<1>2. \A q \in Reqs : q # r => req'[q] = req[q]
  BY GotoOthers DEF InsertPublic, Return
<1>3. CASE Return(r) /\ UNCHANGED <<public, lost>>
  <2>1. req'[r].at # "public"
    BY <1>3, GotoOthers DEF Return, Idle
  <2> QED
    BY <1>1, <1>2, <1>3, <2>1, QuietUsable
<1>4. CASE Applied(req[r].name)
  <2>1. public' = [public EXCEPT ![req[r].name] = req[r].id]
    BY <1>4 DEF InsertPublic
  <2>2. /\ req'[r].at # "public"
        /\ \/ req'[r].at = "users" /\ req'[r].id = req[r].id
           \/ req[r].id \in lost'
    <3>1. CASE Goto(r, [req[r] EXCEPT !.at = "users"])
      <4>1. req'[r] = [req[r] EXCEPT !.at = "users"]
        BY <3>1, GotoOthers
      <4> QED
        BY <1>1, <4>1, RequestType
    <3>2. CASE Return(r) /\ lost' = lost \cup {req[r].id}
      BY <3>2, GotoOthers DEF Return, Idle
    <3> QED
      BY <1>4, <3>1, <3>2 DEF InsertPublic
  <2>3. /\ public'[req[r].name] = req[r].id
        /\ \A n \in Names : n # req[r].name => public'[n] = public[n]
        /\ \A n \in Names : public[n] # req[r].id
    BY <1>1, <2>1 DEF UsableInv, NewHaveNoName, TypeOK
  <2>4. OneNameEach'
    BY <2>3 DEF UsableInv, OneNameEach
  <2>5. NewHaveNoName'
    <3>1. ASSUME NEW q \in Reqs, req'[q].at = "public", NEW n \in Names
          PROVE  public'[n] # req'[q].id
      <4>1. q # r /\ req'[q] = req[q] /\ req[q].at = "public" /\ Owns(q)
        BY <1>2, <2>2, <3>1 DEF Owns
      <4>2. req[q].id # req[r].id
        BY <1>1, <4>1 DEF NameInv, OwnersDiffer
      <4> QED
        BY <2>3, <4>1, <4>2 DEF UsableInv, NewHaveNoName
    <3> QED
      BY <3>1 DEF NewHaveNoName
  <2>6. ASSUME NEW n \in Names, public'[n] # None, public'[n] \notin lost'
        PROVE  Kept(n)' \/ Awaited(n)'
    <3>1. CASE n = req[r].name
      BY <2>2, <2>3, <2>6, <3>1 DEF Awaited
    <3>2. CASE n # req[r].name
      <4>1. public'[n] = public[n] /\ (Kept(n) \/ Awaited(n))
        BY <1>1, <2>3, <2>6, <3>2 DEF UsableInv, Usable
      <4>2. CASE Awaited(n)
        BY <1>1, <1>2, <4>1, <4>2 DEF Awaited
      <4>3. CASE Kept(n)
        BY <1>1, <1>2, <4>1, <4>3 DEF Kept
      <4> QED
        BY <4>1, <4>2, <4>3
    <3> QED
      BY <3>1, <3>2
  <2> QED
    BY <2>4, <2>5, <2>6 DEF UsableInv, Usable
<1> QED
  BY <1>3, <1>4 DEF InsertPublic

(* Its account is written under the name that was taken for it; a user     *)
(* whose account it replaces is lost.                                      *)
LEMMA WriteUsersUsable ==
  ASSUME TypeOK, NameInv, UsableInv, NEW r \in Reqs, WriteUsers(r)
  PROVE  UsableInv'
<1>1. /\ UNCHANGED <<public, private>> /\ lost \cup Replaced(r) \subseteq lost' /\ req[r].at = "users"
      /\ req[r].email \in Emails /\ req[r].name \in Names /\ req[r].id \in Ids
  BY RequestType DEF WriteUsers
<1>2. \A q \in Reqs : q # r => req'[q] = req[q]
  BY GotoOthers DEF WriteUsers, Return
<1>3. /\ req'[r].at # "public"
      /\ \/ req'[r].at = "private" /\ req'[r].id = req[r].id
         \/ req[r].id \in lost'
  <2>1. CASE Goto(r, [req[r] EXCEPT !.at = "private"])
    <3>1. req'[r] = [req[r] EXCEPT !.at = "private"]
      BY <2>1, GotoOthers
    <3> QED
      BY <1>1, <3>1, RequestType
  <2>2. CASE Return(r) /\ lost' = lost \cup Replaced(r) \cup {req[r].id}
    BY <2>2, GotoOthers DEF Return, Idle
  <2> QED
    BY <2>1, <2>2 DEF WriteUsers
<1>4. /\ users'[req[r].email] = [id |-> req[r].id, name |-> req[r].name]
      /\ \A e \in Emails : e # req[r].email => users'[e] = users[e]
  BY <1>1 DEF WriteUsers, InsertUsers, TypeOK
<1>5. public[req[r].name] = req[r].id /\ req[r].id # None
  BY <1>1, ConstantsAssumption DEF NameInv, NameIsTaken
<1>6. OneNameEach'
  BY <1>1 DEF UsableInv, OneNameEach
<1>7. NewHaveNoName'
  BY <1>1, <1>2, <1>3 DEF UsableInv, NewHaveNoName
<1>8. ASSUME NEW n \in Names, public'[n] # None, public'[n] \notin lost'
      PROVE  Kept(n)' \/ Awaited(n)'
  <2>1. public'[n] = public[n] /\ (Kept(n) \/ Awaited(n))
    BY <1>1, <1>8 DEF UsableInv, Usable
  <2>2. CASE public[n] = req[r].id
    <3>1. n = req[r].name
      BY <1>1, <1>5, <2>2 DEF UsableInv, OneNameEach
    <3> QED
      BY <1>1, <1>3, <1>4, <1>8, <2>1, <2>2, <3>1 DEF Kept
  <2>3. CASE public[n] # req[r].id
    <3>1. CASE Awaited(n)
      BY <1>2, <2>1, <2>3, <3>1 DEF Awaited
    <3>2. CASE Kept(n)
      <4>1. PICK e \in Emails :
              /\ users[e] = [id |-> public[n], name |-> n]
              /\ \/ private[public[n]] = n
                 \/ \E q \in Reqs : req[q].at = "private" /\ req[q].id = public[n]
        BY <3>2 DEF Kept
      <4>2. users[e] # None
        <5>1. public[n] \in Ids
          BY <1>8, <2>1 DEF TypeOK
        <5> QED
          BY <4>1, <5>1, ConstantsAssumption
      <4>3. e # req[r].email
        BY <1>1, <1>8, <2>1, <4>1, <4>2 DEF Replaced
      <4>4. users'[e] = [id |-> public[n], name |-> n]
        BY <1>4, <4>1, <4>3
      <4>5. \/ private'[public[n]] = n
            \/ \E q \in Reqs : req'[q].at = "private" /\ req'[q].id = public[n]
        BY <1>1, <1>2, <4>1
      <4> QED
        BY <2>1, <4>4, <4>5 DEF Kept
    <3> QED
      BY <2>1, <3>1, <3>2
  <2> QED
    BY <2>2, <2>3
<1> QED
  BY <1>6, <1>7, <1>8 DEF UsableInv, Usable

(* The last table is written for the user whose name and account are.      *)
LEMMA InsertPrivateUsable ==
  ASSUME TypeOK, NameInv, UsableInv, NEW r \in Reqs, InsertPrivate(r)
  PROVE  UsableInv'
<1>1. /\ UNCHANGED <<public, users, lost>> /\ req[r].at = "private" /\ req[r].id \in Ids
      /\ private' = [private EXCEPT ![req[r].id] = req[r].name] /\ req[r].name \in Names
  BY RequestType DEF InsertPrivate
<1>2. req'[r].at \notin {"public", "users", "private"} /\ \A q \in Reqs : q # r => req'[q] = req[q]
  BY GotoOthers DEF InsertPrivate, Return, Idle
<1>3. public[req[r].name] = req[r].id /\ req[r].id # None
  BY <1>1, ConstantsAssumption DEF NameInv, NameIsTaken
<1>4. OneNameEach' /\ NewHaveNoName'
  BY <1>1, <1>2 DEF UsableInv, OneNameEach, NewHaveNoName
<1>5. ASSUME NEW n \in Names, public'[n] # None, public'[n] \notin lost'
      PROVE  Kept(n)' \/ Awaited(n)'
  <2>1. public'[n] = public[n] /\ (Kept(n) \/ Awaited(n))
    BY <1>1, <1>5 DEF UsableInv, Usable
  <2>2. CASE Awaited(n)
    BY <1>1, <1>2, <2>1, <2>2 DEF Awaited
  <2>3. CASE Kept(n) /\ public[n] = req[r].id
    <3>1. n = req[r].name
      BY <1>1, <1>3, <2>3 DEF UsableInv, OneNameEach
    <3>2. private'[public[n]] = n
      BY <1>1, <2>3, <3>1 DEF TypeOK
    <3> QED
      BY <1>1, <2>1, <2>3, <3>2 DEF Kept
  <2>4. CASE Kept(n) /\ public[n] # req[r].id
    <3>1. public[n] \in Ids
      BY <1>5, <2>1 DEF TypeOK
    <3>2. private'[public[n]] = private[public[n]]
      BY <1>1, <2>4, <3>1 DEF TypeOK
    <3> QED
      BY <1>1, <1>2, <2>1, <2>4, <3>2 DEF Kept
  <2> QED
    BY <2>1, <2>2, <2>3, <2>4
<1> QED
  BY <1>4, <1>5 DEF UsableInv, Usable

(* A username is taken only by a user who can log in and be found, or will *)
(* be once VerifyEmail is through (auth.services.go:202-226), unless that  *)
(* VerifyEmail failed half-way or another one replaced the row in users.   *)
THEOREM TakenNamesCorrect == Spec => []TakenNamesAreUsable
<1>1. Init => UsableInv
  BY DEF Init, Idle, UsableInv, OneNameEach, NewHaveNoName, Usable
<1>2. TypeOK /\ NameInv /\ UsableInv /\ [Next]_vars => UsableInv'
  <2> SUFFICES ASSUME TypeOK, NameInv, UsableInv, [Next]_vars PROVE UsableInv'
    OBVIOUS
  <2>1. CASE UNCHANGED vars
    BY <2>1, QuietUsable DEF vars
  <2>2. ASSUME NEW e \in Emails, Expire(e) \/ Resend(e) PROVE UsableInv'
    BY <2>2, QuietUsable DEF Expire, Resend
  <2> QED
    BY <2>1, <2>2, ReadingUsable, ReadUsable, InsertPublicUsable, WriteUsersUsable,
       InsertPrivateUsable DEF Next
<1> QED
  BY <1>1, <1>2, UsableIsTaken, TypeCorrect, NameInvariant, PTL DEF Spec
==============================================================================
