---------------------------- MODULE SocialProofs ----------------------------
(***************************************************************************)
(* Proofs about SocialLogin for all sets of ids, addresses, identities,    *)
(* profiles and requests.  The invariant, each part with what it needs:    *)
(*   Held       what a request holds by id names a row that was inserted;  *)
(*   Fits       that row is the profile's by identity or by address,       *)
(*              unless the address was changed;                            *)
(*   Fresh      a request that was not overtaken still sees the row it     *)
(*              read: live, and fit for the profile;                       *)
(*   Addressed  no two rows have one address (the UNIQUE constraint, which *)
(*              every statement that writes an address respects);          *)
(*   Images     a login about to save an undisturbed row holds what is     *)
(*              stored, so its save writes nothing; every image was live;  *)
(*   RowHomes, AnswerHomes  a row of an identity, and, while a profile     *)
(*              always had an address, an account it was answered for, has *)
(*              one of the addresses the profile presented.                *)
(***************************************************************************)
EXTENDS SocialLogin, TLAPS

\* A profile has row i by identity, or by an address unless that was changed.
Belongs(i, profile) ==
  \/ rows[i].identity = profile.identity
  \/ rows[i].email = profile.email
  \/ i \in readdressed

\* What is true of the record x of a login in flight.
Held(x) ==
  /\ x.at = "identity" /\ x.byEmail # NoId => Exists(rows[x.byEmail])
  /\ x.at \in {"save", "created", "session", "entity"} => Exists(rows[x.user])
Fits(x) ==
  /\ x.at = "identity" /\ x.byEmail # NoId /\ x.profile.email # NoEmail
       => Belongs(x.byEmail, x.profile)
  /\ x.at = "save" => /\ rows[x.user].identity = x.profile.identity
                      /\ x.image.identity = x.profile.identity
  /\ x.at = "created" => rows[x.user].identity = x.profile.identity
  /\ x.at = "entity" => x.image.identity = rows[x.user].identity
  /\ x.at = "session" /\ x.profile.email # NoEmail => Belongs(x.user, x.profile)
Presents(x) == x.at \notin {"idle", "entity"} => x.profile.email \in presented[x.profile.identity]

Logins == \A r \in Requests : Held(req[r]) /\ Fits(req[r]) /\ Presents(req[r])

\* What a request with the record x knows while it was not overtaken.
Sees(x) ==
  /\ x.at = "identity" /\ x.byEmail # NoId =>
       Live(x.byEmail) /\ x.profile.email \in {rows[x.byEmail].email, NoEmail}
  /\ x.at \in {"save", "entity"} => Live(x.user)
  /\ x.at = "session" =>
       Live(x.user) /\ (\/ rows[x.user].identity = x.profile.identity
                        \/ x.profile.email \in {rows[x.user].email, NoEmail})

Fresh == \A r \in Requests \ overtaken : Sees(req[r])

Addressed ==
  \A i, j \in Ids :
    Exists(rows[i]) /\ Exists(rows[j]) /\ i # j /\ rows[i].email # NoEmail
      => rows[j].email # rows[i].email

Images ==
  \A r \in Requests :
    /\ req[r].at = "save" /\ req[r].user \notin disturbed
         => req[r].image = rows[req[r].user] /\ r \notin overtaken
    /\ req[r].at \in {"save", "entity"} => IsLive(req[r].image)
    /\ req[r].at = "entity" /\ req[r].user \notin disturbed
         => \/ req[r].image.password = NoPassword
            \/ req[r].image.password.form = "hashed"

RowHomes ==
  \A i \in Ids \ readdressed : \A p \in Identities :
    Exists(rows[i]) /\ rows[i].identity = p => rows[i].email \in presented[p]

AnswerHomes ==
  \A p \in Identities :
    /\ \A i \in signedIn[p] : Exists(rows[i])
    /\ NoEmail \notin presented[p] =>
         \A i \in signedIn[p] \ readdressed : rows[i].email \in presented[p]

Rest ==
  /\ Logins /\ Fresh /\ Addressed /\ Images /\ SpoiledPasswordExcused
  /\ RowHomes /\ AnswerHomes

IInv == TypeOK /\ Rest

-----------------------------------------------------------------------------
(* Facts about the data *)

LEMMA RequestFields ==
  ASSUME NEW x \in InFlight \cup {Idle}
  PROVE  /\ x.at \notin {"idle", "entity"} => x.profile \in Profile
         /\ x.at = "identity" => x.byEmail \in Ids \cup {NoId}
         /\ x.at \in {"save", "created", "session", "entity"} => x.user \in Ids
         /\ x.at \in {"save", "entity"} => x.image \in Account
BY DEF InFlight, Idle

LEMMA RowOrNone ==
  ASSUME NEW row \in Account \cup {NoUser}
  PROVE  /\ Exists(row) <=> row \in Account
         /\ IsLive(row) => row \in Account
         /\ ~Exists(row) => row = NoUser
BY DEF Exists, IsLive, Account, NoUser

\* The hook touches the form of the password only.
LEMMA CopyIsRow ==
  ASSUME NEW image \in Account, NEW stored \in Account, NEW differs \in BOOLEAN,
         image # stored => differs
  PROVE  /\ SavedCopy(image, stored, differs) \in Account
         /\ SavedCopy(image, stored, differs).email = image.email
         /\ SavedCopy(image, stored, differs).identity = image.identity
         /\ SavedCopy(image, stored, differs).state = image.state
         /\ ~differs => SavedCopy(image, stored, differs) = stored
<1>1. CASE ~differs
  BY <1>1 DEF SavedCopy
<1>2. CASE differs /\ image.password = NoPassword
  BY <1>2 DEF SavedCopy
<1>3. CASE differs /\ image.password # NoPassword
  <2>1. image.password \in Secret
    BY <1>3 DEF Account
  <2>2. SavedCopy(image, stored, differs) = [image EXCEPT !.password.form = Bcrypt[@]]
    BY <1>3 DEF SavedCopy, SetPassword
  <2>3. [image.password EXCEPT !.form = Bcrypt[@]] \in Secret
    BY <2>1 DEF Secret, Forms, Bcrypt
  <2> QED BY <1>3, <2>2, <2>3 DEF Account
<1> QED BY <1>1, <1>2, <1>3

LEMMA HashedIsSecret ==
  ASSUME NEW w \in Passwords
  PROVE  Hashed(w) \in Secret /\ Hashed(w).form = "hashed" /\ Hashed(w) # NoPassword
BY NoValueAssumption DEF Hashed, Secret, Forms

\* What resetPassword saves: the row it read, with a hash of the new password.
LEMMA ResetIsRow ==
  ASSUME NEW image \in Account, NEW w \in Passwords, NEW row,
         row = SetPassword([image EXCEPT !.password = Plain(w)], LoadedPassword(image))
  PROVE  /\ row \in Account
         /\ row.email = image.email /\ row.identity = image.identity
         /\ row.state = image.state
         /\ image.password = NoPassword \/ image.password.form = "hashed"
              => row.password.form = "hashed"
<1> DEFINE entity == [image EXCEPT !.password = Plain(w)]
<1>1. /\ entity \in Account /\ entity.password = Plain(w)
      /\ entity.email = image.email /\ entity.identity = image.identity
      /\ entity.state = image.state
      /\ Plain(w) \in Secret /\ Plain(w).form = "plain" /\ Plain(w) # NoPassword
  BY NoValueAssumption DEF Account, Plain, Secret, Forms
<1>2. CASE Plain(w) = image.password
  <2>1. SetPassword(entity, LoadedPassword(image)) = entity
    BY <1>1, <1>2 DEF SetPassword, LoadedPassword
  <2>2. row = entity
    BY <2>1
  <2> HIDE DEF entity
  <2> QED BY <1>1, <1>2, <2>2
<1>3. CASE Plain(w) # image.password
  <2>1. SetPassword(entity, LoadedPassword(image)) = [entity EXCEPT !.password.form = Bcrypt[@]]
    BY <1>1, <1>3 DEF SetPassword, LoadedPassword
  <2>2. /\ [Plain(w) EXCEPT !.form = Bcrypt[@]] \in Secret
        /\ [Plain(w) EXCEPT !.form = Bcrypt[@]].form = "hashed"
    BY DEF Plain, Secret, Forms, Bcrypt
  <2>3. row = [entity EXCEPT !.password.form = Bcrypt[@]]
    BY <2>1
  <2> DEFINE secret == [Plain(w) EXCEPT !.form = Bcrypt[@]]
  <2>4. entity.password = Plain(w)
    BY <1>1
  <2>5. secret \in Secret /\ secret.form = "hashed"
    BY <2>2
  <2> HIDE DEF entity
  <2>6. row = [entity EXCEPT !.password = secret]
    BY <1>1, <2>3, <2>4 DEF Account
  <2> HIDE DEF secret
  <2>7. /\ row \in Account /\ row.password = secret
        /\ row.email = entity.email /\ row.identity = entity.identity
        /\ row.state = entity.state
    BY <1>1, <2>5, <2>6 DEF Account
  <2> QED BY <1>1, <2>5, <2>7
<1> QED BY <1>2, <1>3

LEMMA WithAddressIsRow ==
  ASSUME NEW image \in Account, NEW email \in Emails \cup {NoEmail}, NEW byEmail
  PROVE  /\ WithAddress(image, email, byEmail) \in Account
         /\ WithAddress(image, email, byEmail).identity = image.identity
         /\ WithAddress(image, email, byEmail).state = image.state
BY DEF WithAddress, Account

LEMMA Initially == Init => IInv
<1> SUFFICES ASSUME Init PROVE IInv
  OBVIOUS
<1>1. TypeOK
  BY DEF Init, TypeOK
<1>2. Rest
  BY DEF Init, Rest, Logins, Held, Fits, Presents, Fresh, Sees, Addressed, Images,
     SpoiledPasswordExcused, RowHomes, AnswerHomes, Idle, Exists, NoUser
<1> QED BY <1>1, <1>2 DEF IInv

-----------------------------------------------------------------------------
(* Types *)

LEMMA TypeOfNext ==
  ASSUME IInv, [Next]_vars
  PROVE  TypeOK'
<1>0. /\ req \in [Requests -> InFlight \cup {Idle}]
      /\ rows \in [Ids -> Account \cup {NoUser}]
      /\ signedIn \in [Identities -> SUBSET Ids]
      /\ presented \in [Identities -> SUBSET (Emails \cup {NoEmail})]
      /\ readdressed \subseteq Ids /\ disturbed \subseteq Ids
      /\ overtaken \subseteq Requests
  BY DEF IInv, TypeOK
<1>c. overtaken' \subseteq Requests
  BY <1>0 DEF Next, vars, Overtake, Forget, ReadByEmail, ReadByIdentity, SaveUser,
     CreateUser, ReadCreated, CreateSession, ReadEntity, SaveEntity, Fail,
     RegisterEmail, SetsPassword, AdminSetsEmail, Removes
<1> USE <1>c
<1>a. ASSUME NEW r \in Requests, NEW rec \in InFlight \cup {Idle}, Becomes(r, rec)
      PROVE  req' \in [Requests -> InFlight \cup {Idle}]
  BY <1>0, <1>a DEF Becomes
<1>b. Idle \in InFlight \cup {Idle}
  OBVIOUS
<1>1. ASSUME NEW r \in Requests, NEW profile \in Profiles, ReadByEmail(r, profile)
      PROVE  TypeOK'
  <2>1. profile \in Profile
    BY ProfilesAssumption
  <2>2. PICK found \in FirstOf(FoundByEmail(profile.email)) :
          Becomes(r, [at |-> "identity", profile |-> profile, byEmail |-> found])
    BY <1>1 DEF ReadByEmail
  <2>3. found \in Ids \cup {NoId}
    BY DEF FirstOf, FoundByEmail
  <2>4. [at |-> "identity", profile |-> profile, byEmail |-> found] \in InFlight
    BY <2>1, <2>3 DEF InFlight
  <2>5. /\ presented' \in [Identities -> SUBSET (Emails \cup {NoEmail})]
        /\ signedIn' \in [Identities -> SUBSET Ids]
    BY <1>0, <1>1, <2>1 DEF ReadByEmail, Profile
  <2> QED BY <1>1, <1>a, <1>0, <2>2, <2>4, <2>5 DEF ReadByEmail, TypeOK
<1>2. ASSUME NEW r \in Requests, ReadByIdentity(r)
      PROVE  TypeOK'
  <2>0. /\ req[r].profile \in Profile /\ req[r].byEmail \in Ids \cup {NoId}
        /\ UNCHANGED <<rows, presented, signedIn, readdressed>>
    BY <1>0, <1>2, RequestFields DEF ReadByIdentity, At
  <2>1. ASSUME NEW i \in FoundByIdentity(req[r].profile.identity), NEW image,
               image = WithAddress(rows[i], req[r].profile.email, req[r].byEmail),
               Becomes(r, [at |-> "save", profile |-> req[r].profile, user |-> i,
                           image |-> image]),
               disturbed' = IF image # rows[i] THEN disturbed \cup {i} ELSE disturbed
        PROVE  TypeOK'
    <3>1. i \in Ids /\ rows[i] \in Account
      BY <1>0, RowOrNone DEF FoundByIdentity, Live
    <3>2. image \in Account
      BY <2>0, <2>1, <3>1, WithAddressIsRow DEF Profile
    <3>3. [at |-> "save", profile |-> req[r].profile, user |-> i, image |-> image] \in InFlight
      BY <2>0, <3>1, <3>2 DEF InFlight
    <3> QED BY <1>0, <1>a, <2>0, <2>1, <3>1, <3>3 DEF TypeOK
  <2>2. CASE /\ req[r].byEmail # NoId
             /\ Becomes(r, [at |-> "session", profile |-> req[r].profile,
                            user |-> req[r].byEmail])
             /\ UNCHANGED disturbed
    <3>1. [at |-> "session", profile |-> req[r].profile, user |-> req[r].byEmail] \in InFlight
      BY <2>0, <2>2 DEF InFlight
    <3> QED BY <1>0, <1>a, <2>0, <2>2, <3>1 DEF TypeOK
  <2>3. CASE /\ Becomes(r, [at |-> "create", profile |-> req[r].profile])
             /\ UNCHANGED disturbed
    <3>1. [at |-> "create", profile |-> req[r].profile] \in InFlight
      BY <2>0 DEF InFlight
    <3> QED BY <1>0, <1>a, <2>0, <2>3, <3>1 DEF TypeOK
  <2> QED BY <1>2, <2>1, <2>2, <2>3 DEF ReadByIdentity
<1>3. ASSUME NEW r \in Requests, SaveUser(r)
      PROVE  TypeOK'
  <2>0. /\ req[r].profile \in Profile /\ req[r].user \in Ids /\ req[r].image \in Account
        /\ rows[req[r].user] \in Account
    BY <1>0, <1>3, RequestFields, RowOrNone DEF SaveUser, At, IInv, Rest, Logins, Held
  <2> DEFINE differs == req[r].image # rows[req[r].user] \/ r \in overtaken
  <2>1. SavedCopy(req[r].image, rows[req[r].user], differs) \in Account
    BY <2>0, CopyIsRow
  <2>2. [at |-> "session", profile |-> req[r].profile, user |-> req[r].user] \in InFlight
    BY <2>0 DEF InFlight
  <2>3. req' \in [Requests -> InFlight \cup {Idle}]
    BY <1>3, <1>a, <1>b, <2>2 DEF SaveUser, Answered
  <2>4. rows' \in [Ids -> Account \cup {NoUser}]
    BY <1>0, <1>3, <2>1 DEF SaveUser
  <2>5. readdressed' \subseteq Ids /\ disturbed' \subseteq Ids
    BY <1>0, <1>3, <2>0 DEF SaveUser
  <2> QED BY <1>0, <1>3, <2>3, <2>4, <2>5 DEF SaveUser, TypeOK
<1>4. ASSUME NEW r \in Requests, CreateUser(r)
      PROVE  TypeOK'
  <2>0. req[r].profile \in Profile
    BY <1>0, <1>4, RequestFields DEF CreateUser, At
  <2>1. [state |-> "live", email |-> req[r].profile.email,
         identity |-> req[r].profile.identity, password |-> NoPassword] \in Account
    BY <2>0 DEF Account, Profile
  <2>2. \A i \in Ids : [at |-> "created", profile |-> req[r].profile, user |-> i] \in InFlight
    BY <2>0 DEF InFlight
  <2>3. req' \in [Requests -> InFlight \cup {Idle}]
    BY <1>4, <1>a, <1>b, <2>2 DEF CreateUser, Answered
  <2>4. rows' \in [Ids -> Account \cup {NoUser}]
    BY <1>0, <1>4, <2>1 DEF CreateUser
  <2> QED BY <1>0, <1>4, <2>3, <2>4 DEF CreateUser, history, TypeOK
<1>5. ASSUME NEW r \in Requests, ReadCreated(r)
      PROVE  TypeOK'
  <2>1. [req[r] EXCEPT !.at = "session"] \in InFlight
    BY <1>0, <1>5 DEF ReadCreated, At, InFlight, Idle
  <2> QED BY <1>0, <1>5, <1>a, <1>b, <2>1 DEF ReadCreated, Answered, history, TypeOK
<1>6. ASSUME NEW r \in Requests, CreateSession(r)
      PROVE  TypeOK'
  <2>1. req[r].profile \in Profile /\ req[r].user \in Ids
    BY <1>0, <1>6, RequestFields DEF CreateSession, At
  <2> QED BY <1>0, <1>6, <1>a, <1>b, <2>1 DEF CreateSession, Answered, TypeOK, Profile
<1>7. ASSUME NEW r \in Requests, Fail(r)
      PROVE  TypeOK'
  BY <1>0, <1>7, <1>a, <1>b DEF Fail, Answered, history, TypeOK
<1>8. ASSUME NEW i \in Ids, NEW e \in Emails, NEW w \in Passwords, RegisterEmail(i, e, w)
      PROVE  TypeOK'
  <2>1. [state |-> "live", email |-> e, identity |-> NoIdentity,
         password |-> Hashed(w)] \in Account
    BY HashedIsSecret DEF Account
  <2> QED BY <1>0, <1>8, <2>1 DEF RegisterEmail, history, TypeOK
<1>9. ASSUME NEW i \in Ids, NEW w \in Passwords, SetsPassword(i, w)
      PROVE  TypeOK'
  <2>1. [rows[i] EXCEPT !.password = Hashed(w)] \in Account
    BY <1>0, <1>9, RowOrNone, HashedIsSecret DEF SetsPassword, Account
  <2> QED BY <1>0, <1>9, <2>1 DEF SetsPassword, Disturb, TypeOK
<1>10. ASSUME NEW i \in Ids, NEW e \in Emails, AdminSetsEmail(i, e)
      PROVE  TypeOK'
  <2>1. [rows[i] EXCEPT !.email = e] \in Account
    BY <1>0, <1>10, RowOrNone DEF AdminSetsEmail, Account
  <2> QED BY <1>0, <1>10, <2>1 DEF AdminSetsEmail, Disturb, TypeOK
<1>11. ASSUME NEW i \in Ids, Removes(i)
      PROVE  TypeOK'
  <2>1. [rows[i] EXCEPT !.state = "deleted"] \in Account
    BY <1>0, <1>11, RowOrNone DEF Removes, Account
  <2> QED BY <1>0, <1>11, <2>1 DEF Removes, Disturb, TypeOK
<1>12. CASE UNCHANGED vars
  BY <1>0, <1>12 DEF vars, TypeOK
<1>13. ASSUME NEW r \in Requests, NEW i \in Ids, ReadEntity(r, i)
       PROVE  TypeOK'
  <2>1. rows[i] \in Account
    BY <1>0, <1>13, RowOrNone DEF ReadEntity, Live
  <2>2. [at |-> "entity", user |-> i, image |-> rows[i]] \in InFlight
    BY <2>1 DEF InFlight
  <2> QED BY <1>0, <1>13, <1>a, <2>2 DEF ReadEntity, history, TypeOK
<1>14. ASSUME NEW r \in Requests, SaveEntity(r)
       PROVE  TypeOK'
  <2>1. req[r].user \in Ids /\ req[r].image \in Account
    BY <1>0, <1>14, RequestFields DEF SaveEntity, At
  <2>2. \A w \in Passwords :
          SetPassword([req[r].image EXCEPT !.password = Plain(w)],
                      LoadedPassword(req[r].image)) \in Account
    BY <2>1, ResetIsRow
  <2>4. rows' \in [Ids -> Account \cup {NoUser}]
    BY <1>0, <1>14, <2>1, <2>2 DEF SaveEntity
  <2>3. readdressed' \subseteq Ids /\ disturbed' \subseteq Ids
    BY <1>0, <1>14, <2>1 DEF SaveEntity, Disturb
  <2> QED BY <1>0, <1>14, <1>a, <1>b, <2>3, <2>4 DEF SaveEntity, Answered, TypeOK
<1> QED BY <1>1, <1>2, <1>3, <1>4, <1>5, <1>6, <1>7, <1>8, <1>9, <1>10, <1>11, <1>12,
           <1>13, <1>14 DEF Next

-----------------------------------------------------------------------------
(* The frame: what a step must keep for the logins it does not advance *)

Keeps ==
  /\ readdressed \subseteq readdressed'
  /\ disturbed \subseteq disturbed'
  /\ \A p \in Identities : presented[p] \subseteq presented'[p]
  /\ \A i \in Ids : Exists(rows[i]) =>
       /\ Exists(rows[i])'
       /\ rows'[i].identity = rows[i].identity
       /\ i \notin readdressed' => rows'[i].email = rows[i].email

LEMMA LoginKept ==
  ASSUME Keeps, NEW x \in InFlight \cup {Idle}, Held(x), Fits(x), Presents(x)
  PROVE  Held(x)' /\ Fits(x)' /\ Presents(x)'
<1>1. Held(x)'
  BY RequestFields DEF Keeps, Held
<1>2. ASSUME NEW i \in Ids, NEW profile, Exists(rows[i]), Belongs(i, profile)
      PROVE  Belongs(i, profile)'
  BY <1>2 DEF Keeps, Belongs
<1>3. Fits(x)'
  BY <1>2, RequestFields DEF Keeps, Held, Fits
<1>4. Presents(x)'
  BY RequestFields DEF Keeps, Presents, Profile
<1> QED BY <1>1, <1>3, <1>4

\* A step that advances r only needs to look at r's new record.
LEMMA LoginsKept ==
  ASSUME IInv, Keeps, NEW r \in Requests, NEW x,
         req' = [req EXCEPT ![r] = x] \/ req' = req,
         req' = [req EXCEPT ![r] = x] => Held(x)' /\ Fits(x)' /\ Presents(x)'
  PROVE  Logins'
<1>1. req \in [Requests -> InFlight \cup {Idle}]
  BY DEF IInv, TypeOK
<1>2. ASSUME NEW q \in Requests, req'[q] = req[q]
      PROVE  Held(req[q])' /\ Fits(req[q])' /\ Presents(req[q])'
  <2> DEFINE y == req[q]
  <2>1. y \in InFlight \cup {Idle} /\ Held(y) /\ Fits(y) /\ Presents(y)
    BY <1>1 DEF IInv, Rest, Logins
  <2>2. PICK z \in InFlight \cup {Idle} : z = req[q]
    BY <2>1
  <2>3. Held(z)' /\ Fits(z)' /\ Presents(z)'
    BY <2>1, <2>2, LoginKept
  <2>4. req'[q] = z
    BY <1>2, <2>2
  <2> QED BY <2>3, <2>4
<1>3. CASE req' = req
  BY <1>2, <1>3 DEF Logins
<1>4. CASE req' = [req EXCEPT ![r] = x]
  <2>1. req'[r] = x /\ \A q \in Requests \ {r} : req'[q] = req[q]
    BY <1>1, <1>4
  <2>2. Held(req[r])' /\ Fits(req[r])' /\ Presents(req[r])'
    BY <1>4, <2>1
  <2> QED BY <1>2, <2>1, <2>2 DEF Logins
<1> QED BY <1>3, <1>4

\* What a request sees stays as long as its row does.
LEMMA SightKept ==
  ASSUME NEW x \in InFlight \cup {Idle}, Sees(x),
         x.at = "identity" /\ x.byEmail # NoId => rows'[x.byEmail] = rows[x.byEmail],
         x.at \in {"save", "session", "entity"} => rows'[x.user] = rows[x.user]
  PROVE  Sees(x)'
BY DEF Sees, Live

\* A step that advances the requests of S only needs to look at these, when it
\* overtakes whoever else holds a row it writes.
LEMMA FreshKept ==
  ASSUME IInv, NEW S,
         \A q \in Requests \ S :
           /\ req'[q] = req[q]
           /\ q \notin overtaken' => q \notin overtaken
           /\ \A i \in Ids : q \notin overtaken' /\ Holds(q, i) => rows'[i] = rows[i],
         \A q \in Requests \cap S : q \notin overtaken' => Sees(req[q])'
  PROVE  Fresh'
<1>1. req \in [Requests -> InFlight \cup {Idle}]
  BY DEF IInv, TypeOK
<1>2. ASSUME NEW q \in Requests \ S, q \notin overtaken'
      PROVE  Sees(req[q])'
  <2>1. PICK z \in InFlight \cup {Idle} : z = req[q]
    BY <1>1
  <2>2. Sees(z)
    BY <1>2, <2>1 DEF IInv, Rest, Fresh
  <2>3. /\ z.at = "identity" /\ z.byEmail # NoId => rows'[z.byEmail] = rows[z.byEmail]
        /\ z.at \in {"save", "session", "entity"} => rows'[z.user] = rows[z.user]
    BY <1>2, <2>1, RequestFields DEF Holds, At
  <2>4. Sees(z)'
    BY <2>2, <2>3, SightKept
  <2>5. req'[q] = z
    BY <2>1
  <2> QED BY <2>4, <2>5
<1> QED BY <1>2 DEF Fresh

\* The same, for a step of r that leaves the rows alone.
LEMMA FreshAdvanced ==
  ASSUME IInv, NEW r \in Requests, NEW x, UNCHANGED rows,
         req' = [req EXCEPT ![r] = x],
         overtaken' = overtaken \/ Forget(r),
         r \notin overtaken' => Sees(x)
  PROVE  Fresh'
<1>1. req \in [Requests -> InFlight \cup {Idle}]
  BY DEF IInv, TypeOK
<1>2. req'[r] = x /\ Sees(x)' = Sees(x)
  BY <1>1 DEF Sees, Live
<1>3. \A q \in Requests \ {r} :
        /\ req'[q] = req[q]
        /\ q \notin overtaken' => q \notin overtaken
  BY <1>1 DEF Forget
<1>4. r \notin overtaken' => Sees(req[r])'
  BY <1>2
<1> QED BY <1>3, <1>4, FreshKept

\* The accounts answered for keep their homes unless one is added.
LEMMA AnswersKept ==
  ASSUME IInv, Keeps,
         signedIn' = signedIn \/ \A p \in Identities : signedIn'[p] \subseteq signedIn[p]
  PROVE  AnswerHomes'
<1>1. signedIn \in [Identities -> SUBSET Ids]
  BY DEF IInv, TypeOK
<1>2. \A p \in Identities : signedIn'[p] \subseteq signedIn[p]
  OBVIOUS
<1> QED BY <1>1, <1>2 DEF IInv, Rest, Keeps, AnswerHomes

\* A step that leaves the rows alone keeps what is said of them, as long as it
\* disturbs nothing less.
LEMMA RowsKept ==
  ASSUME IInv, UNCHANGED <<rows, readdressed>>, disturbed \subseteq disturbed',
         \A p \in Identities : presented[p] \subseteq presented'[p]
  PROVE  Keeps /\ Addressed' /\ SpoiledPasswordExcused' /\ RowHomes'
<1>1. Keeps
  BY DEF Keeps
<1>2. Addressed' /\ SpoiledPasswordExcused' /\ RowHomes'
  BY DEF IInv, Rest, Addressed, SpoiledPasswordExcused, RowHomes
<1> QED BY <1>1, <1>2

-----------------------------------------------------------------------------
(* The steps of a login *)

LEMMA IdleIsFine == Held(Idle) /\ Fits(Idle) /\ Presents(Idle) /\ Sees(Idle)
BY DEF Held, Fits, Presents, Sees, Idle

LEMMA ReadByEmailStep ==
  ASSUME IInv, NEW r \in Requests, NEW profile \in Profiles, ReadByEmail(r, profile)
  PROVE  Rest'
<1>0. /\ req \in [Requests -> InFlight \cup {Idle}] /\ profile \in Profile
      /\ presented \in [Identities -> SUBSET (Emails \cup {NoEmail})]
      /\ signedIn \in [Identities -> SUBSET Ids]
      /\ UNCHANGED <<rows, readdressed, disturbed, overtaken>>
      /\ presented' = [presented EXCEPT ![profile.identity] = @ \cup {profile.email}]
  BY ProfilesAssumption DEF IInv, TypeOK, ReadByEmail
<1>1. PICK found \in FirstOf(FoundByEmail(profile.email)) :
        req' = [req EXCEPT ![r] = [at |-> "identity", profile |-> profile, byEmail |-> found]]
  BY DEF ReadByEmail, Becomes
<1> DEFINE x == [at |-> "identity", profile |-> profile, byEmail |-> found]
<1>2. /\ \A p \in Identities : presented[p] \subseteq presented'[p]
      /\ profile.email \in presented'[profile.identity]
  BY <1>0 DEF Profile
<1>3. Keeps /\ Addressed' /\ SpoiledPasswordExcused' /\ RowHomes'
  BY <1>0, <1>2, RowsKept
<1>4. found # NoId =>
        /\ found \in Ids /\ Exists(rows[found]) /\ Live(found)
        /\ profile.email # NoEmail => rows[found].email = profile.email
  BY DEF FirstOf, FoundByEmail, Live, IsLive, Exists
<1>5. Held(x)' /\ Fits(x)' /\ Presents(x)'
  BY <1>0, <1>2, <1>4 DEF Held, Fits, Presents, Belongs
<1>6. Logins'
  BY <1>1, <1>3, <1>5, LoginsKept
<1>7. Images'
  BY <1>0, <1>1 DEF IInv, Rest, Images
<1>8. Fresh'
  <2>1. Sees(x)
    BY <1>4 DEF Sees
  <2> QED BY <1>0, <1>1, <2>1, FreshAdvanced
<1>9. \A p \in Identities : signedIn'[p] \subseteq signedIn[p]
  BY <1>0 DEF ReadByEmail
<1> QED BY <1>0, <1>3, <1>6, <1>7, <1>8, <1>9, AnswersKept DEF Rest

LEMMA ReadByIdentityStep ==
  ASSUME IInv, NEW r \in Requests, ReadByIdentity(r)
  PROVE  Rest'
<1>0. /\ req \in [Requests -> InFlight \cup {Idle}]
      /\ rows \in [Ids -> Account \cup {NoUser}]
      /\ req[r].at = "identity" /\ req[r].profile \in Profile
      /\ UNCHANGED <<rows, presented, signedIn, readdressed>>
      /\ disturbed \subseteq disturbed'
      /\ overtaken' = overtaken \/ Forget(r)
      /\ Held(req[r]) /\ Fits(req[r]) /\ Presents(req[r])
      /\ r \notin overtaken => Sees(req[r])
  BY RequestFields DEF IInv, TypeOK, Rest, Logins, Fresh, ReadByIdentity, At
<1>1. Keeps /\ Addressed' /\ SpoiledPasswordExcused' /\ RowHomes'
  BY <1>0, RowsKept
<1>2. AnswerHomes'
  BY <1>0, <1>1, AnswersKept
<1> PICK profile \in Profile : profile = req[r].profile
  BY <1>0
<1> PICK byEmail : byEmail = req[r].byEmail
  OBVIOUS
<1>3. ASSUME NEW i \in FoundByIdentity(profile.identity), NEW image,
             image = WithAddress(rows[i], profile.email, byEmail),
             req' = [req EXCEPT ![r] = [at |-> "save", profile |-> profile, user |-> i,
                                        image |-> image]],
             disturbed' = IF image # rows[i] THEN disturbed \cup {i} ELSE disturbed,
             Forget(r)
      PROVE  Rest'
  <2>1. i \in Ids /\ Exists(rows[i]) /\ rows[i] \in Account /\ Live(i)
          /\ rows[i].identity = profile.identity
    BY <1>0, RowOrNone DEF FoundByIdentity, Live, IsLive, Exists
  <2>2. image.identity = profile.identity /\ IsLive(image)
    BY <1>3, <2>1, WithAddressIsRow DEF Profile, Live, IsLive
  <2> DEFINE x == [at |-> "save", profile |-> profile, user |-> i, image |-> image]
  <2>3. Held(x)' /\ Fits(x)' /\ Presents(x)'
    BY <1>0, <2>1, <2>2 DEF Held, Fits, Presents
  <2>4. Logins'
    BY <1>1, <1>3, <2>3, LoginsKept
  <2>5. Images'
    BY <1>0, <1>3, <2>2 DEF IInv, Rest, Images, Forget
  <2>6. Fresh'
    <3>1. Sees(x)
      BY <2>1 DEF Sees
    <3> QED BY <1>0, <1>3, <3>1, FreshAdvanced
  <2> QED BY <1>1, <1>2, <2>4, <2>5, <2>6 DEF Rest
<1>4. CASE /\ byEmail # NoId
           /\ req' = [req EXCEPT ![r] = [at |-> "session", profile |-> profile,
                                         user |-> byEmail]]
           /\ UNCHANGED <<disturbed, overtaken>>
  <2> DEFINE x == [at |-> "session", profile |-> profile, user |-> byEmail]
  <2>1. Held(x)' /\ Fits(x)' /\ Presents(x)'
    BY <1>0, <1>4 DEF Held, Fits, Presents, Belongs
  <2>2. Logins'
    BY <1>1, <1>4, <2>1, LoginsKept
  <2>3. Images'
    BY <1>0, <1>4 DEF IInv, Rest, Images
  <2>4. Fresh'
    <3>1. r \notin overtaken => Sees(x)
      BY <1>0, <1>4 DEF Sees
    <3> QED BY <1>0, <1>4, <3>1, FreshAdvanced
  <2> QED BY <1>1, <1>2, <2>2, <2>3, <2>4 DEF Rest
<1>5. CASE /\ req' = [req EXCEPT ![r] = [at |-> "create", profile |-> profile]]
           /\ UNCHANGED <<disturbed, overtaken>>
  <2> DEFINE x == [at |-> "create", profile |-> profile]
  <2>1. Held(x)' /\ Fits(x)' /\ Presents(x)'
    BY <1>0 DEF Held, Fits, Presents
  <2>2. Logins'
    BY <1>1, <1>5, <2>1, LoginsKept
  <2>3. Images'
    BY <1>0, <1>5 DEF IInv, Rest, Images
  <2>4. Fresh'
    <3>1. Sees(x)
      BY DEF Sees
    <3> QED BY <1>0, <1>5, <3>1, FreshAdvanced
  <2> QED BY <1>1, <1>2, <2>2, <2>3, <2>4 DEF Rest
<1> QED BY <1>3, <1>4, <1>5 DEF ReadByIdentity, Becomes

\* The save writes nothing unless the row is disturbed, and keeps the identity.
LEMMA SaveUserStep ==
  ASSUME IInv, NEW r \in Requests, SaveUser(r)
  PROVE  Rest'
<1>0. /\ req \in [Requests -> InFlight \cup {Idle}]
      /\ rows \in [Ids -> Account \cup {NoUser}]
      /\ req[r].at = "save" /\ req[r].profile \in Profile
      /\ req[r].user \in Ids /\ req[r].image \in Account
      /\ UNCHANGED <<presented, signedIn>>
      /\ Held(req[r]) /\ Fits(req[r]) /\ Presents(req[r])
  BY RequestFields DEF IInv, TypeOK, Rest, Logins, SaveUser, At
<1> PICK i \in Ids : i = req[r].user
  BY <1>0
<1> PICK image \in Account : image = req[r].image
  BY <1>0
<1> PICK profile \in Profile : profile = req[r].profile
  BY <1>0
<1> PICK differs \in BOOLEAN : differs = (image # rows[i] \/ r \in overtaken)
  OBVIOUS
<1> PICK copy : copy = SavedCopy(image, rows[i], differs)
  OBVIOUS
<1>1. /\ Exists(rows[i]) /\ rows[i] \in Account
      /\ rows[i].identity = profile.identity /\ image.identity = profile.identity
      /\ profile.email \in presented[profile.identity]
      /\ IsLive(image)
  BY <1>0, RowOrNone DEF Held, Fits, Presents, IInv, Rest, Images
<1>2. /\ copy \in Account /\ copy.email = image.email
      /\ copy.identity = image.identity /\ Exists(copy) /\ IsLive(copy)
      /\ ~differs => copy = rows[i]
  <2> PICK stored \in Account : stored = rows[i]
    BY <1>1
  <2>1. image # stored => differs
    OBVIOUS
  <2>2. /\ copy \in Account /\ copy.email = image.email
        /\ copy.identity = image.identity /\ copy.state = image.state
        /\ ~differs => copy = stored
    <3>1. copy = SavedCopy(image, stored, differs)
      OBVIOUS
    <3>2. /\ SavedCopy(image, stored, differs) \in Account
          /\ SavedCopy(image, stored, differs).email = image.email
          /\ SavedCopy(image, stored, differs).identity = image.identity
          /\ SavedCopy(image, stored, differs).state = image.state
          /\ ~differs => SavedCopy(image, stored, differs) = stored
      BY <2>1, CopyIsRow, Zenon
    <3> QED BY <3>1, <3>2, Zenon
  <2> QED BY <1>1, <2>2, RowOrNone DEF IsLive
<1>3. CASE ~AddressIsFree(image.email, i)
  <2>1. /\ req' = [req EXCEPT ![r] = Idle] /\ Forget(r)
        /\ UNCHANGED <<rows, readdressed, disturbed>>
    BY <1>3 DEF SaveUser, Answered, Becomes
  <2>2. Keeps /\ Addressed' /\ SpoiledPasswordExcused' /\ RowHomes'
    BY <1>0, <2>1, RowsKept
  <2>3. Logins'
    BY <2>1, <2>2, LoginsKept, IdleIsFine DEF Held, Fits, Presents, Idle
  <2>4. Images'
    BY <1>0, <2>1 DEF IInv, Rest, Images, Idle, Forget
  <2>5. Fresh'
    BY <2>1, IdleIsFine, FreshAdvanced
  <2> QED BY <1>0, <2>2, <2>3, <2>4, <2>5, AnswersKept DEF Rest
<1>4. CASE AddressIsFree(image.email, i)
  <2>1. /\ rows' = [rows EXCEPT ![i] = copy]
        /\ readdressed' = IF image.email # rows[i].email
                            THEN readdressed \cup {i} ELSE readdressed
        /\ disturbed' = IF differs /\ \E q \in Requests \ {r} :
                                At(q, "save") /\ req[q].user = i
                          THEN disturbed \cup {i} ELSE disturbed
        /\ IF differs THEN Overtake(i, {r}) ELSE Forget(r)
        /\ req' = [req EXCEPT ![r] = [at |-> "session", profile |-> profile, user |-> i]]
    BY <1>4 DEF SaveUser, Becomes
  <2>2. rows'[i] = copy /\ \A j \in Ids \ {i} : rows'[j] = rows[j]
    BY <1>0, <2>1
  <2>3. Keeps
    BY <1>0, <1>1, <1>2, <2>1, <2>2 DEF Keeps
  <2> DEFINE x == [at |-> "session", profile |-> profile, user |-> i]
  <2>4. Held(x)' /\ Fits(x)' /\ Presents(x)'
    BY <1>0, <1>1, <1>2, <2>2 DEF Held, Fits, Presents, Belongs
  <2>5. Logins'
    BY <2>1, <2>3, <2>4, LoginsKept
  <2>6. Addressed'
    BY <1>2, <1>4, <2>2 DEF IInv, Rest, Addressed, AddressIsFree
  <2>7. Images'
    <3> SUFFICES ASSUME NEW q \in Requests, req'[q].at = "save", req'[q].user \notin disturbed'
                 PROVE  req'[q].image = rows'[req'[q].user] /\ q \notin overtaken'
      <4>1. \A q \in Requests : req'[q].at \in {"save", "entity"} => req'[q] = req[q]
        BY <1>0, <2>1
      <4>2. disturbed \subseteq disturbed'
        BY <2>1
      <4> QED BY <4>1, <4>2 DEF IInv, Rest, Images
    <3>1. q # r /\ req'[q] = req[q] /\ req[q].user \in Ids
      BY <1>0, <2>1, RequestFields
    <3>2. req[q].image = rows[req[q].user] /\ q \notin overtaken
      BY <2>1, <3>1 DEF IInv, Rest, Images
    <3>3. CASE req[q].user = i
      <4>1. ~differs
        BY <2>1, <3>1, <3>3 DEF At
      <4> QED BY <1>2, <2>1, <2>2, <3>1, <3>2, <3>3, <4>1 DEF Forget
    <3>4. CASE req[q].user # i
      <4>1. ~Holds(q, i)
        BY <3>1, <3>4 DEF Holds, At
      <4>2. q \notin overtaken'
        BY <2>1, <3>1, <3>2, <4>1 DEF Overtake, Forget
      <4> QED BY <2>2, <3>1, <3>2, <3>4, <4>2
    <3> QED BY <3>3, <3>4
  <2>8. SpoiledPasswordExcused'
    <3>1. i \notin disturbed' => copy = rows[i]
      BY <1>0, <1>2, <2>1 DEF IInv, Rest, Images
    <3>2. disturbed \subseteq disturbed'
      BY <2>1
    <3> QED BY <2>2, <3>1, <3>2 DEF IInv, Rest, SpoiledPasswordExcused
  <2>9. RowHomes'
    <3>1. i \notin readdressed' => copy.email = rows[i].email /\ copy.identity = rows[i].identity
      BY <1>1, <1>2, <2>1
    <3>2. RowHomes
      BY DEF IInv, Rest
    <3> QED BY <1>0, <1>1, <2>1, <2>2, <3>1, <3>2 DEF RowHomes
  <2>10. Fresh'
    <3>1. Sees(req[r])'
      <4>1. req'[r] = x
        BY <1>0, <2>1
      <4> QED BY <1>1, <1>2, <2>2, <4>1 DEF Sees, Live
    <3>2. ASSUME NEW q \in Requests \ {r}
          PROVE  /\ req'[q] = req[q]
                 /\ q \notin overtaken' => q \notin overtaken
                 /\ \A j \in Ids : q \notin overtaken' /\ Holds(q, j) => rows'[j] = rows[j]
      <4>1. CASE differs
        <5>1. Overtake(i, {r})
          BY <2>1, <4>1
        <5> QED BY <1>0, <2>1, <2>2, <5>1 DEF Overtake
      <4>2. CASE ~differs
        <5>1. copy = rows[i]
          BY <1>2, <4>2
        <5>2. Forget(r)
          BY <2>1, <4>2
        <5>3. \A j \in Ids : rows'[j] = rows[j]
          BY <2>2, <5>1
        <5> QED BY <1>0, <2>1, <5>2, <5>3 DEF Forget
      <4> QED BY <4>1, <4>2
    <3> HIDE DEF x
    <3>3. \A q \in Requests \ {r} :
            /\ req'[q] = req[q]
            /\ q \notin overtaken' => q \notin overtaken
            /\ \A j \in Ids : q \notin overtaken' /\ Holds(q, j) => rows'[j] = rows[j]
      BY <3>2
    <3>4. \A q \in Requests \cap {r} : Sees(req[q])'
      BY <3>1
    <3> QED BY <3>3, <3>4, FreshKept
  <2> QED BY <1>0, <2>3, <2>5, <2>6, <2>7, <2>8, <2>9, <2>10, AnswersKept DEF Rest
<1> QED BY <1>3, <1>4

\* An INSERT: row i appears, with an address that was free and a password that
\* is missing or hashed.  No login holds i.
LEMMA InsertKept ==
  ASSUME IInv, NEW i \in Ids, NEW row \in Account, rows[i] = NoUser,
         rows' = [rows EXCEPT ![i] = row], AddressIsFree(row.email, i),
         row.password = NoPassword \/ row.password.form = "hashed",
         \A p \in Identities : row.identity = p => row.email \in presented[p],
         UNCHANGED <<presented, signedIn, readdressed, disturbed, overtaken>>,
         \A q \in Requests : req'[q].at \in {"save", "entity"} => req'[q] = req[q]
  PROVE  Keeps /\ Addressed' /\ Images' /\ SpoiledPasswordExcused' /\ RowHomes' /\ AnswerHomes'
<1>0. /\ req \in [Requests -> InFlight \cup {Idle}]
      /\ rows \in [Ids -> Account \cup {NoUser}]
  BY DEF IInv, TypeOK
<1>1. /\ rows'[i] = row /\ ~Exists(rows[i])
      /\ \A j \in Ids \ {i} : rows'[j] = rows[j]
  BY <1>0 DEF Exists, NoUser
<1>2. Keeps
  BY <1>1 DEF Keeps
<1>3. Addressed'
  BY <1>1 DEF IInv, Rest, Addressed, AddressIsFree
<1>4. Images'
  <2>1. ASSUME NEW q \in Requests, req'[q].at \in {"save", "entity"}
        PROVE  req[q].user \in Ids \ {i}
    BY <1>0, <1>1, <2>1, RequestFields DEF IInv, Rest, Logins, Held
  <2> QED BY <1>1, <2>1 DEF IInv, Rest, Images
<1>5. SpoiledPasswordExcused'
  BY <1>1 DEF IInv, Rest, SpoiledPasswordExcused
<1>6. RowHomes'
  BY <1>1 DEF IInv, Rest, RowHomes
<1> QED BY <1>2, <1>3, <1>4, <1>5, <1>6, AnswersKept

\* Nobody saw the row before it was there.
LEMMA InsertIsUnseen ==
  ASSUME IInv, NEW i \in Ids, NEW row, rows[i] = NoUser, rows' = [rows EXCEPT ![i] = row],
         NEW q \in Requests, NEW j \in Ids, Holds(q, j)
  PROVE  rows'[j] = rows[j]
<1>1. ~Exists(rows[i])
  BY DEF Exists, NoUser
<1>2. Exists(rows[j])
  <2>1. Held(req[q])
    BY DEF IInv, Rest, Logins
  <2>2. j # NoId
    BY NoValueAssumption
  <2> QED BY <2>1, <2>2 DEF Holds, At, Held
<1> QED BY <1>1, <1>2 DEF IInv, TypeOK

LEMMA CreateUserStep ==
  ASSUME IInv, NEW r \in Requests, CreateUser(r)
  PROVE  Rest'
<1>0. /\ req \in [Requests -> InFlight \cup {Idle}]
      /\ rows \in [Ids -> Account \cup {NoUser}]
      /\ req[r].at = "create" /\ req[r].profile \in Profile
      /\ UNCHANGED <<presented, signedIn, readdressed, disturbed, overtaken>>
      /\ Presents(req[r])
  BY RequestFields DEF IInv, TypeOK, Rest, Logins, CreateUser, At, history
<1> PICK profile \in Profile : profile = req[r].profile
  BY <1>0
<1> DEFINE row == [state |-> "live", email |-> profile.email,
                   identity |-> profile.identity, password |-> NoPassword]
<1>1. ASSUME NEW i \in Ids, rows[i] = NoUser, AddressIsFree(profile.email, i),
             rows' = [rows EXCEPT ![i] = row],
             req' = [req EXCEPT ![r] = [at |-> "created", profile |-> profile, user |-> i]]
      PROVE  Rest'
  <2>1. row \in Account
    BY DEF Account, Profile
  <2>2. \A p \in Identities : row.identity = p => row.email \in presented[p]
    BY <1>0 DEF Presents
  <2>3. \A q \in Requests : req'[q].at \in {"save", "entity"} => req'[q] = req[q]
    BY <1>0, <1>1
  <2>4. Keeps /\ Addressed' /\ Images' /\ SpoiledPasswordExcused' /\ RowHomes' /\ AnswerHomes'
    BY <1>0, <1>1, <2>1, <2>2, <2>3, InsertKept
  <2> DEFINE x == [at |-> "created", profile |-> profile, user |-> i]
  <2>5. rows'[i] = row
    BY <1>0, <1>1
  <2>6. Held(x)' /\ Fits(x)' /\ Presents(x)'
    BY <1>0, <2>5 DEF Held, Fits, Presents, Exists
  <2>7. Logins'
    BY <1>1, <2>4, <2>6, LoginsKept
  <2>8. Fresh'
    <3>1. req'[r] = x
      BY <1>0, <1>1
    <3>2. Sees(req[r])'
      BY <3>1 DEF Sees
    <3>3. \A q \in Requests \ {r} : req'[q] = req[q]
      BY <1>0, <1>1
    <3>4. \A q \in Requests, j \in Ids : Holds(q, j) => rows'[j] = rows[j]
      <4> HIDE DEF row
      <4> QED BY <1>1, InsertIsUnseen
    <3>5. overtaken' = overtaken
      BY <1>0
    <3> HIDE DEF row, x
    <3>6. /\ \A q \in Requests \ {r} :
               /\ req'[q] = req[q]
               /\ q \notin overtaken' => q \notin overtaken
               /\ \A j \in Ids : q \notin overtaken' /\ Holds(q, j) => rows'[j] = rows[j]
          /\ \A q \in Requests \cap {r} : Sees(req[q])'
      BY <3>2, <3>3, <3>4, <3>5
    <3> QED BY <3>6, FreshKept
  <2> QED BY <2>4, <2>7, <2>8 DEF Rest
<1>2. CASE req' = [req EXCEPT ![r] = Idle] /\ UNCHANGED rows
  <2>1. Keeps /\ Addressed' /\ SpoiledPasswordExcused' /\ RowHomes'
    BY <1>0, <1>2, RowsKept
  <2>2. Logins'
    BY <1>2, <2>1, LoginsKept DEF Held, Fits, Presents, Idle
  <2>3. Images'
    BY <1>0, <1>2 DEF IInv, Rest, Images, Idle
  <2>4. Fresh'
    BY <1>0, <1>2, IdleIsFine, FreshAdvanced
  <2> QED BY <1>0, <2>1, <2>2, <2>3, <2>4, AnswersKept DEF Rest
<1> QED BY <1>1, <1>2 DEF CreateUser, Becomes, Answered

LEMMA ReadCreatedStep ==
  ASSUME IInv, NEW r \in Requests, ReadCreated(r) \/ Fail(r)
  PROVE  Rest'
<1>0. /\ req \in [Requests -> InFlight \cup {Idle}]
      /\ UNCHANGED <<rows, presented, signedIn, readdressed, disturbed>>
      /\ overtaken' = overtaken \/ Forget(r)
      /\ Held(req[r]) /\ Fits(req[r]) /\ Presents(req[r])
  BY DEF IInv, TypeOK, Rest, Logins, ReadCreated, Fail, history
<1>1. Keeps /\ Addressed' /\ SpoiledPasswordExcused' /\ RowHomes'
  BY <1>0, RowsKept
<1>2. CASE req' = [req EXCEPT ![r] = Idle]
  <2>1. Logins'
    BY <1>1, <1>2, LoginsKept DEF Held, Fits, Presents, Idle
  <2>2. Images'
    BY <1>0, <1>2 DEF IInv, Rest, Images, Idle, Forget
  <2>3. Fresh'
    BY <1>0, <1>2, IdleIsFine, FreshAdvanced
  <2> QED BY <1>0, <1>1, <2>1, <2>2, <2>3, AnswersKept DEF Rest
<1>3. CASE /\ req[r].at = "created" /\ Live(req[r].user)
           /\ req' = [req EXCEPT ![r] = [req[r] EXCEPT !.at = "session"]]
  <2> PICK x : x = [req[r] EXCEPT !.at = "session"]
    OBVIOUS
  <2>1. x.at = "session" /\ x.user = req[r].user /\ x.profile = req[r].profile
    BY <1>0, <1>3 DEF InFlight, Idle
  <2>2. Held(x)' /\ Fits(x)' /\ Presents(x)'
    BY <1>0, <1>3, <2>1 DEF Held, Fits, Presents, Belongs
  <2>3. Logins'
    BY <1>1, <1>3, <2>2, LoginsKept
  <2>4. Images'
    BY <1>0, <1>3, <2>1 DEF IInv, Rest, Images, Forget
  <2>5. Sees(x)
    BY <1>0, <1>3, <2>1 DEF Sees, Fits
  <2>6. Fresh'
    BY <1>0, <1>3, <2>5, FreshAdvanced
  <2> QED BY <1>0, <1>1, <2>3, <2>4, <2>6, AnswersKept DEF Rest
<1> QED BY <1>2, <1>3 DEF ReadCreated, Fail, Answered, Becomes, At

\* The account answered for fits the profile, hence has one of its addresses.
LEMMA CreateSessionStep ==
  ASSUME IInv, NEW r \in Requests, CreateSession(r)
  PROVE  Rest'
<1>0. /\ req \in [Requests -> InFlight \cup {Idle}]
      /\ signedIn \in [Identities -> SUBSET Ids]
      /\ req[r].at = "session" /\ req[r].profile \in Profile /\ req[r].user \in Ids
      /\ req' = [req EXCEPT ![r] = Idle] /\ Forget(r)
      /\ UNCHANGED <<rows, presented, readdressed, disturbed>>
      /\ Held(req[r]) /\ Fits(req[r]) /\ Presents(req[r])
  BY RequestFields DEF IInv, TypeOK, Rest, Logins, CreateSession, At, Answered, Becomes
<1> PICK i \in Ids : i = req[r].user
  BY <1>0
<1> PICK profile \in Profile : profile = req[r].profile
  BY <1>0
<1>1. Keeps /\ Addressed' /\ SpoiledPasswordExcused' /\ RowHomes'
  BY <1>0, RowsKept
<1>2. Logins'
  BY <1>0, <1>1, LoginsKept DEF Held, Fits, Presents, Idle
<1>3. Images'
  BY <1>0 DEF IInv, Rest, Images, Idle, Forget
<1>4. \/ signedIn' = [signedIn EXCEPT ![profile.identity] = @ \cup {i}]
      \/ signedIn' = signedIn
  BY DEF CreateSession
<1>5. Exists(rows[i]) /\ profile.identity \in Identities
  BY <1>0 DEF Held, Profile
<1>6. ASSUME NoEmail \notin presented[profile.identity], i \notin readdressed
      PROVE  rows[i].email \in presented[profile.identity]
  <2>1. profile.email \in presented[profile.identity] /\ profile.email # NoEmail
    BY <1>0, <1>6 DEF Presents
  <2>2. Belongs(i, profile)
    BY <1>0, <2>1 DEF Fits
  <2>3. CASE rows[i].identity = profile.identity
    BY <1>5, <1>6, <2>3 DEF IInv, Rest, RowHomes
  <2> QED BY <1>6, <2>1, <2>2, <2>3 DEF Belongs
<1>7. AnswerHomes'
  <2>1. \A p \in Identities :
       signedIn'[p] \subseteq signedIn[p] \cup (IF p = profile.identity THEN {i} ELSE {})
    BY <1>0, <1>4
  <2> QED BY <1>0, <1>5, <1>6, <2>1 DEF IInv, Rest, AnswerHomes
<1>8. Fresh'
  BY <1>0, IdleIsFine, FreshAdvanced
<1> QED BY <1>1, <1>2, <1>3, <1>7, <1>8 DEF Rest

-----------------------------------------------------------------------------
(* The steps of the others *)

LEMMA RegisterEmailStep ==
  ASSUME IInv, NEW i \in Ids, NEW e \in Emails, NEW w \in Passwords, RegisterEmail(i, e, w)
  PROVE  Rest'
<1> DEFINE row == [state |-> "live", email |-> e, identity |-> NoIdentity,
                   password |-> Hashed(w)]
<1>1. row \in Account /\ row.password.form = "hashed"
  BY HashedIsSecret DEF Account
<1>2. \A p \in Identities : row.identity # p
  BY NoValueAssumption
<1>3. rows[i] = NoUser /\ rows' = [rows EXCEPT ![i] = row] /\ AddressIsFree(row.email, i)
  BY DEF RegisterEmail
<1>4. UNCHANGED <<req, presented, signedIn, readdressed, disturbed, overtaken>>
  BY DEF RegisterEmail, history
<1>5. Keeps /\ Addressed' /\ Images' /\ SpoiledPasswordExcused' /\ RowHomes' /\ AnswerHomes'
  BY <1>1, <1>2, <1>3, <1>4, InsertKept
<1>6. Logins'
  <2>1. ASSUME NEW r \in Requests PROVE Logins'
    BY <1>4, <1>5, LoginsKept, IdleIsFine DEF Held, Fits, Presents, Idle
  <2> QED BY <2>1 DEF Logins
<1>7. Fresh'
  <2> HIDE DEF row
  <2> QED BY <1>3, <1>4, InsertIsUnseen, FreshKept
<1> QED BY <1>5, <1>6, <1>7 DEF Rest

\* A write of row i outside the logins: the identity stays, a new address is
\* free and noted, a new password is one hash or a disturbed row's, and whoever
\* holds the row is noted.  A request of S has done with its row by that.
LEMMA WriteStep ==
  ASSUME IInv, NEW i \in Ids, NEW row \in Account, Exists(rows[i]), NEW S,
         rows' = [rows EXCEPT ![i] = row], Disturb(i), Overtake(i, S),
         row.identity = rows[i].identity,
         row.email = rows[i].email \/ AddressIsFree(row.email, i),
         readdressed' = readdressed \/ readdressed' = readdressed \cup {i},
         row.email # rows[i].email => i \in readdressed',
         \/ i \in disturbed
         \/ row.password \in {rows[i].password, NoPassword}
         \/ row.password.form = "hashed",
         \/ S = {} /\ req' = req
         \/ \E r \in Requests : S = {r} /\ req' = [req EXCEPT ![r] = Idle],
         UNCHANGED <<presented, signedIn>>
  PROVE  Rest'
<1>0. /\ req \in [Requests -> InFlight \cup {Idle}]
      /\ rows \in [Ids -> Account \cup {NoUser}]
  BY DEF IInv, TypeOK
<1>1. /\ rows'[i] = row /\ Exists(row)
      /\ \A j \in Ids \ {i} : rows'[j] = rows[j]
  BY <1>0, RowOrNone
<1>2. disturbed \subseteq disturbed' /\ (AboutToSave(i) => i \in disturbed')
  BY DEF Disturb
<1>3. Keeps
  BY <1>1, <1>2 DEF Keeps
<1>4. Logins'
  <2>1. ASSUME NEW r \in Requests, req' = req PROVE Logins'
    BY <1>3, <2>1, LoginsKept, IdleIsFine DEF Held, Fits, Presents, Idle
  <2>2. ASSUME NEW r \in Requests, req' = [req EXCEPT ![r] = Idle] PROVE Logins'
    BY <1>3, <2>2, LoginsKept DEF Held, Fits, Presents, Idle
  <2> QED BY <2>1, <2>2 DEF Logins
<1>5. Addressed'
  BY <1>1 DEF IInv, Rest, Addressed, AddressIsFree
<1>6. /\ \A q \in Requests \ S : req'[q] = req[q]
      /\ \A q \in Requests \cap S : req'[q] = Idle
  BY <1>0
<1>7. Images'
  <2>1. ASSUME NEW q \in Requests, req'[q].at \in {"save", "entity"}
        PROVE  q \notin S /\ req'[q] = req[q] /\ req[q].user \in Ids
    BY <1>0, <1>6, <2>1, RequestFields DEF Idle
  <2>2. ASSUME NEW q \in Requests, req'[q].at = "save", req'[q].user \notin disturbed'
        PROVE  req'[q].image = rows'[req'[q].user] /\ q \notin overtaken'
    <3>1. req[q].user # i /\ req[q].user \notin disturbed
      BY <1>2, <2>1, <2>2 DEF AboutToSave, At
    <3>2. ~Holds(q, i)
      BY <2>1, <2>2, <3>1 DEF Holds, At
    <3> QED BY <1>1, <2>1, <2>2, <3>1, <3>2 DEF IInv, Rest, Images, Overtake
  <2> QED BY <1>2, <2>1, <2>2 DEF IInv, Rest, Images
<1>8. SpoiledPasswordExcused'
  BY <1>1, <1>2 DEF IInv, Rest, SpoiledPasswordExcused
<1>9. RowHomes'
  BY <1>1 DEF IInv, Rest, RowHomes
<1>10. Fresh'
  <2>1. \A q \in Requests \cap S : Sees(req[q])'
    BY <1>6 DEF Sees, Idle
  <2>2. \A q \in Requests \ S :
          /\ q \notin overtaken' => q \notin overtaken
          /\ \A j \in Ids : q \notin overtaken' /\ Holds(q, j) => rows'[j] = rows[j]
    BY <1>1 DEF Overtake
  <2> QED BY <1>6, <2>1, <2>2, FreshKept
<1> QED BY <1>3, <1>4, <1>5, <1>7, <1>8, <1>9, <1>10, AnswersKept DEF Rest

LEMMA PatchSteps ==
  ASSUME IInv, NEW i \in Ids,
         \/ \E w \in Passwords : SetsPassword(i, w)
         \/ \E e \in Emails : AdminSetsEmail(i, e)
         \/ Removes(i)
  PROVE  Rest'
<1>0. rows \in [Ids -> Account \cup {NoUser}]
  BY DEF IInv, TypeOK
<1>1. ASSUME NEW w \in Passwords, SetsPassword(i, w) PROVE Rest'
  <2> DEFINE row == [rows[i] EXCEPT !.password = Hashed(w)]
  <2>1. rows[i] \in Account /\ Exists(rows[i])
    BY <1>0, <1>1, RowOrNone DEF SetsPassword
  <2>2. /\ row \in Account /\ row.identity = rows[i].identity
        /\ row.email = rows[i].email /\ row.password.form = "hashed"
    BY <2>1, HashedIsSecret DEF Account
  <2>3. /\ rows' = [rows EXCEPT ![i] = row] /\ Disturb(i) /\ Overtake(i, {})
        /\ UNCHANGED <<req, presented, signedIn, readdressed>>
    BY <1>1 DEF SetsPassword
  <2> HIDE DEF row
  <2> QED BY <2>1, <2>2, <2>3, WriteStep
<1>2. ASSUME NEW e \in Emails, AdminSetsEmail(i, e) PROVE Rest'
  <2> DEFINE row == [rows[i] EXCEPT !.email = e]
  <2>1. rows[i] \in Account /\ Exists(rows[i])
    BY <1>0, <1>2, RowOrNone DEF AdminSetsEmail
  <2>2. /\ row \in Account /\ row.identity = rows[i].identity
        /\ row.email = e /\ row.password = rows[i].password
    BY <2>1 DEF Account
  <2>3. /\ rows' = [rows EXCEPT ![i] = row] /\ Disturb(i) /\ Overtake(i, {})
        /\ AddressIsFree(e, i) /\ readdressed' = readdressed \cup {i}
        /\ UNCHANGED <<req, presented, signedIn>>
    BY <1>2 DEF AdminSetsEmail
  <2> HIDE DEF row
  <2> QED BY <2>1, <2>2, <2>3, WriteStep
<1>3. CASE Removes(i)
  <2> DEFINE row == [rows[i] EXCEPT !.state = "deleted"]
  <2>1. rows[i] \in Account /\ Exists(rows[i])
    BY <1>0, <1>3, RowOrNone DEF Removes
  <2>2. /\ row \in Account /\ row.identity = rows[i].identity
        /\ row.email = rows[i].email /\ row.password = rows[i].password
    BY <2>1 DEF Account
  <2>3. /\ rows' = [rows EXCEPT ![i] = row] /\ Disturb(i) /\ Overtake(i, {})
        /\ UNCHANGED <<req, presented, signedIn, readdressed>>
    BY <1>3 DEF Removes
  <2> HIDE DEF row
  <2> QED BY <2>1, <2>2, <2>3, WriteStep
<1> QED BY <1>1, <1>2, <1>3

\* The e-mail handlers: what they read is a row of now, what they save has the
\* identity of then and a password that was one hash unless the row was spoiled.
LEMMA ReadEntityStep ==
  ASSUME IInv, NEW r \in Requests, NEW i \in Ids, ReadEntity(r, i)
  PROVE  Rest'
<1> DEFINE x == [at |-> "entity", user |-> i, image |-> rows[i]]
<1>0. /\ req \in [Requests -> InFlight \cup {Idle}]
      /\ rows \in [Ids -> Account \cup {NoUser}]
      /\ req' = [req EXCEPT ![r] = x] /\ Live(i)
      /\ UNCHANGED <<rows, presented, signedIn, readdressed, disturbed, overtaken>>
  BY DEF IInv, TypeOK, ReadEntity, Becomes, history
<1>1. Exists(rows[i]) /\ IsLive(rows[i])
  BY <1>0 DEF Live, IsLive, Exists
<1>2. Keeps /\ Addressed' /\ SpoiledPasswordExcused' /\ RowHomes'
  BY <1>0, RowsKept
<1>3. Held(x)' /\ Fits(x)' /\ Presents(x)' /\ Sees(x)
  BY <1>0, <1>1 DEF Held, Fits, Presents, Sees
<1>4. Logins'
  BY <1>0, <1>2, <1>3, LoginsKept
<1>5. Images'
  BY <1>0, <1>1 DEF IInv, Rest, Images, SpoiledPasswordExcused
<1>6. Fresh'
  <2> HIDE DEF x
  <2> QED BY <1>0, <1>3, FreshAdvanced
<1> QED BY <1>0, <1>2, <1>4, <1>5, <1>6, AnswersKept DEF Rest

LEMMA SaveEntityStep ==
  ASSUME IInv, NEW r \in Requests, SaveEntity(r)
  PROVE  Rest'
<1>0. /\ req \in [Requests -> InFlight \cup {Idle}]
      /\ rows \in [Ids -> Account \cup {NoUser}]
      /\ req[r].at = "entity" /\ req[r].user \in Ids /\ req[r].image \in Account
      /\ req' = [req EXCEPT ![r] = Idle]
      /\ UNCHANGED <<presented, signedIn>>
      /\ Held(req[r]) /\ Fits(req[r])
  BY RequestFields DEF IInv, TypeOK, Rest, Logins, SaveEntity, At, Answered, Becomes
<1> PICK i \in Ids : i = req[r].user
  BY <1>0
<1> PICK image \in Account : image = req[r].image
  BY <1>0
<1>1. /\ Exists(rows[i]) /\ image.identity = rows[i].identity
      /\ i \in disturbed \/ image.password = NoPassword \/ image.password.form = "hashed"
  BY <1>0 DEF Held, Fits, IInv, Rest, Images
<1>2. CASE ~AddressIsFree(image.email, i)
  <2>1. Forget(r) /\ UNCHANGED <<rows, readdressed, disturbed>>
    BY <1>2 DEF SaveEntity
  <2>2. Keeps /\ Addressed' /\ SpoiledPasswordExcused' /\ RowHomes'
    BY <1>0, <2>1, RowsKept
  <2>3. Logins'
    BY <1>0, <2>2, LoginsKept DEF Held, Fits, Presents, Idle
  <2>4. Images'
    BY <1>0, <2>1 DEF IInv, Rest, Images, Idle, Forget
  <2>5. Fresh'
    BY <1>0, <2>1, IdleIsFine, FreshAdvanced
  <2> QED BY <1>0, <2>2, <2>3, <2>4, <2>5, AnswersKept DEF Rest
<1>3. CASE AddressIsFree(image.email, i)
  <2>1. /\ Disturb(i) /\ Overtake(i, {r})
        /\ readdressed' = IF image.email # rows[i].email
                            THEN readdressed \cup {i} ELSE readdressed
    BY <1>3 DEF SaveEntity
  <2>2. ASSUME NEW row \in Account, rows' = [rows EXCEPT ![i] = row],
               row.email = image.email, row.identity = image.identity,
               \/ i \in disturbed \/ row.password = NoPassword
               \/ row.password.form = "hashed"
        PROVE  Rest'
    BY <1>0, <1>1, <1>3, <2>1, <2>2, WriteStep
  <2>3. CASE rows' = [rows EXCEPT ![i] = image]
    BY <1>1, <2>2, <2>3
  <2>4. ASSUME NEW w \in Passwords,
               rows' = [rows EXCEPT ![i] = SetPassword([image EXCEPT !.password = Plain(w)],
                                                       LoadedPassword(image))]
        PROVE  Rest'
    <3> PICK row : row = SetPassword([image EXCEPT !.password = Plain(w)],
                                     LoadedPassword(image))
      OBVIOUS
    <3>1. /\ row \in Account
          /\ row.email = image.email /\ row.identity = image.identity
          /\ image.password = NoPassword \/ image.password.form = "hashed"
               => row.password.form = "hashed"
      BY ResetIsRow
    <3> QED BY <1>1, <2>2, <2>4, <3>1
  <2> QED BY <1>3, <2>3, <2>4 DEF SaveEntity
<1> QED BY <1>2, <1>3

LEMMA IInvNext ==
  ASSUME IInv, [Next]_vars
  PROVE  IInv'
<1>1. TypeOK'
  BY TypeOfNext
<1>2. ASSUME NEW r \in Requests,
             \/ \E profile \in Profiles : ReadByEmail(r, profile)
             \/ ReadByIdentity(r) \/ SaveUser(r) \/ CreateUser(r) \/ ReadCreated(r)
             \/ CreateSession(r) \/ SaveEntity(r) \/ Fail(r)
             \/ \E i \in Ids : ReadEntity(r, i)
      PROVE  Rest'
  BY <1>2, ReadByEmailStep, ReadByIdentityStep, SaveUserStep, CreateUserStep,
     ReadCreatedStep, CreateSessionStep, ReadEntityStep, SaveEntityStep
<1>3. ASSUME NEW i \in Ids, NEW e \in Emails, NEW w \in Passwords, RegisterEmail(i, e, w)
      PROVE  Rest'
  BY <1>3, RegisterEmailStep
<1>4. ASSUME NEW i \in Ids,
             \/ \E w \in Passwords : SetsPassword(i, w)
             \/ \E e \in Emails : AdminSetsEmail(i, e)
             \/ Removes(i)
      PROVE  Rest'
  BY <1>4, PatchSteps
<1>5. ASSUME UNCHANGED vars PROVE Rest'
  BY <1>5 DEF vars, IInv, Rest, Logins, Held, Fits, Presents, Belongs, Fresh, Sees, Live,
     Addressed, Images,
     SpoiledPasswordExcused, RowHomes, AnswerHomes
<1> QED BY <1>1, <1>2, <1>3, <1>4, <1>5 DEF IInv, Next

LEMMA Invariance == Spec => []IInv
<1>1. Init => IInv
  BY Initially
<1>2. IInv /\ [Next]_vars => IInv'
  BY IInvNext
<1> QED BY <1>1, <1>2, PTL DEF Spec

-----------------------------------------------------------------------------
(* Theorems *)

\* Every reachable state is well typed.
THEOREM TypeCorrect == Spec => []TypeOK
<1>1. IInv => TypeOK
  BY DEF IInv
<1> QED BY <1>1, Invariance, PTL

\* A profile that always had one address is answered for one account.
THEOREM StableProfilesAreNotSplit == Spec => []StableProfileHasOneAccount
<1>1. IInv => StableProfileHasOneAccount
  <2> SUFFICES ASSUME IInv, NEW p \in Identities, NEW e \in Emails, presented[p] = {e},
                      NEW i \in signedIn[p] \ readdressed, NEW j \in signedIn[p] \ readdressed
               PROVE  i = j
    BY DEF StableProfileHasOneAccount
  <2>1. e # NoEmail
    BY NoValueAssumption
  <2>2. i \in Ids /\ j \in Ids /\ Exists(rows[i]) /\ Exists(rows[j])
    BY DEF IInv, TypeOK, Rest, AnswerHomes
  <2>3. rows[i].email = e /\ rows[j].email = e
    BY <2>1 DEF IInv, Rest, AnswerHomes
  <2> QED BY <2>1, <2>2, <2>3 DEF IInv, Rest, Addressed
<1> QED BY <1>1, Invariance, PTL

\* A login that was not overtaken is answered for a live account of its profile.
THEOREM AnswersFit == Spec => []AnswerFitsTheProfile
<1>1. IInv => AnswerFitsTheProfile
  BY DEF IInv, Rest, Fresh, Sees, AnswerFitsTheProfile, At
<1> QED BY <1>1, Invariance, PTL

\* Only a disturbed row has a password that is hashed twice.
THEOREM SpoiledPasswordsAreExcused == Spec => []SpoiledPasswordExcused
<1>1. IInv => SpoiledPasswordExcused
  BY DEF IInv, Rest
<1> QED BY <1>1, Invariance, PTL

\* A deleted row was deleted after a request read it that holds it to save it.
LEMMA HeldImageIsStale ==
  ASSUME IInv, NEW r \in Requests, req[r].at \in {"save", "entity"}, ~Live(req[r].user)
  PROVE  r \in overtaken /\ IsLive(req[r].image)
BY DEF IInv, Rest, Fresh, Sees, Images

\* Only the save of such a request brings it back.
LEMMA RevivalStep ==
  ASSUME IInv, [Next]_vars, NEW i \in Ids, Exists(rows[i]), ~Live(i), IsLive(rows'[i])
  PROVE  \E r \in overtaken : /\ req[r].at \in {"save", "entity"}
                               /\ req[r].user = i
                               /\ IsLive(req[r].image)
                               /\ req'[r] # req[r]
<1>0. /\ req \in [Requests -> InFlight \cup {Idle}]
      /\ rows \in [Ids -> Account \cup {NoUser}]
  BY DEF IInv, TypeOK
<1>1. rows'[i] # rows[i] /\ rows[i] # NoUser
  BY DEF Live, IsLive, Exists, NoUser
<1>2. ASSUME NEW r \in Requests, SaveUser(r) \/ SaveEntity(r)
      PROVE  /\ r \in overtaken /\ req[r].at \in {"save", "entity"} /\ req[r].user = i
             /\ IsLive(req[r].image) /\ req'[r] # req[r]
  <2>1. req[r].at \in {"save", "entity"} /\ req[r].user \in Ids
    BY <1>0, <1>2, RequestFields DEF SaveUser, SaveEntity, At
  <2>2. \A j \in Ids \ {req[r].user} : rows'[j] = rows[j]
    BY <1>0, <1>2 DEF SaveUser, SaveEntity
  <2>3. req[r].user = i
    BY <1>1, <2>1, <2>2
  <2>4. req'[r].at \notin {"save", "entity"}
    BY <1>0, <1>2 DEF SaveUser, SaveEntity, Becomes, Answered, Idle
  <2> QED BY <2>1, <2>3, <2>4, HeldImageIsStale
<1>3. ASSUME NEW j \in Ids, NEW w \in Passwords, SetsPassword(j, w) PROVE FALSE
  <2>1. rows[j] \in Account
    BY <1>0, <1>3, RowOrNone DEF SetsPassword
  <2> QED BY <1>0, <1>3, <2>1 DEF SetsPassword, Account, Live, IsLive
<1>4. ASSUME NEW j \in Ids, NEW e \in Emails, AdminSetsEmail(j, e) PROVE FALSE
  <2>1. rows[j] \in Account
    BY <1>0, <1>4, RowOrNone DEF AdminSetsEmail
  <2> QED BY <1>0, <1>4, <2>1 DEF AdminSetsEmail, Account, Live, IsLive
<1>5. ASSUME NEW j \in Ids, Removes(j) PROVE FALSE
  <2>1. rows[j] \in Account
    BY <1>0, <1>5, RowOrNone DEF Removes
  <2> QED BY <1>0, <1>5, <2>1 DEF Removes, Live, IsLive, Account
<1>6. ASSUME NEW j \in Ids, NEW row, rows[j] = NoUser, rows' = [rows EXCEPT ![j] = row]
      PROVE  FALSE
  BY <1>0, <1>1, <1>6
<1>7. CASE rows' = rows
  BY <1>1, <1>7
<1>8. ASSUME NEW r \in Requests, CreateUser(r) PROVE FALSE
  BY <1>6, <1>7, <1>8, <1>1 DEF CreateUser
<1>9. ASSUME NEW j \in Ids, NEW e \in Emails, NEW w \in Passwords, RegisterEmail(j, e, w)
      PROVE  FALSE
  BY <1>6, <1>9 DEF RegisterEmail
<1> QED BY <1>2, <1>3, <1>4, <1>5, <1>7, <1>8, <1>9 DEF Next, vars, ReadByEmail, ReadByIdentity,
          ReadCreated, CreateSession, ReadEntity, Fail

\* A deleted account comes back only by the save of a row read before.
THEOREM RevivalsAreStale == Spec => RevivalNeedsStaleImage
<1>1. IInv /\ [Next]_vars =>
        [\A i \in Ids : Exists(rows[i]) /\ ~Live(i) /\ IsLive(rows'[i]) =>
           \E r \in overtaken : /\ req[r].at \in {"save", "entity"}
                                 /\ req[r].user = i
                                 /\ IsLive(req[r].image)
                                 /\ req'[r] # req[r]]_vars
  BY RevivalStep
<1> QED BY <1>1, Invariance, PTL DEF Spec, RevivalNeedsStaleImage
=============================================================================
