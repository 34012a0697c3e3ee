---------------------------- MODULE SocialLogin ----------------------------
(***************************************************************************)
(* AuthService.validateSocialLogin (src/auth/auth.service.ts:129-207),     *)
(* which the four provider controllers call with the profile their         *)
(* provider returned: two reads, then the row is saved, taken or created,  *)
(* and a session is opened.                                                *)
(*                                                                         *)
(* A profile is an identity (provider and socialId) and an e-mail address  *)
(* or none.  The e-mail column is unique over deleted rows too; identities *)
(* have an index and no constraint.  Rows are keyed by id here, because a  *)
(* login or an administrator may change the address of one.  The other     *)
(* writers of these rows are here as far as they write these columns:      *)
(* confirmEmail and resetPassword save a whole row they read before.       *)
(***************************************************************************)
EXTENDS UserEntity

CONSTANTS Ids,         \* values of the id sequence (bound)
          Emails, Identities,
          Profiles,    \* what the providers may return
          Requests,    \* logins and saves of whole rows in flight at once (bound)
          NoEmail, NoIdentity, NoId, NoPassword

ASSUME NoValueAssumption ==
  NoEmail \notin Emails /\ NoIdentity \notin Identities /\ NoId \notin Ids
    /\ NoPassword \notin Secret

Profile == [identity : Identities, email : Emails \cup {NoEmail}]

ASSUME ProfilesAssumption == Profiles \subseteq Profile

VARIABLES
  rows,         \* id -> row of table user, or NoUser
  req,          \* what each request in flight holds at its await
  presented,    \* history: identity -> the addresses its profiles had
  signedIn,     \* history: identity -> the accounts it was answered for, as
                \* long as its profiles have had one and the same address
  readdressed,  \* history: rows whose address was changed after the INSERT
  disturbed,    \* history: rows that a login was about to save when another
                \* statement wrote them, or that a login gave an address
  overtaken     \* requests whose row was written since they read it: to them
                \* updatedAt, if nothing else, differs from what they hold

history == <<presented, signedIn, readdressed, disturbed>>
vars == <<rows, req, presented, signedIn, readdressed, disturbed, overtaken>>

Account == [state : {"live", "deleted"}, email : Emails \cup {NoEmail},
            identity : Identities \cup {NoIdentity},
            password : Secret \cup {NoPassword}]
Idle == [at |-> "idle"]

InFlight ==
  [at : {"identity"}, profile : Profile, byEmail : Ids \cup {NoId}]
  \cup [at : {"save"}, profile : Profile, user : Ids, image : Account]
  \cup [at : {"create"}, profile : Profile]
  \cup [at : {"created", "session"}, profile : Profile, user : Ids]
  \cup [at : {"entity"}, user : Ids, image : Account]

TypeOK ==
  /\ rows \in [Ids -> Account \cup {NoUser}]
  /\ req \in [Requests -> InFlight \cup {Idle}]
  /\ presented \in [Identities -> SUBSET (Emails \cup {NoEmail})]
  /\ signedIn \in [Identities -> SUBSET Ids]
  /\ readdressed \subseteq Ids
  /\ disturbed \subseteq Ids
  /\ overtaken \subseteq Requests

Init ==
  /\ rows = [i \in Ids |-> NoUser]
  /\ req = [r \in Requests |-> Idle]
  /\ presented = [p \in Identities |-> {}]
  /\ signedIn = [p \in Identities |-> {}]
  /\ readdressed = {}
  /\ disturbed = {}
  /\ overtaken = {}

-----------------------------------------------------------------------------
At(r, label) == req[r].at = label
Becomes(r, rec) == req' = [req EXCEPT ![r] = rec]
Answered(r) == Becomes(r, Idle)

Live(i) == IsLive(rows[i])

\* Mutant of FoundByEmail: the address is left out of the where clause.
FoundAnybody(email) == {i \in Ids : Live(i)}

\* findOne({email: socialEmail}): a field that is undefined is not looked at,
\* so without an address any row will do.
FoundByEmail(email) == {i \in Ids : Live(i) /\ email \in {rows[i].email, NoEmail}}

FoundByIdentity(p) == {i \in Ids : Live(i) /\ rows[i].identity = p}

\* What findOne may return.
FirstOf(S) == IF S = {} THEN {NoId} ELSE S

\* The UNIQUE constraint; nulls do not clash.
AddressIsFree(email, i) ==
  \A j \in Ids \ {i} : Exists(rows[j]) /\ email # NoEmail => rows[j].email # email

\* A save of row i is pending somewhere else.
AboutToSave(i) == \E q \in Requests : At(q, "save") /\ req[q].user = i

\* Request q read row i and has not done with it.
Holds(q, i) ==
  \/ At(q, "identity") /\ req[q].byEmail = i
  \/ req[q].at \in {"save", "session", "entity"} /\ req[q].user = i

\* A statement of none of the logins about to save row i writes it.
Disturb(i) == disturbed' = IF AboutToSave(i) THEN disturbed \cup {i} ELSE disturbed

\* Row i is written, and S (the writer, or nobody) knows what is stored now.
Overtake(i, S) == overtaken' = (overtaken \cup {q \in Requests : Holds(q, i)}) \ S

\* Request r reads its row again, or has done with it.
Forget(r) == overtaken' = overtaken \ {r}

\* The profiles of one identity have had one and the same address.
OneAddress(addresses) == \E e \in Emails : addresses = {e}

(* validateSocialLogin ----------------------------------------------------*)

ReadByEmail(r, profile) ==
  /\ At(r, "idle")
  /\ \E found \in FirstOf(FoundByEmail(profile.email)) :
       Becomes(r, [at |-> "identity", profile |-> profile, byEmail |-> found])
  /\ LET p == profile.identity
         addresses == presented[p] \cup {profile.email}
     IN /\ presented' = [presented EXCEPT ![p] = addresses]
        /\ signedIn' = [signedIn EXCEPT ![p] = IF OneAddress(addresses) THEN @ ELSE {}]
  /\ UNCHANGED <<rows, readdressed, disturbed, overtaken>>

\* user.email = socialEmail when there is one that nobody was found by.
WithAddress(image, email, byEmail) ==
  IF email # NoEmail /\ byEmail = NoId THEN [image EXCEPT !.email = email] ELSE image

\* Mutant of ReadByIdentity: the second read is left out.
TakeByEmail(r) ==
  /\ At(r, "identity")
  /\ Becomes(r, [at |-> "session", profile |-> req[r].profile, user |-> req[r].byEmail])
  /\ UNCHANGED <<rows, history, overtaken>>

ReadByIdentity(r) ==
  /\ At(r, "identity")
  /\ LET profile == req[r].profile
         byEmail == req[r].byEmail
         found == FoundByIdentity(profile.identity)
     IN \/ \E i \in found :
             LET image == WithAddress(rows[i], profile.email, byEmail) IN
               /\ Becomes(r, [at |-> "save", profile |-> profile, user |-> i,
                              image |-> image])
               /\ disturbed' = IF image # rows[i] THEN disturbed \cup {i} ELSE disturbed
               /\ Forget(r)
        \/ /\ found = {} /\ byEmail # NoId
           /\ Becomes(r, [at |-> "session", profile |-> profile, user |-> byEmail])
           /\ UNCHANGED <<disturbed, overtaken>>
        \/ /\ found = {} /\ byEmail = NoId
           /\ Becomes(r, [at |-> "create", profile |-> profile])
           /\ UNCHANGED <<disturbed, overtaken>>
  /\ UNCHANGED <<rows, presented, signedIn, readdressed>>

\* Mutant of SavedCopy: the hook runs although nothing differs.
SavedAlways(image, stored, differs) ==
  IF image.password = NoPassword THEN image ELSE SetPassword(image, NoPassword)

\* usersService.update(user.id, user): create() copies the columns of the loaded
\* row but not its previousPassword.  Nothing is written when nothing differs;
\* otherwise every differing column is, and the hook takes the stored hash for
\* a new password.
SavedCopy(image, stored, differs) ==
  IF ~differs THEN stored
  ELSE IF image.password = NoPassword THEN image
  ELSE SetPassword(image, NoPassword)

SaveUser(r) ==
  /\ At(r, "save")
  /\ LET i == req[r].user
         image == req[r].image
         differs == image # rows[i] \/ r \in overtaken
     IN \/ /\ AddressIsFree(image.email, i)
           /\ rows' = [rows EXCEPT ![i] = SavedCopy(image, @, differs)]
           /\ readdressed' = IF image.email # rows[i].email
                               THEN readdressed \cup {i} ELSE readdressed
           /\ disturbed' = IF differs /\ \E q \in Requests \ {r} :
                                   At(q, "save") /\ req[q].user = i
                             THEN disturbed \cup {i} ELSE disturbed
           /\ IF differs THEN Overtake(i, {r}) ELSE Forget(r)
           /\ Becomes(r, [at |-> "session", profile |-> req[r].profile, user |-> i])
        \/ /\ ~AddressIsFree(image.email, i)
           /\ Answered(r)
           /\ Forget(r)
           /\ UNCHANGED <<rows, readdressed, disturbed>>
  /\ UNCHANGED <<presented, signedIn>>

\* Mutant of CreateUser: the address of the profile is not stored.
CreateWithoutAddress(r) ==
  /\ At(r, "create")
  /\ \E i \in Ids :
       /\ rows[i] = NoUser
       /\ rows' = [rows EXCEPT ![i] =
                     [state |-> "live", email |-> NoEmail,
                      identity |-> req[r].profile.identity, password |-> NoPassword]]
       /\ Becomes(r, [at |-> "created", profile |-> req[r].profile, user |-> i])
  /\ UNCHANGED <<history, overtaken>>

\* usersService.create: a row with the identity and no password.
CreateUser(r) ==
  /\ At(r, "create")
  /\ LET profile == req[r].profile IN
       \/ \E i \in Ids :
            /\ rows[i] = NoUser
            /\ AddressIsFree(profile.email, i)
            /\ rows' = [rows EXCEPT ![i] =
                          [state |-> "live", email |-> profile.email,
                           identity |-> profile.identity, password |-> NoPassword]]
            /\ Becomes(r, [at |-> "created", profile |-> profile, user |-> i])
       \/ /\ ~AddressIsFree(profile.email, NoId)
          /\ Answered(r)
          /\ UNCHANGED rows
  /\ UNCHANGED <<history, overtaken>>

\* findOne({id}), or 422 userNotFound.
ReadCreated(r) ==
  /\ At(r, "created")
  /\ IF Live(req[r].user) THEN Becomes(r, [req[r] EXCEPT !.at = "session"])
                          ELSE Answered(r)
  /\ UNCHANGED <<rows, history, overtaken>>

\* sessionService.create, tokens, answer.
CreateSession(r) ==
  /\ At(r, "session")
  /\ LET p == req[r].profile.identity IN
       signedIn' = IF OneAddress(presented[p])
                     THEN [signedIn EXCEPT ![p] = @ \cup {req[r].user}] ELSE signedIn
  /\ Answered(r)
  /\ Forget(r)
  /\ UNCHANGED <<rows, presented, readdressed, disturbed>>

(* who else writes the rows -----------------------------------------------*)

\* register (its own races are in AuthService).
RegisterEmail(i, e, w) ==
  /\ rows[i] = NoUser
  /\ AddressIsFree(e, i)
  /\ rows' = [rows EXCEPT ![i] = [state |-> "live", email |-> e,
                                  identity |-> NoIdentity, password |-> Hashed(w)]]
  /\ UNCHANGED <<req, history, overtaken>>

\* What confirmEmail and resetPassword hold when they are about to save: a whole
\* row, as it was read.
ReadEntity(r, i) ==
  /\ At(r, "idle")
  /\ Live(i)
  /\ Becomes(r, [at |-> "entity", user |-> i, image |-> rows[i]])
  /\ UNCHANGED <<rows, history, overtaken>>

\* user.save(): every column that differs from the stored row goes back to what
\* was read.  confirmEmail writes none of the columns kept here, resetPassword a
\* new password, for an account that had an address to send the link to.
SaveEntity(r) ==
  /\ At(r, "entity")
  /\ LET i == req[r].user
         image == req[r].image
     IN \/ /\ AddressIsFree(image.email, i)
           /\ \/ rows' = [rows EXCEPT ![i] = image]
              \/ /\ image.email # NoEmail \/ i \in readdressed
                 /\ \E w \in Passwords :
                      rows' = [rows EXCEPT ![i] =
                                 SetPassword([image EXCEPT !.password = Plain(w)],
                                             LoadedPassword(image))]
           /\ readdressed' = IF image.email # rows[i].email
                               THEN readdressed \cup {i} ELSE readdressed
           /\ Disturb(i)
           /\ Overtake(i, {r})
        \/ /\ ~AddressIsFree(image.email, i)
           /\ Forget(r)
           /\ UNCHANGED <<rows, readdressed, disturbed>>
  /\ Answered(r)
  /\ UNCHANGED <<presented, signedIn>>

\* Mutant of SetsPassword: the payload is a whole entity, deletedAt null.
SetsWholeRow(i, w) ==
  /\ Exists(rows[i])
  /\ rows' = [rows EXCEPT ![i].password = Hashed(w), ![i].state = "live"]
  /\ Disturb(i)
  /\ Overtake(i, {})
  /\ UNCHANGED <<req, presented, signedIn, readdressed>>

\* PATCH users/:id with a password: a partial save, which reaches a row that was
\* deleted as well.
SetsPassword(i, w) ==
  /\ Exists(rows[i])
  /\ rows' = [rows EXCEPT ![i].password = Hashed(w)]
  /\ Disturb(i)
  /\ Overtake(i, {})
  /\ UNCHANGED <<req, presented, signedIn, readdressed>>

\* PATCH users/:id with an address that is free.
AdminSetsEmail(i, e) ==
  /\ Exists(rows[i])
  /\ rows[i].email # e
  /\ AddressIsFree(e, i)
  /\ rows' = [rows EXCEPT ![i].email = e]
  /\ readdressed' = readdressed \cup {i}
  /\ Disturb(i)
  /\ Overtake(i, {})
  /\ UNCHANGED <<req, presented, signedIn>>

\* DELETE users/:id or auth/me; once more does no harm, but is a write.
Removes(i) ==
  /\ Exists(rows[i])
  /\ rows' = [rows EXCEPT ![i].state = "deleted"]
  /\ Disturb(i)
  /\ Overtake(i, {})
  /\ UNCHANGED <<req, presented, signedIn, readdressed>>

\* The awaited call rejects, or the process restarts.
Fail(r) ==
  /\ ~At(r, "idle")
  /\ Answered(r)
  /\ Forget(r)
  /\ UNCHANGED <<rows, history>>

Next ==
  \/ \E r \in Requests, profile \in Profiles : ReadByEmail(r, profile)
  \/ \E r \in Requests :
       \/ ReadByIdentity(r) \/ SaveUser(r) \/ CreateUser(r) \/ ReadCreated(r)
       \/ CreateSession(r) \/ SaveEntity(r) \/ Fail(r)
  \/ \E r \in Requests, i \in Ids : ReadEntity(r, i)
  \/ \E i \in Ids, e \in Emails, w \in Passwords : RegisterEmail(i, e, w)
  \/ \E i \in Ids, w \in Passwords : SetsPassword(i, w)
  \/ \E i \in Ids, e \in Emails : AdminSetsEmail(i, e)
  \/ \E i \in Ids : Removes(i)

Spec == Init /\ [][Next]_vars
-----------------------------------------------------------------------------
(* Properties *)

\* Somebody whose provider always gave the same address is always answered for
\* one and the same account, although socialId has no unique constraint: races,
\* failures, deletions and revivals never split a profile.  Accounts whose
\* address was changed are left out.
StableProfileHasOneAccount ==
  \A p \in Identities : \A e \in Emails : presented[p] = {e} =>
    \A i, j \in signedIn[p] \ readdressed : i = j

\* The account a login is about to be answered for is not deleted, and has the
\* identity of the profile or, if the profile has one, its address, whatever was
\* written to other rows and to this one before the login last read or saved it.
\* A login that another statement overtook after that has no such promise.
AnswerFitsTheProfile ==
  \A r \in Requests \ overtaken : At(r, "session") =>
    LET i == req[r].user
        profile == req[r].profile
    IN Live(i) /\ (\/ rows[i].identity = profile.identity
                   \/ profile.email \in {rows[i].email, NoEmail})

\* A stored password stays usable, one hash of what was typed, unless a login
\* was about to save the row when something else wrote it, or gave it an
\* address (user.entity.ts:54 is there to hash a password only once).
SpoiledPasswordExcused ==
  \A i \in Ids :
    Exists(rows[i]) /\ rows[i].password # NoPassword /\ i \notin disturbed
      => rows[i].password.form = "hashed"

\* A deleted account comes back only by the save of a whole row, by a login,
\* confirmEmail or resetPassword, that was read before the deletion; registering,
\* a new login of the profile or a partial save never does.
RevivalNeedsStaleImage ==
  [][\A i \in Ids : Exists(rows[i]) /\ ~Live(i) /\ IsLive(rows'[i]) =>
       \E r \in overtaken : /\ req[r].at \in {"save", "entity"}
                             /\ req[r].user = i
                             /\ IsLive(req[r].image)
                             /\ req'[r] # req[r]]_vars
=============================================================================
