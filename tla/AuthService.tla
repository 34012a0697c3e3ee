----------------------------- MODULE AuthService -----------------------------
(***************************************************************************)
(* The e-mail half of authentication: src/auth/auth.service.ts with the    *)
(* session, forgot and users services it calls, the strategies and         *)
(* validators in front of it, and the administrator's routes of            *)
(* src/users/users.controller.ts that write the same rows: the columns     *)
(* these handlers read, a column at a time, since a PATCH that carries     *)
(* several is as good as one PATCH for each.  A null password is left out. *)
(*                                                                         *)
(* A handler is a JavaScript coroutine: between two awaits nothing else    *)
(* runs, at an await anything may.  Every action is the code from one      *)
(* database statement (or mail, or signature) up to the next; what the     *)
(* handler holds in between is the record req[r], and req[r].at names the  *)
(* statement it is about to run.  A handler whose first read already       *)
(* refuses the request changes nothing and has no action.                  *)
(*                                                                         *)
(* Users are identified by e-mail address: the column is unique over the   *)
(* soft-deleted rows too and no modelled route changes it, so there is at  *)
(* most one row per address for ever.                                      *)
(***************************************************************************)
EXTENDS UserEntity

CONSTANTS Emails,        \* addresses people register with
          Sessions,      \* the ids the session table may hand out (bound)
          Hashes,        \* the reset hashes that may be drawn (bound)
          Requests,      \* requests that may be in flight at once (bound)
          Seeded,        \* addresses with an active row from the start
          SeedPassword,  \* the password those rows have
          NoUserId       \* the owner of a session id not handed out yet

ASSUME SeedAssumption == Seeded \subseteq Emails /\ SeedPassword \in Passwords
ASSUME KeysAssumption == Emails \cap Hashes = {} /\ NoUserId \notin Emails

VARIABLES
  users,      \* e-mail -> UserRow, or NoUser
  sessions,   \* session id -> FreeId or a row; "seen" is the password the
              \* holder proved or set last (a history field, not a column)
  forgots,    \* reset hash -> FreeId or a row
  mail,       \* addresses whose pin, and hashes that, reached a mailbox; a pin
              \* that was replaced there is no longer counted
  access,     \* sessions with an unexpired access token
  refresh,    \* sessions with a refresh token (these live for ten years)
  req,        \* what each in-flight request holds at its await
  excused     \* history: sessions that escaped a password change, see below

vars == <<users, sessions, forgots, mail, access, refresh, req, excused>>

FreeId == [state |-> "free"]
Idle == [at |-> "idle"]

SessionRow == [state : {"live", "dead"}, user : Emails, seen : Passwords]
ForgotRow == [state : {"live", "dead"}, user : Emails]

InFlight ==
  [at : {"register.insert"}, user : Emails, word : Passwords]
  \cup [at : {"register.mail"}, user : Emails]
  \cup [at : {"confirm.save"}, user : Emails, image : UserRow]
  \cup [at : {"login.create"}, user : Emails, seen : Passwords]
  \cup [at : {"sign"}, presented : Sessions, session : Sessions]
  \cup [at : {"forgot.create"}, user : Emails]
  \cup [at : {"forgot.mail"}, user : Emails, hash : Hashes]
  \cup [at : {"reset.revoke", "reset.save"}, user : Emails, image : UserRow,
        hash : Hashes, word : Passwords]
  \cup [at : {"reset.consume"}, hash : Hashes]
  \cup [at : {"update.revoke", "update.save"}, user : Emails, own : Sessions,
        word : Passwords]

TypeOK ==
  /\ users \in [Emails -> UserRow \cup {NoUser}]
  /\ sessions \in [Sessions -> SessionRow \cup {FreeId}]
  /\ forgots \in [Hashes -> ForgotRow \cup {FreeId}]
  /\ mail \subseteq Emails \cup Hashes
  /\ access \subseteq Sessions
  /\ refresh \subseteq Sessions
  /\ req \in [Requests -> InFlight \cup {Idle}]
  /\ excused \subseteq Sessions

Init ==
  /\ users = [e \in Emails |->
       IF e \in Seeded
         THEN [state |-> "live", status |-> "active",
               password |-> Hashed(SeedPassword), pin |-> "null"]
         ELSE NoUser]
  /\ sessions = [s \in Sessions |-> FreeId]
  /\ forgots = [h \in Hashes |-> FreeId]
  /\ mail = {}
  /\ access = {}
  /\ refresh = {}
  /\ req = [r \in Requests |-> Idle]
  /\ excused = {}

-----------------------------------------------------------------------------
At(r, label) == req[r].at = label
Becomes(r, rec) == req' = [req EXCEPT ![r] = rec]
Answered(r) == Becomes(r, Idle)

Current(e) == users[e].password.word
OpenSessions(e) ==
  {s \in Sessions : sessions[s].state = "live" /\ sessions[s].user = e}

\* Mutants of Revoke: nothing is closed; the rows are deleted for good.
RevokeNothing(S) == sessions' = sessions
RevokeByDelete(S) ==
  sessions' = [s \in Sessions |-> IF s \in S THEN FreeId ELSE sessions[s]]

\* sessionService.softDelete: one UPDATE over the rows that match.
Revoke(S) ==
  sessions' = [s \in Sessions |->
                 IF s \in S THEN [sessions[s] EXCEPT !.state = "dead"]
                            ELSE sessions[s]]

\* A password change of e has closed e's sessions and not written yet.
ChangePending(e) ==
  \E r \in Requests : req[r].at \in {"reset.save", "update.save"} /\ req[r].user = e

(* register ---------------------------------------------------------------*)

\* IsNotExist, which findOne's only live rows, then the draw of pin and hash.
RegisterValidate(r, e, w) ==
  /\ At(r, "idle")
  /\ ~IsLive(users[e])
  /\ Becomes(r, [at |-> "register.insert", user |-> e, word |-> w])
  /\ UNCHANGED <<users, sessions, forgots, mail, access, refresh, excused>>

\* The INSERT; a row of that address, deleted or not, is a unique violation.
RegisterInsert(r) ==
  /\ At(r, "register.insert")
  /\ LET e == req[r].user IN
       \/ /\ ~Exists(users[e])
          /\ users' = [users EXCEPT ![e] = Inserted(req[r].word, "inactive", "plain")]
          /\ Becomes(r, [at |-> "register.mail", user |-> e])
       \/ /\ Exists(users[e])
          /\ Answered(r)
          /\ UNCHANGED users
  /\ UNCHANGED <<sessions, forgots, mail, access, refresh, excused>>

RegisterMail(r) ==
  /\ At(r, "register.mail")
  /\ mail' = mail \cup {req[r].user}
  /\ Answered(r)
  /\ UNCHANGED <<users, sessions, forgots, access, refresh, excused>>

(* confirmEmail -----------------------------------------------------------*)

\* The pin of a registration is known once it was delivered, the one that an
\* administrator chose to him; a null, used ('') or re-hashed pin matches neither.
ConfirmRead(r, e) ==
  /\ At(r, "idle")
  /\ IsLive(users[e])
  /\ users[e].status # "active"
  /\ PinMatches(users[e].pin)
  /\ e \in mail \/ users[e].pin = "chosen"
  /\ Becomes(r, [at |-> "confirm.save", user |-> e, image |-> users[e]])
  /\ UNCHANGED <<users, sessions, forgots, mail, access, refresh, excused>>

Confirmed(image) == [image EXCEPT !.status = "active", !.pin = "blank"]

\* user.save() of the row as it was read: if the password changed meanwhile,
\* the old one is written back over it.
ConfirmSave(r) ==
  /\ At(r, "confirm.save")
  /\ LET e == req[r].user
         image == req[r].image
     IN /\ users' = [users EXCEPT ![e] =
                       Saved(Confirmed(image), LoadedPassword(image), @)]
        /\ excused' = IF image.password.word = Current(e)
                        THEN excused ELSE excused \cup OpenSessions(e)
  /\ Answered(r)
  /\ UNCHANGED <<sessions, forgots, mail, access, refresh>>

(* validateLogin ----------------------------------------------------------*)

\* The two login routes differ in the roles they admit; every role has one.
LoginRead(r, e, w) ==
  /\ At(r, "idle")
  /\ IsLive(users[e])
  /\ Compare(w, users[e].password)
  /\ Becomes(r, [at |-> "login.create", user |-> e, seen |-> w])
  /\ UNCHANGED <<users, sessions, forgots, mail, access, refresh, excused>>

\* INSERT of the session.  It is excused when the password that was checked is
\* no longer, or is about to stop being, the user's.
LoginCreate(r, s) ==
  /\ At(r, "login.create")
  /\ sessions[s] = FreeId
  /\ LET e == req[r].user IN
       /\ sessions' = [sessions EXCEPT ![s] =
                         [state |-> "live", user |-> e, seen |-> req[r].seen]]
       /\ excused' = IF req[r].seen # Current(e) \/ ChangePending(e)
                       THEN excused \cup {s} ELSE excused
  /\ Becomes(r, [at |-> "sign", presented |-> s, session |-> s])
  /\ UNCHANGED <<users, forgots, mail, access, refresh>>

\* getTokensData, for a login and for a refresh.
SignTokens(r) ==
  /\ At(r, "sign")
  /\ access' = access \cup {req[r].session}
  /\ refresh' = refresh \cup {req[r].session}
  /\ Answered(r)
  /\ UNCHANGED <<users, sessions, forgots, mail, excused>>

(* refreshToken -----------------------------------------------------------*)

\* Mutant of FoundByRefresh: withDeleted.
FoundWithDeleted(presented) == {s \in Sessions : sessions[s].state # "free"}

\* The controller passes the session id where an object with a sessionId is
\* read, so the where clause is {id: undefined}: any row that is not deleted.
FoundByRefresh(presented) == {s \in Sessions : sessions[s].state = "live"}

RefreshRead(r, presented) ==
  /\ At(r, "idle")
  /\ presented \in refresh
  /\ \E s \in FoundByRefresh(presented) :
       /\ IsLive(users[sessions[s].user])
       /\ Becomes(r, [at |-> "sign", presented |-> presented, session |-> s])
  /\ UNCHANGED <<users, sessions, forgots, mail, access, refresh, excused>>

(* forgotPassword ---------------------------------------------------------*)

ForgotRead(r, e) ==
  /\ At(r, "idle")
  /\ IsLive(users[e])
  /\ Becomes(r, [at |-> "forgot.create", user |-> e])
  /\ UNCHANGED <<users, sessions, forgots, mail, access, refresh, excused>>

ForgotCreate(r, h) ==
  /\ At(r, "forgot.create")
  /\ forgots[h] = FreeId
  /\ forgots' = [forgots EXCEPT ![h] = [state |-> "live", user |-> req[r].user]]
  /\ Becomes(r, [at |-> "forgot.mail", user |-> req[r].user, hash |-> h])
  /\ UNCHANGED <<users, sessions, mail, access, refresh, excused>>

ForgotMail(r) ==
  /\ At(r, "forgot.mail")
  /\ mail' = mail \cup {req[r].hash}
  /\ Answered(r)
  /\ UNCHANGED <<users, sessions, forgots, access, refresh, excused>>

(* resetPassword ----------------------------------------------------------*)

\* The row found by its hash brings its user along; a deleted user is null
\* there and the handler throws before its first write.
ResetRead(r, h, w) ==
  /\ At(r, "idle")
  /\ h \in mail
  /\ forgots[h].state = "live"
  /\ LET e == forgots[h].user IN
       /\ IsLive(users[e])
       /\ Becomes(r, [at |-> "reset.revoke", user |-> e, image |-> users[e],
                      hash |-> h, word |-> w])
  /\ UNCHANGED <<users, sessions, forgots, mail, access, refresh, excused>>

ResetRevoke(r) ==
  /\ At(r, "reset.revoke")
  /\ Revoke(OpenSessions(req[r].user))
  /\ Becomes(r, [req[r] EXCEPT !.at = "reset.save"])
  /\ UNCHANGED <<users, forgots, mail, access, refresh, excused>>

\* user.save() of the row as it came with the forgot row, new password set.
ResetSave(r) ==
  /\ At(r, "reset.save")
  /\ LET image == req[r].image IN
       users' = [users EXCEPT ![req[r].user] =
                   Saved([image EXCEPT !.password = Plain(req[r].word)],
                         LoadedPassword(image), @)]
  /\ Becomes(r, [at |-> "reset.consume", hash |-> req[r].hash])
  /\ UNCHANGED <<sessions, forgots, mail, access, refresh, excused>>

ResetConsume(r) ==
  /\ At(r, "reset.consume")
  /\ forgots' = [forgots EXCEPT ![req[r].hash].state = "dead"]
  /\ Answered(r)
  /\ UNCHANGED <<users, sessions, mail, access, refresh, excused>>

(* update (PATCH auth/me) -------------------------------------------------*)

\* The strategy trusts the unexpired token alone; the session may be closed.
UpdateRead(r, s, old, new) ==
  /\ At(r, "idle")
  /\ s \in access
  /\ LET e == sessions[s].user IN
       /\ IsLive(users[e])
       /\ Compare(old, users[e].password)
       /\ Becomes(r, [at |-> "update.revoke", user |-> e, own |-> s, word |-> new])
  /\ UNCHANGED <<users, sessions, forgots, mail, access, refresh, excused>>

UpdateRevoke(r) ==
  /\ At(r, "update.revoke")
  /\ Revoke(OpenSessions(req[r].user) \ {req[r].own})
  /\ Becomes(r, [req[r] EXCEPT !.at = "update.save"])
  /\ UNCHANGED <<users, forgots, mail, access, refresh, excused>>

\* The partial save also reaches a row deleted since; own's holder has now set
\* the password the session stands for.
UpdateSave(r) ==
  /\ At(r, "update.save")
  /\ users' = [users EXCEPT ![req[r].user] = PatchedPassword(@, req[r].word)]
  /\ sessions' = [sessions EXCEPT ![req[r].own].seen = req[r].word]
  /\ Answered(r)
  /\ UNCHANGED <<forgots, mail, access, refresh, excused>>

(* one-statement routes ---------------------------------------------------*)

Logout(s) ==
  /\ s \in access
  /\ Revoke({s})
  /\ UNCHANGED <<users, forgots, mail, access, refresh, req, excused>>

\* DELETE auth/me: the row is soft-deleted, its sessions are left alone.
DeleteMe(s) ==
  /\ s \in access
  /\ users' = [users EXCEPT ![sessions[s].user].state = "deleted"]
  /\ UNCHANGED <<sessions, forgots, mail, access, refresh, req, excused>>

\* POST users: IsNotExist lets pass what the INSERT does not refuse either, and
\* refuses no more than that.
AdminCreates(e, w, status, pin) ==
  /\ ~Exists(users[e])
  /\ users' = [users EXCEPT ![e] = Inserted(w, status, pin)]
  /\ UNCHANGED <<sessions, forgots, mail, access, refresh, req, excused>>

\* PATCH users/:id with a password.  No session of the user is closed.
AdminSetsPassword(e, w) ==
  /\ Exists(users[e])
  /\ users' = [users EXCEPT ![e] = PatchedPassword(@, w)]
  /\ excused' = excused \cup OpenSessions(e)
  /\ UNCHANGED <<sessions, forgots, mail, access, refresh, req>>

\* PATCH users/:id with a status.
AdminSetsStatus(e, status) ==
  /\ Exists(users[e])
  /\ users' = [users EXCEPT ![e] = PatchedStatus(@, status)]
  /\ UNCHANGED <<sessions, forgots, mail, access, refresh, req, excused>>

\* PATCH users/:id with a pin, the same one again or another, or null: the hook
\* hashes it, and the account can be confirmed with it, whatever was mailed.
AdminSetsPin(e, pin) ==
  /\ Exists(users[e])
  /\ users' = [users EXCEPT ![e] = PatchedPin(@, pin)]
  /\ mail' = mail \ {e}
  /\ UNCHANGED <<sessions, forgots, access, refresh, req, excused>>

\* DELETE users/:id.
AdminRemoves(e) ==
  /\ Exists(users[e])
  /\ users' = [users EXCEPT ![e].state = "deleted"]
  /\ UNCHANGED <<sessions, forgots, mail, access, refresh, req, excused>>

(* the environment --------------------------------------------------------*)

\* fifteen minutes, or whatever auth.expires says.
AccessExpires(s) ==
  /\ s \in access
  /\ access' = access \ {s}
  /\ UNCHANGED <<users, sessions, forgots, mail, refresh, req, excused>>

\* The awaited call rejects (database, mail server), or the process restarts:
\* nothing a handler wrote is undone, and nothing else of it happens.
Fail(r) ==
  /\ ~At(r, "idle")
  /\ Answered(r)
  /\ UNCHANGED <<users, sessions, forgots, mail, access, refresh, excused>>

-----------------------------------------------------------------------------
Receive(r) ==
  \/ \E e \in Emails, w \in Passwords : RegisterValidate(r, e, w) \/ LoginRead(r, e, w)
  \/ \E e \in Emails : ConfirmRead(r, e) \/ ForgotRead(r, e)
  \/ \E h \in Hashes, w \in Passwords : ResetRead(r, h, w)
  \/ \E s \in Sessions : RefreshRead(r, s)
  \/ \E s \in Sessions, old, new \in Passwords : UpdateRead(r, s, old, new)

Advance(r) ==
  \/ RegisterInsert(r) \/ RegisterMail(r) \/ ConfirmSave(r)
  \/ \E s \in Sessions : LoginCreate(r, s)
  \/ SignTokens(r)
  \/ \E h \in Hashes : ForgotCreate(r, h)
  \/ ForgotMail(r)
  \/ ResetRevoke(r) \/ ResetSave(r) \/ ResetConsume(r)
  \/ UpdateRevoke(r) \/ UpdateSave(r)

AtOnce ==
  \/ \E s \in Sessions : Logout(s) \/ DeleteMe(s)
  \/ \E e \in Emails, w \in Passwords : AdminSetsPassword(e, w)
  \/ \E e \in Emails, status \in {"active", "inactive"} : AdminSetsStatus(e, status)
  \/ \E e \in Emails, pin \in DtoPins : AdminSetsPin(e, pin)
  \/ \E e \in Emails, w \in Passwords, status \in {"active", "inactive"}, pin \in DtoPins :
       AdminCreates(e, w, status, pin)
  \/ \E e \in Emails : AdminRemoves(e)

Next ==
  \/ \E r \in Requests : Receive(r) \/ Advance(r) \/ Fail(r)
  \/ AtOnce
  \/ \E s \in Sessions : AccessExpires(s)

Spec == Init /\ [][Next]_vars

\* Every awaited promise settles, one way or the other, and tokens expire.
Fairness ==
  /\ \A r \in Requests : WF_vars(Advance(r) \/ Fail(r))
  /\ \A s \in Sessions : WF_vars(AccessExpires(s))

FairSpec == Spec /\ Fairness
-----------------------------------------------------------------------------
(* Properties *)

\* A session that is still open was opened, or kept, with the password its
\* user has now.  The exceptions are exactly these, and "excused" collects
\* them where they happen: a login whose checked password was replaced before
\* its session row was inserted, or is being replaced by a change that has
\* closed the sessions already; a password set by an administrator, which
\* closes nothing; and a confirmation that writes an old password back.  (The
\* sessionService.softDelete calls of resetPassword and update are there for
\* this, auth.service.ts:402 and 455.)
StaleSessionExcused ==
  \A s \in Sessions :
    sessions[s].state = "live" /\ s \notin excused
      => sessions[s].seen = Current(sessions[s].user)

\* Whatever mixture of whole-row and partial saves runs, a stored password is
\* one bcrypt hash of what was typed, so that its owner can log in with it, and
\* no pin is stored as it was mailed or typed (the hooks of user.entity.ts:52-68).
SecretsHashed ==
  \A e \in Emails : Exists(users[e]) =>
    users[e].password.form = "hashed" /\ users[e].pin \notin {"plain", "typed"}

\* Once a pin has confirmed its account, or has stopped matching, no pin of that
\* account matches until an administrator writes one (create-user.dto.ts:33-36):
\* not even a handler that read the row before the confirmation and saves it
\* afterwards makes the pin usable a second time, nor does a registration of
\* the address again.
PinIsSingleUse ==
  [][\A e \in Emails :
       Exists(users[e]) /\ ~PinMatches(users[e].pin) /\ PinMatches(users'[e].pin)
         => AdminSetsPin(e, "typed")]_vars

\* An account that was deleted comes back only by a save() of confirmEmail or
\* resetPassword that had read the row before the deletion; no other handler,
\* registering the address again included, revives it.
ResurrectionNeedsStaleImage ==
  [][\A e \in Emails :
       users[e].state = "deleted" /\ users'[e].state # "deleted"
         => \E r \in Requests : /\ req[r].at \in {"confirm.save", "reset.save"}
                                /\ req[r].user = e
                                /\ req[r].image.state = "live"
                                /\ req'[r] # req[r]]_vars

\* What the session table promises: see SessionLedger.
Ledger == INSTANCE SessionLedger WITH
  Owners <- Emails,
  NoOwner <- NoUserId,
  ledger <- [s \in Sessions |->
               IF sessions[s].state = "live" THEN "open"
               ELSE IF sessions[s].state = "dead" THEN "closed" ELSE "free"],
  owner <- [s \in Sessions |->
              IF sessions[s].state = "free" THEN NoUserId ELSE sessions[s].user],
  granting <- {s \in Sessions :
                 \E r \in Requests : req[r].at = "sign" /\ req[r].session = s}

\* The handlers implement the ledger: ids are not reused, owners do not change,
\* a closed session stays closed, and a token is issued only for a session that
\* was open when the request that issues it looked it up.
ImplementsLedger == Ledger!Spec

\* A closed session stops granting anything: once the requests that had already
\* picked it have answered and its tokens have expired, no access token for it
\* exists again (a refresh token lives on, but finds nothing to refresh).
RevokedSessionFadesOut ==
  \A s \in Sessions : sessions[s].state = "dead" ~> [](s \notin access)

\* A refresh answers with tokens of the session whose refresh token it was
\* given, as the parameter's type says (auth.service.ts:483).
RefreshKeepsSession ==
  \A r \in Requests : At(r, "sign") => req[r].session = req[r].presented

\* The pin in a mailbox confirms the account for as long as nobody has used it,
\* erased it or put another one in its place ("Simply click ... to verify your
\* email address", confirm-email.json:4).
MailedPinConfirms ==
  \A e \in Emails :
    e \in mail /\ IsLive(users[e]) /\ users[e].status = "inactive"
      /\ users[e].pin \notin {"null", "blank"} => PinMatches(users[e].pin)
=============================================================================
