-------------------------- MODULE AuthServiceProofs --------------------------
(***************************************************************************)
(* Proofs about AuthService for every set of addresses, passwords, session *)
(* ids, hashes and requests.  The inductive invariant is built in three    *)
(* layers, each relative to the ones before it:                            *)
(*   Base     types, and every id a handler or a token holds names a row;  *)
(*   Hashing  what is stored, and what a handler read, is hashed once;     *)
(*   Staleness  the open sessions of a user whose password is about to     *)
(*            be replaced are excused, the others carry the password.      *)
(***************************************************************************)
EXTENDS AuthService, TLAPS

\* Ids held by tokens and by handlers name rows that exist (rows are never
\* removed, a deletion only marks them).
References ==
  /\ \A s \in access \cup refresh : sessions[s].state # "free"
  /\ \A s \in Sessions :
       sessions[s].state # "free" => Exists(users[sessions[s].user])
  /\ \A r \in Requests :
       /\ req[r].at \in {"confirm.save", "login.create", "reset.revoke",
                         "reset.save", "update.revoke", "update.save"}
            => Exists(users[req[r].user])
       /\ req[r].at = "sign" => sessions[req[r].session].state # "free"
       /\ req[r].at \in {"update.revoke", "update.save"}
            => /\ sessions[req[r].own].state # "free"
               /\ sessions[req[r].own].user = req[r].user
       /\ req[r].at \in {"reset.revoke", "reset.save", "reset.consume"}
            => forgots[req[r].hash].state # "free"

Base == TypeOK /\ References

\* A row image a handler will save was hashed when it was read.
ImagesHashed ==
  \A r \in Requests :
    req[r].at \in {"confirm.save", "reset.revoke", "reset.save"}
      => /\ req[r].image.password.form = "hashed"
         /\ req[r].image.pin \notin {"plain", "typed"}

Hashing == SecretsHashed /\ ImagesHashed

\* Between closing the sessions and writing the password, a session of the
\* user that is open has been excused (or is the one update keeps).
Windows ==
  \A r \in Requests :
    /\ req[r].at = "reset.save" => OpenSessions(req[r].user) \subseteq excused
    /\ req[r].at = "update.save"
         => OpenSessions(req[r].user) \ {req[r].own} \subseteq excused

Staleness == StaleSessionExcused /\ Windows

IInv == Base /\ Hashing /\ Staleness

-----------------------------------------------------------------------------
(* Facts about the data *)

\* What the fields of a request record are, label by label.
LEMMA RequestFields ==
  ASSUME NEW x \in InFlight \cup {Idle}
  PROVE  /\ x.at \in {"register.insert", "register.mail", "confirm.save",
              "login.create", "forgot.create", "forgot.mail", "reset.revoke",
              "reset.save", "update.revoke", "update.save"} => x.user \in Emails
         /\ x.at \in {"register.insert", "reset.revoke", "reset.save",
              "update.revoke", "update.save"} => x.word \in Passwords
         /\ x.at \in {"confirm.save", "reset.revoke", "reset.save"} => x.image \in UserRow
         /\ x.at = "login.create" => x.seen \in Passwords
         /\ x.at = "sign" => x.session \in Sessions
         /\ x.at \in {"forgot.mail", "reset.revoke", "reset.save", "reset.consume"}
              => x.hash \in Hashes
         /\ x.at \in {"update.revoke", "update.save"} => x.own \in Sessions
BY DEF InFlight, Idle

\* The password hook touches the password's form only.
LEMMA SetPasswordFacts ==
  ASSUME NEW entity \in UserRow, NEW previous
  PROVE  /\ SetPassword(entity, previous) \in UserRow
         /\ SetPassword(entity, previous).pin = entity.pin
         /\ SetPassword(entity, previous).password.word = entity.password.word
BY DEF SetPassword, UserRow, Secret, Forms, Bcrypt

\* What hashing makes of a pin.
LEMMA PinHashFacts ==
  /\ DOMAIN PinHash = {"plain", "typed", "hashed", "chosen", "rehashed"}
  /\ PinHash["plain"] = "hashed" /\ PinHash["typed"] = "chosen"
  /\ \A p \in {"hashed", "chosen", "rehashed"} : PinHash[p] = "rehashed"
BY DEF PinHash

\* The pin hook touches the pin only, leaves none as it was typed, and makes one
\* match only if it was.
LEMMA SetPinFacts ==
  ASSUME NEW entity \in UserRow
  PROVE  /\ SetPin(entity) \in UserRow
         /\ SetPin(entity).password = entity.password
         /\ SetPin(entity).state = entity.state
         /\ SetPin(entity).pin \notin {"plain", "typed"}
         /\ PinMatches(SetPin(entity).pin) => entity.pin \in {"plain", "typed"}
         /\ entity.pin = "blank" => SetPin(entity).pin = "blank"
<1>1. CASE entity.pin \in DOMAIN PinHash
  <2>1. SetPin(entity) = [entity EXCEPT !.pin = PinHash[@]]
    BY <1>1 DEF SetPin
  <2>2. /\ PinHash[entity.pin] \in {"hashed", "chosen", "rehashed"}
        /\ PinHash[entity.pin] \in {"hashed", "chosen"}
             => entity.pin \in {"plain", "typed"}
        /\ entity.pin \notin {"null", "blank"}
    BY <1>1, PinHashFacts
  <2> QED BY <2>1, <2>2, PinHashFacts DEF UserRow, Pins, PinMatches
<1>2. CASE entity.pin \notin DOMAIN PinHash
  <2>1. SetPin(entity) = entity /\ entity.pin \in {"null", "blank"}
    BY <1>2 DEF SetPin, UserRow, Pins
  <2> QED BY <2>1 DEF PinMatches
<1> QED BY <1>1, <1>2

\* A save() of an image leaves a row, and a row that exists.
LEMMA SavedIsRow ==
  ASSUME NEW entity \in UserRow, NEW previous, NEW stored \in UserRow \cup {NoUser}
  PROVE  Saved(entity, previous, stored) \in UserRow
<1>1. CASE entity = stored
  BY <1>1 DEF Saved
<1>2. CASE entity # stored
  <2> DEFINE hooked == SetPassword(entity, previous)
  <2>1. hooked \in UserRow
    BY SetPasswordFacts
  <2>2. SetPin(hooked) \in UserRow
    BY <2>1, SetPinFacts
  <2> QED BY <1>2, <2>2 DEF Saved
<1> QED BY <1>1, <1>2

LEMMA InsertedIsRow ==
  ASSUME NEW w \in Passwords, NEW status \in {"active", "inactive"},
         NEW pin \in {"plain"} \cup DtoPins
  PROVE  /\ Inserted(w, status, pin) \in UserRow
         /\ Inserted(w, status, pin).password.form = "hashed"
         /\ Inserted(w, status, pin).pin \notin {"plain", "typed"}
<1> DEFINE entity == [state |-> "live", status |-> status,
                      password |-> Plain(w), pin |-> pin]
           hooked == SetPassword(entity, NoUser)
<1>1. hooked \in UserRow /\ hooked.password.form = "hashed"
  BY PinHashFacts
  DEF SetPassword, Plain, NoUser, UserRow, Secret, Pins, DtoPins, Forms, Bcrypt
<1>2. Inserted(w, status, pin) = SetPin(hooked)
  BY DEF Inserted
<1> QED BY <1>1, <1>2, SetPinFacts

LEMMA PasswordPatchIsRow ==
  ASSUME NEW row \in UserRow, NEW w \in Passwords
  PROVE  /\ PatchedPassword(row, w) \in UserRow
         /\ PatchedPassword(row, w).password = Hashed(w)
         /\ PatchedPassword(row, w).pin = row.pin
         /\ PatchedPassword(row, w).state = row.state
BY DEF PatchedPassword, Hashed, UserRow, Secret, Forms

LEMMA StatusPatchIsRow ==
  ASSUME NEW row \in UserRow, NEW status \in {"active", "inactive"}
  PROVE  /\ PatchedStatus(row, status) \in UserRow
         /\ PatchedStatus(row, status).password = row.password
         /\ PatchedStatus(row, status).pin = row.pin
         /\ PatchedStatus(row, status).state = row.state
BY DEF PatchedStatus, UserRow

LEMMA PinPatchIsRow ==
  ASSUME NEW row \in UserRow, NEW pin \in DtoPins
  PROVE  /\ PatchedPin(row, pin) \in UserRow
         /\ PatchedPin(row, pin).password = row.password
         /\ PatchedPin(row, pin).state = row.state
         /\ PatchedPin(row, pin).pin \notin {"plain", "typed"}
         /\ PinMatches(PatchedPin(row, pin).pin) => pin = "typed"
<1> DEFINE entity == [row EXCEPT !.pin = pin]
<1>1. /\ entity \in UserRow /\ entity.password = row.password
      /\ entity.state = row.state /\ entity.pin = pin
  BY PinHashFacts DEF UserRow, Pins, DtoPins
<1>2. PatchedPin(row, pin) = SetPin(entity)
  BY DEF PatchedPin
<1>3. SetPin(entity).password = row.password /\ SetPin(entity).state = row.state
  <2> HIDE DEF entity
  <2> QED BY <1>1, SetPinFacts
<1>4. /\ SetPin(entity) \in UserRow
      /\ SetPin(entity).pin \notin {"plain", "typed"}
      /\ PinMatches(SetPin(entity).pin) => pin \in {"plain", "typed"}
  <2> HIDE DEF entity
  <2> QED BY <1>1, SetPinFacts
<1> QED BY <1>2, <1>3, <1>4 DEF DtoPins

\* bcrypt accepts only a hashed secret, and then it is the text's.
LEMMA CompareFacts ==
  ASSUME NEW w, NEW stored, Compare(w, stored)
  PROVE  stored.word = w /\ stored.form = "hashed"
BY DEF Compare, Hashed

\* A row is there, or there is no row.
LEMMA RowOrNone ==
  ASSUME NEW row \in UserRow \cup {NoUser}
  PROVE  /\ Exists(row) => row \in UserRow
         /\ IsLive(row) => row \in UserRow
         /\ row \in UserRow => Exists(row)
BY DEF Exists, IsLive, UserRow, NoUser

-----------------------------------------------------------------------------
(* Layer one: types and references *)

LEMMA BaseInit == Init => Base
<1> SUFFICES ASSUME Init PROVE Base
  OBVIOUS
<1>1. TypeOK
  <2>1. users \in [Emails -> UserRow \cup {NoUser}]
    BY SeedAssumption DEF Init, UserRow, Secret, Forms, Pins, Hashed
  <2> QED BY <2>1 DEF Init, TypeOK
<1>2. References
  BY DEF Init, References, FreeId, Idle
<1> QED BY <1>1, <1>2 DEF Base

\* Receiving a request only writes its record.
LEMMA BaseReceive ==
  ASSUME Base, NEW r \in Requests, Receive(r)
  PROVE  Base'
<1> USE DEF Base
<1>0. req \in [Requests -> InFlight \cup {Idle}] /\ TypeOK
  BY DEF TypeOK
<1>1. ASSUME NEW e \in Emails, NEW w \in Passwords, RegisterValidate(r, e, w)
      PROVE  Base'
  <2>1. [at |-> "register.insert", user |-> e, word |-> w] \in InFlight
    BY DEF InFlight
  <2> QED BY <1>0, <1>1, <2>1 DEF RegisterValidate, Becomes, TypeOK, References
<1>2. ASSUME NEW e \in Emails, NEW w \in Passwords, LoginRead(r, e, w)
      PROVE  Base'
  <2>1. [at |-> "login.create", user |-> e, seen |-> w] \in InFlight
    BY DEF InFlight
  <2>2. Exists(users[e])
    BY <1>0, <1>2, RowOrNone DEF LoginRead, TypeOK
  <2> QED BY <1>0, <1>2, <2>1, <2>2 DEF LoginRead, Becomes, TypeOK, References
<1>3. ASSUME NEW e \in Emails, ConfirmRead(r, e)
      PROVE  Base'
  <2>1. users[e] \in UserRow /\ Exists(users[e])
    BY <1>0, <1>3, RowOrNone DEF ConfirmRead, TypeOK
  <2>2. [at |-> "confirm.save", user |-> e, image |-> users[e]] \in InFlight
    BY <2>1 DEF InFlight
  <2> QED BY <1>0, <1>3, <2>1, <2>2 DEF ConfirmRead, Becomes, TypeOK, References
<1>4. ASSUME NEW e \in Emails, ForgotRead(r, e)
      PROVE  Base'
  <2>1. [at |-> "forgot.create", user |-> e] \in InFlight
    BY DEF InFlight
  <2> QED BY <1>0, <1>4, <2>1 DEF ForgotRead, Becomes, TypeOK, References
<1>5. ASSUME NEW h \in Hashes, NEW w \in Passwords, ResetRead(r, h, w)
      PROVE  Base'
  <2> DEFINE e == forgots[h].user
  <2>1. e \in Emails
    BY <1>0, <1>5 DEF ResetRead, TypeOK, ForgotRow, FreeId
  <2>2. users[e] \in UserRow /\ Exists(users[e])
    BY <1>0, <1>5, <2>1, RowOrNone DEF ResetRead, TypeOK
  <2>3. [at |-> "reset.revoke", user |-> e, image |-> users[e],
         hash |-> h, word |-> w] \in InFlight
    BY <2>1, <2>2 DEF InFlight
  <2> QED BY <1>0, <1>5, <2>1, <2>2, <2>3 DEF ResetRead, Becomes, TypeOK, References
<1>6. ASSUME NEW p \in Sessions, RefreshRead(r, p)
      PROVE  Base'
  <2>1. PICK s \in Sessions : /\ sessions[s].state = "live"
                              /\ Becomes(r, [at |-> "sign", presented |-> p, session |-> s])
    BY <1>6 DEF RefreshRead, FoundByRefresh
  <2>2. [at |-> "sign", presented |-> p, session |-> s] \in InFlight
    BY DEF InFlight
  <2> QED BY <1>0, <1>6, <2>1, <2>2 DEF RefreshRead, Becomes, TypeOK, References
<1>7. ASSUME NEW s \in Sessions, NEW old \in Passwords, NEW new \in Passwords,
             UpdateRead(r, s, old, new)
      PROVE  Base'
  <2> DEFINE e == sessions[s].user
  <2>1. sessions[s].state # "free" /\ e \in Emails
    BY <1>0, <1>7 DEF UpdateRead, References, TypeOK, SessionRow, FreeId
  <2>2. Exists(users[e])
    BY <1>0, <1>7, <2>1 DEF References
  <2>3. [at |-> "update.revoke", user |-> e, own |-> s, word |-> new] \in InFlight
    BY <2>1 DEF InFlight
  <2> QED BY <1>0, <1>7, <2>1, <2>2, <2>3 DEF UpdateRead, Becomes, TypeOK, References
<1> QED BY <1>1, <1>2, <1>3, <1>4, <1>5, <1>6, <1>7 DEF Receive

\* Closing sessions keeps every row, its owner and its password.
LEMMA RevokeKeepsRows ==
  ASSUME TypeOK, NEW S \in SUBSET Sessions, Revoke(S),
         \A s \in S : sessions[s].state # "free"
  PROVE  /\ sessions' \in [Sessions -> SessionRow \cup {FreeId}]
         /\ \A s \in Sessions :
              /\ sessions'[s].state = "free" <=> sessions[s].state = "free"
              /\ sessions[s].state # "free" =>
                   sessions'[s].user = sessions[s].user /\ sessions'[s].seen = sessions[s].seen
              /\ sessions'[s].state = "live" <=> sessions[s].state = "live" /\ s \notin S
BY DEF TypeOK, Revoke, SessionRow, FreeId

LEMMA BaseAdvance ==
  ASSUME Base, NEW r \in Requests, Advance(r)
  PROVE  Base'
<1> USE DEF Base
<1>0. TypeOK /\ req[r] \in InFlight \cup {Idle}
  BY DEF TypeOK
<1>1. CASE RegisterInsert(r)
  <2> DEFINE e == req[r].user
  <2>1. e \in Emails /\ req[r].word \in Passwords
    BY <1>0, <1>1, RequestFields DEF RegisterInsert, At
  <2>2. [at |-> "register.mail", user |-> e] \in InFlight
    BY <2>1 DEF InFlight
  <2>3. CASE ~Exists(users[e])
    <3>1. /\ users' = [users EXCEPT ![e] = Inserted(req[r].word, "inactive", "plain")]
          /\ Becomes(r, [at |-> "register.mail", user |-> e])
          /\ UNCHANGED <<sessions, forgots, mail, access, refresh, excused>>
      BY <1>1, <2>3 DEF RegisterInsert
    <3>2. /\ Inserted(req[r].word, "inactive", "plain") \in UserRow
          /\ Exists(Inserted(req[r].word, "inactive", "plain"))
      BY <2>1, InsertedIsRow, RowOrNone
    <3>3. TypeOK'
      BY <1>0, <2>1, <2>2, <3>1, <3>2 DEF Becomes, TypeOK
    <3>4. \A x \in Emails : Exists(users[x]) => Exists(users'[x])
      BY <1>0, <2>3, <3>1 DEF TypeOK
    <3>5. References'
      BY <1>0, <3>1, <3>4, <2>1, <2>2, RequestFields
      DEF Becomes, TypeOK, References, SessionRow, FreeId
    <3> QED BY <3>3, <3>5
  <2>4. CASE Exists(users[e])
    BY <1>0, <1>1, <2>4 DEF RegisterInsert, Answered, Becomes, Idle, TypeOK, References
  <2> QED BY <2>3, <2>4
<1>2. CASE RegisterMail(r)
  <2>1. req[r].user \in Emails
    BY <1>0, <1>2, RequestFields DEF RegisterMail, At
  <2> QED BY <1>0, <1>2, <2>1 DEF RegisterMail, Answered, Becomes, Idle, TypeOK, References
<1>3. CASE ConfirmSave(r)
  <2> DEFINE e == req[r].user
             row == Saved(Confirmed(req[r].image), LoadedPassword(req[r].image), users[e])
  <2>1. e \in Emails /\ req[r].image \in UserRow
    BY <1>0, <1>3, RequestFields DEF ConfirmSave, At
  <2>2. Confirmed(req[r].image) \in UserRow
    BY <2>1 DEF Confirmed, UserRow, Pins
  <2>3. row \in UserRow /\ Exists(row)
    BY <1>0, <2>1, <2>2, SavedIsRow, RowOrNone DEF TypeOK
  <2>4. users' = [users EXCEPT ![e] = row]
    BY <1>3 DEF ConfirmSave
  <2>5. TypeOK'
    BY <1>0, <1>3, <2>1, <2>3, <2>4 DEF ConfirmSave, Answered, Becomes, OpenSessions, TypeOK
  <2>6. \A x \in Emails : Exists(users[x]) => Exists(users'[x])
    BY <1>0, <2>1, <2>3, <2>4 DEF TypeOK
  <2>7. References'
    BY <1>0, <1>3, <2>6, RequestFields
    DEF ConfirmSave, Answered, Becomes, Idle, TypeOK, References, SessionRow, FreeId
  <2> QED BY <2>5, <2>7
<1>4. ASSUME NEW s \in Sessions, LoginCreate(r, s)
      PROVE  Base'
  <2>1. req[r].user \in Emails /\ req[r].seen \in Passwords /\ Exists(users[req[r].user])
    BY <1>0, <1>4, RequestFields DEF LoginCreate, At, References
  <2>2. [at |-> "sign", presented |-> s, session |-> s] \in InFlight
    BY DEF InFlight
  <2>3. [state |-> "live", user |-> req[r].user, seen |-> req[r].seen] \in SessionRow
    BY <2>1 DEF SessionRow
  <2>4. TypeOK'
    BY <1>0, <1>4, <2>2, <2>3 DEF LoginCreate, Becomes, TypeOK
  <2>5. References'
    BY <1>0, <1>4, <2>1 DEF LoginCreate, Becomes, TypeOK, References, FreeId
  <2> QED BY <2>4, <2>5
<1>5. CASE SignTokens(r)
  <2>1. req[r].session \in Sessions
    BY <1>0, <1>5, RequestFields DEF SignTokens, At
  <2> QED
    BY <1>0, <1>5, <2>1 DEF SignTokens, At, Answered, Becomes, Idle, TypeOK, References
<1>6. ASSUME NEW h \in Hashes, ForgotCreate(r, h)
      PROVE  Base'
  <2>1. req[r].user \in Emails
    BY <1>0, <1>6, RequestFields DEF ForgotCreate, At
  <2>2. [at |-> "forgot.mail", user |-> req[r].user, hash |-> h] \in InFlight
    BY <2>1 DEF InFlight
  <2> QED
    BY <1>0, <1>6, <2>1, <2>2 DEF ForgotCreate, Becomes, TypeOK, ForgotRow, References
<1>7. CASE ForgotMail(r)
  <2>1. req[r].hash \in Hashes
    BY <1>0, <1>7, RequestFields DEF ForgotMail, At
  <2> QED BY <1>0, <1>7, <2>1 DEF ForgotMail, Answered, Becomes, Idle, TypeOK, References
<1>8. CASE ResetRevoke(r)
  <2>1. [req[r] EXCEPT !.at = "reset.save"] \in InFlight
    BY <1>0, <1>8 DEF ResetRevoke, At, InFlight, Idle
  <2>2. /\ [req[r] EXCEPT !.at = "reset.save"].user = req[r].user
        /\ [req[r] EXCEPT !.at = "reset.save"].at = "reset.save"
    BY <1>0, <1>8 DEF ResetRevoke, At, InFlight, Idle
  <2>3. Revoke(OpenSessions(req[r].user))
    BY <1>8 DEF ResetRevoke
  <2>4. /\ OpenSessions(req[r].user) \in SUBSET Sessions
        /\ \A s \in OpenSessions(req[r].user) : sessions[s].state # "free"
    BY DEF OpenSessions
  <2>5. /\ sessions' \in [Sessions -> SessionRow \cup {FreeId}]
        /\ \A s \in Sessions :
             /\ sessions'[s].state = "free" <=> sessions[s].state = "free"
             /\ sessions[s].state # "free" => sessions'[s].user = sessions[s].user
    BY <1>0, <2>3, <2>4, RevokeKeepsRows
  <2>6. TypeOK'
    BY <1>0, <1>8, <2>1, <2>5 DEF ResetRevoke, Becomes, TypeOK
  <2>7. References'
    BY <1>0, <1>8, <2>2, <2>5, RequestFields DEF ResetRevoke, At, Becomes, TypeOK, References
  <2> QED BY <2>6, <2>7
<1>9. CASE ResetSave(r)
  <2> DEFINE e == req[r].user
             row == Saved([req[r].image EXCEPT !.password = Plain(req[r].word)],
                          LoadedPassword(req[r].image), users[e])
  <2>1. e \in Emails /\ req[r].image \in UserRow /\ req[r].word \in Passwords
          /\ req[r].hash \in Hashes
    BY <1>0, <1>9, RequestFields DEF ResetSave, At
  <2>2. [req[r].image EXCEPT !.password = Plain(req[r].word)] \in UserRow
    BY <2>1 DEF UserRow, Secret, Forms, Plain
  <2>3. row \in UserRow /\ Exists(row)
    BY <1>0, <2>1, <2>2, SavedIsRow, RowOrNone DEF TypeOK
  <2>4. users' = [users EXCEPT ![e] = row]
    BY <1>9 DEF ResetSave
  <2>5. [at |-> "reset.consume", hash |-> req[r].hash] \in InFlight
    BY <2>1 DEF InFlight
  <2>6. TypeOK'
    BY <1>0, <1>9, <2>1, <2>3, <2>4, <2>5 DEF ResetSave, Becomes, TypeOK
  <2>7. \A x \in Emails : Exists(users[x]) => Exists(users'[x])
    BY <1>0, <2>1, <2>3, <2>4 DEF TypeOK
  <2>8. References'
    BY <1>0, <1>9, <2>7, RequestFields
    DEF ResetSave, At, Becomes, TypeOK, References, SessionRow, FreeId
  <2> QED BY <2>6, <2>8
<1>10. CASE ResetConsume(r)
  <2>1. req[r].hash \in Hashes
    BY <1>0, <1>10, RequestFields DEF ResetConsume, At
  <2>2. forgots[req[r].hash].state # "free"
    BY <1>10 DEF ResetConsume, At, References
  <2>3. /\ forgots' \in [Hashes -> ForgotRow \cup {FreeId}]
        /\ \A h \in Hashes : forgots[h].state # "free" => forgots'[h].state # "free"
    BY <1>0, <1>10, <2>1, <2>2 DEF ResetConsume, TypeOK, ForgotRow, FreeId
  <2>4. TypeOK'
    BY <1>0, <1>10, <2>3 DEF ResetConsume, Answered, Becomes, TypeOK
  <2>5. References'
    BY <1>0, <1>10, <2>3, RequestFields
    DEF ResetConsume, Answered, Becomes, Idle, TypeOK, References
  <2> QED BY <2>4, <2>5
<1>11. CASE UpdateRevoke(r)
  <2> DEFINE kept == [req[r] EXCEPT !.at = "update.save"]
             S == OpenSessions(req[r].user) \ {req[r].own}
  <2>1. /\ kept \in InFlight
        /\ kept.user = req[r].user /\ kept.own = req[r].own /\ kept.at = "update.save"
    BY <1>0, <1>11 DEF UpdateRevoke, At, InFlight, Idle
  <2>2. Revoke(S)
    BY <1>11 DEF UpdateRevoke
  <2>3. S \in SUBSET Sessions /\ \A s \in S : sessions[s].state # "free"
    BY DEF OpenSessions
  <2>4. /\ sessions' \in [Sessions -> SessionRow \cup {FreeId}]
        /\ \A s \in Sessions :
             /\ sessions'[s].state = "free" <=> sessions[s].state = "free"
             /\ sessions[s].state # "free" => sessions'[s].user = sessions[s].user
    BY <1>0, <2>2, <2>3, RevokeKeepsRows
  <2>5. TypeOK'
    BY <1>0, <1>11, <2>1, <2>4 DEF UpdateRevoke, Becomes, TypeOK
  <2>6. References'
    BY <1>0, <1>11, <2>1, <2>4, RequestFields
    DEF UpdateRevoke, At, Becomes, TypeOK, References
  <2> QED BY <2>5, <2>6
<1>12. CASE UpdateSave(r)
  <2> DEFINE e == req[r].user
  <2>1. e \in Emails /\ req[r].word \in Passwords /\ req[r].own \in Sessions
    BY <1>0, <1>12, RequestFields DEF UpdateSave, At
  <2>2. Exists(users[e]) /\ sessions[req[r].own].state # "free"
    BY <1>12 DEF UpdateSave, At, References
  <2>3. PatchedPassword(users[e], req[r].word) \in UserRow
    BY <1>0, <2>1, <2>2, RowOrNone, PasswordPatchIsRow DEF TypeOK
  <2>4. users' = [users EXCEPT ![e] = PatchedPassword(users[e], req[r].word)]
    BY <1>12 DEF UpdateSave
  <2>5. /\ sessions' \in [Sessions -> SessionRow \cup {FreeId}]
        /\ \A s \in Sessions :
             /\ sessions'[s].state = sessions[s].state
             /\ sessions[s].state # "free" => sessions'[s].user = sessions[s].user
    BY <1>0, <1>12, <2>1, <2>2 DEF UpdateSave, TypeOK, SessionRow, FreeId
  <2>6. TypeOK'
    <3>1. users' \in [Emails -> UserRow \cup {NoUser}]
      BY <1>0, <2>3, <2>4 DEF TypeOK
    <3>2. req' \in [Requests -> InFlight \cup {Idle}]
      BY <1>0, <1>12 DEF UpdateSave, Answered, Becomes, TypeOK
    <3>3. UNCHANGED <<forgots, mail, access, refresh, excused>>
      BY <1>12 DEF UpdateSave
    <3> QED BY <1>0, <2>5, <3>1, <3>2, <3>3 DEF TypeOK
  <2>7. \A x \in Emails : Exists(users[x]) => Exists(users'[x])
    BY <1>0, <2>1, <2>3, <2>4, RowOrNone DEF TypeOK
  <2>8. References'
    <3>1. /\ \A q \in Requests : req'[q] = req[q] \/ req'[q].at = "idle"
          /\ UNCHANGED <<forgots, access, refresh>>
      BY <1>0, <1>12 DEF UpdateSave, Answered, Becomes, Idle
    <3>2. \A s \in Sessions : sessions[s].state # "free" => sessions[s].user \in Emails
      BY <1>0 DEF TypeOK, SessionRow, FreeId
    <3>3. access \cup refresh \subseteq Sessions
      BY DEF TypeOK
    <3>0. \A q \in Requests : req[q] \in InFlight \cup {Idle}
      BY DEF TypeOK
    <3>4. \A s \in access' \cup refresh' : sessions'[s].state # "free"
      BY <2>5, <3>1, <3>3 DEF References
    <3>5. \A s \in Sessions : sessions'[s].state # "free" => Exists(users'[sessions'[s].user])
      BY <2>5, <2>7, <3>2 DEF References
    <3>6. ASSUME NEW q \in Requests,
                 req[q].at \in {"confirm.save", "login.create", "reset.revoke",
                                "reset.save", "update.revoke", "update.save"}
          PROVE  Exists(users'[req[q].user])
      BY <2>7, <3>0, <3>6, RequestFields DEF References
    <3>7. ASSUME NEW q \in Requests, req[q].at = "sign"
          PROVE  sessions'[req[q].session].state # "free"
      BY <2>5, <3>0, <3>7, RequestFields DEF References
    <3>8. ASSUME NEW q \in Requests, req[q].at \in {"update.revoke", "update.save"}
          PROVE  /\ sessions'[req[q].own].state # "free"
                 /\ sessions'[req[q].own].user = req[q].user
      <4>1. req[q].own \in Sessions
        BY <3>0, <3>8, RequestFields
      <4> QED BY <2>5, <3>8, <4>1 DEF References
    <3>9. ASSUME NEW q \in Requests, req[q].at \in {"reset.revoke", "reset.save", "reset.consume"}
          PROVE  forgots'[req[q].hash].state # "free"
      BY <3>1, <3>9 DEF References
    <3> QED BY <3>1, <3>4, <3>5, <3>6, <3>7, <3>8, <3>9 DEF References
  <2> QED BY <2>6, <2>8
<1> QED BY <1>1, <1>2, <1>3, <1>4, <1>5, <1>6, <1>7, <1>8, <1>9, <1>10, <1>11, <1>12
        DEF Advance

\* Logout, the two deletions, what an administrator writes, expiry and failure.
LEMMA BaseOther ==
  ASSUME Base,
         \/ AtOnce
         \/ \E s \in Sessions : AccessExpires(s)
         \/ \E r \in Requests : Fail(r)
  PROVE  Base'
<1> USE DEF Base
<1>0. TypeOK
  OBVIOUS
<1>1. ASSUME NEW s \in Sessions, Logout(s)
      PROVE  Base'
  <2>1. sessions[s].state # "free"
    BY <1>1 DEF Logout, References
  <2>2. /\ sessions' \in [Sessions -> SessionRow \cup {FreeId}]
        /\ \A x \in Sessions :
             /\ sessions'[x].state = "free" <=> sessions[x].state = "free"
             /\ sessions[x].state # "free" => sessions'[x].user = sessions[x].user
    BY <1>0, <1>1, <2>1, RevokeKeepsRows DEF Logout
  <2> QED BY <1>0, <1>1, <2>2, RequestFields DEF Logout, TypeOK, References
<1>2. ASSUME NEW e \in Emails, Exists(users[e]),
             users' = [users EXCEPT ![e].state = "deleted"],
             UNCHANGED <<sessions, forgots, mail, access, refresh, req, excused>>
      PROVE  Base'
  <2>1. users[e] \in UserRow
    BY <1>0, <1>2, RowOrNone DEF TypeOK
  <2>2. [users[e] EXCEPT !.state = "deleted"] \in UserRow
    BY <2>1 DEF UserRow
  <2>3. users' \in [Emails -> UserRow \cup {NoUser}]
    BY <1>0, <1>2, <2>2 DEF TypeOK
  <2>4. \A x \in Emails : Exists(users[x]) => Exists(users'[x])
    BY <1>0, <1>2, <2>2, RowOrNone DEF TypeOK
  <2> QED BY <1>0, <1>2, <2>3, <2>4, RequestFields
          DEF TypeOK, References, SessionRow, FreeId
<1>3. ASSUME NEW s \in Sessions, DeleteMe(s)
      PROVE  Base'
  <2>1. sessions[s].user \in Emails /\ Exists(users[sessions[s].user])
    BY <1>0, <1>3 DEF DeleteMe, References, TypeOK, SessionRow, FreeId
  <2> QED BY <1>2, <1>3, <2>1 DEF DeleteMe
<1>4. ASSUME NEW e \in Emails, AdminRemoves(e)
      PROVE  Base'
  BY <1>2, <1>4 DEF AdminRemoves
<1>5. ASSUME NEW e \in Emails, NEW row \in UserRow,
             users' = [users EXCEPT ![e] = row],
             excused' \subseteq Sessions, mail' \subseteq mail,
             UNCHANGED <<sessions, forgots, access, refresh, req>>
      PROVE  Base'
  <2>1. \A x \in Emails : Exists(users[x]) => Exists(users'[x])
    BY <1>0, <1>5, RowOrNone DEF TypeOK
  <2> QED BY <1>0, <1>5, <2>1, RequestFields DEF TypeOK, References, SessionRow, FreeId
<1>6. ASSUME NEW e \in Emails, NEW w \in Passwords, AdminSetsPassword(e, w)
      PROVE  Base'
  <2>1. PatchedPassword(users[e], w) \in UserRow
    BY <1>0, <1>6, RowOrNone, PasswordPatchIsRow DEF AdminSetsPassword, TypeOK
  <2> QED BY <1>0, <1>5, <1>6, <2>1 DEF AdminSetsPassword, OpenSessions, TypeOK
<1>7. ASSUME NEW e \in Emails, NEW status \in {"active", "inactive"},
             AdminSetsStatus(e, status)
      PROVE  Base'
  <2>1. PatchedStatus(users[e], status) \in UserRow
    BY <1>0, <1>7, RowOrNone, StatusPatchIsRow DEF AdminSetsStatus, TypeOK
  <2> QED BY <1>0, <1>5, <1>7, <2>1 DEF AdminSetsStatus, TypeOK
<1>8. ASSUME NEW s \in Sessions, AccessExpires(s)
      PROVE  Base'
  BY <1>0, <1>8 DEF AccessExpires, TypeOK, References
<1>9. ASSUME NEW r \in Requests, Fail(r)
      PROVE  Base'
  BY <1>0, <1>9 DEF Fail, Answered, Becomes, Idle, TypeOK, References
<1>10. ASSUME NEW e \in Emails, NEW pin \in DtoPins, AdminSetsPin(e, pin)
       PROVE  Base'
  <2>1. PatchedPin(users[e], pin) \in UserRow
    BY <1>0, <1>10, RowOrNone, PinPatchIsRow DEF AdminSetsPin, TypeOK
  <2> QED BY <1>0, <1>5, <1>10, <2>1 DEF AdminSetsPin, TypeOK
<1>11. ASSUME NEW e \in Emails, NEW w \in Passwords, NEW status \in {"active", "inactive"},
              NEW pin \in DtoPins, AdminCreates(e, w, status, pin)
       PROVE  Base'
  BY <1>0, <1>5, <1>11, InsertedIsRow DEF AdminCreates, TypeOK
<1> QED BY <1>1, <1>3, <1>4, <1>6, <1>7, <1>8, <1>9, <1>10, <1>11 DEF AtOnce

LEMMA BaseStutter == Base /\ UNCHANGED vars => Base'
BY DEF Base, TypeOK, References, OpenSessions, vars

\* Types hold in every reachable state, and nothing a handler or a token
\* holds ever dangles.
THEOREM TypeCorrect == Spec => []TypeOK
<1>1. Init => Base
  BY BaseInit
<1>2. Base /\ [Next]_vars => Base'
  BY BaseReceive, BaseAdvance, BaseOther, BaseStutter DEF Next
<1>3. Base => TypeOK
  BY DEF Base
<1> QED BY <1>1, <1>2, <1>3, PTL DEF Spec

-----------------------------------------------------------------------------
(* Layer two: hashed once *)

RowHashed(row) == row.password.form = "hashed" /\ row.pin \notin {"plain", "typed"}

\* The hooks leave a row hashed once when the password is the loaded one or
\* newly typed.
LEMMA SavedIsHashed ==
  ASSUME NEW entity \in UserRow, NEW previous, NEW stored \in UserRow \cup {NoUser},
         previous.form = "hashed",
         entity.password = previous \/ entity.password.form = "plain",
         Exists(stored) => RowHashed(stored)
  PROVE  RowHashed(Saved(entity, previous, stored))
<1>1. CASE entity = stored
  BY <1>1, RowOrNone DEF Saved
<1>2. CASE entity # stored
  <2> DEFINE hooked == SetPassword(entity, previous)
  <2>1. hooked \in UserRow /\ hooked.password.form = "hashed"
    BY DEF SetPassword, UserRow, Secret, Forms, Bcrypt
  <2> QED BY <1>2, <2>1, SetPinFacts DEF Saved, RowHashed
<1> QED BY <1>1, <1>2

LEMMA PatchIsHashed ==
  ASSUME TypeOK, SecretsHashed, NEW e \in Emails, Exists(users[e]), NEW w \in Passwords
  PROVE  RowHashed(PatchedPassword(users[e], w))
<1>1. users[e] \in UserRow /\ users[e].pin \notin {"plain", "typed"}
  BY RowOrNone DEF TypeOK, SecretsHashed
<1>2. /\ PatchedPassword(users[e], w).password = Hashed(w)
      /\ PatchedPassword(users[e], w).pin = users[e].pin
  BY <1>1, PasswordPatchIsRow
<1> QED BY <1>1, <1>2 DEF RowHashed, Hashed

\* The two whole-row saves and the partial ones, on what their handlers hold.
LEMMA ConfirmSaveIsHashed ==
  ASSUME Base, Hashing, NEW r \in Requests, ConfirmSave(r)
  PROVE  /\ req[r].user \in Emails
         /\ users' = [users EXCEPT ![req[r].user] =
              Saved(Confirmed(req[r].image), LoadedPassword(req[r].image), @)]
         /\ RowHashed(Saved(Confirmed(req[r].image), LoadedPassword(req[r].image),
                            users[req[r].user]))
<1> DEFINE image == req[r].image
           stored == users[req[r].user]
<1>1. /\ req[r].user \in Emails /\ image \in UserRow
      /\ stored \in UserRow \cup {NoUser}
  BY RequestFields DEF Base, TypeOK, ConfirmSave, At
<1>2. RowHashed(image) /\ (Exists(stored) => RowHashed(stored))
  BY <1>1 DEF Hashing, ImagesHashed, SecretsHashed, ConfirmSave, At, RowHashed
<1>3. Confirmed(image) \in UserRow /\ Confirmed(image).password = image.password
  BY <1>1 DEF Confirmed, UserRow, Pins
<1>4. RowHashed(Saved(Confirmed(image), LoadedPassword(image), stored))
  BY <1>1, <1>2, <1>3, SavedIsHashed DEF LoadedPassword, RowHashed
<1> QED BY <1>1, <1>4 DEF ConfirmSave

LEMMA ResetSaveIsHashed ==
  ASSUME Base, Hashing, NEW r \in Requests, ResetSave(r)
  PROVE  LET entity == [req[r].image EXCEPT !.password = Plain(req[r].word)] IN
         /\ req[r].user \in Emails
         /\ users' = [users EXCEPT ![req[r].user] =
                        Saved(entity, LoadedPassword(req[r].image), @)]
         /\ RowHashed(Saved(entity, LoadedPassword(req[r].image), users[req[r].user]))
<1> DEFINE image == req[r].image
           stored == users[req[r].user]
           entity == [image EXCEPT !.password = Plain(req[r].word)]
<1>1. /\ req[r].user \in Emails /\ image \in UserRow /\ req[r].word \in Passwords
      /\ stored \in UserRow \cup {NoUser}
  BY RequestFields DEF Base, TypeOK, ResetSave, At
<1>2. RowHashed(image) /\ (Exists(stored) => RowHashed(stored))
  BY <1>1 DEF Hashing, ImagesHashed, SecretsHashed, ResetSave, At, RowHashed
<1>3. entity \in UserRow /\ entity.password.form = "plain"
  BY <1>1 DEF UserRow, Secret, Forms, Plain
<1>4. RowHashed(Saved(entity, LoadedPassword(image), stored))
  BY <1>1, <1>2, <1>3, SavedIsHashed DEF LoadedPassword, RowHashed
<1> QED BY <1>1, <1>4 DEF ResetSave

\* A step that writes at most one row, hashed, keeps SecretsHashed.
LEMMA OneRowWritten ==
  ASSUME TypeOK, SecretsHashed, NEW e \in Emails, NEW row,
         users' = [users EXCEPT ![e] = row], Exists(row) => RowHashed(row)
  PROVE  SecretsHashed'
BY DEF TypeOK, SecretsHashed, RowHashed

LEMMA HashingInit == Init => Hashing
BY DEF Init, Hashing, SecretsHashed, ImagesHashed, Idle, NoUser, Exists, Hashed

LEMMA HashingReceive ==
  ASSUME Base, Hashing, NEW r \in Requests, Receive(r)
  PROVE  Hashing'
<1>1. UNCHANGED users
  BY DEF Receive, RegisterValidate, LoginRead, ConfirmRead, ForgotRead, ResetRead,
         RefreshRead, UpdateRead
<1>2. ASSUME NEW x, Becomes(r, x),
             x.at \in {"confirm.save", "reset.revoke", "reset.save"} => RowHashed(x.image)
      PROVE  Hashing'
  BY <1>1, <1>2 DEF Base, TypeOK, Becomes, Hashing, SecretsHashed, ImagesHashed, RowHashed
<1>3. ASSUME NEW e \in Emails, IsLive(users[e])
      PROVE  RowHashed(users[e])
  BY <1>3, RowOrNone DEF Base, TypeOK, Hashing, SecretsHashed, RowHashed
<1>4. ASSUME NEW e \in Emails, NEW w \in Passwords,
             RegisterValidate(r, e, w) \/ LoginRead(r, e, w)
      PROVE  Hashing'
  BY <1>2, <1>4 DEF RegisterValidate, LoginRead
<1>5. ASSUME NEW e \in Emails, ConfirmRead(r, e) \/ ForgotRead(r, e)
      PROVE  Hashing'
  BY <1>2, <1>3, <1>5 DEF ConfirmRead, ForgotRead
<1>6. ASSUME NEW h \in Hashes, NEW w \in Passwords, ResetRead(r, h, w)
      PROVE  Hashing'
  <2>1. forgots[h].user \in Emails
    BY <1>6 DEF ResetRead, Base, TypeOK, ForgotRow, FreeId
  <2> QED BY <1>2, <1>3, <1>6, <2>1 DEF ResetRead
<1>7. ASSUME NEW s \in Sessions, RefreshRead(r, s)
      PROVE  Hashing'
  BY <1>2, <1>7 DEF RefreshRead
<1>8. ASSUME NEW s \in Sessions, NEW old \in Passwords, NEW new \in Passwords,
             UpdateRead(r, s, old, new)
      PROVE  Hashing'
  BY <1>2, <1>8 DEF UpdateRead
<1> QED BY <1>4, <1>5, <1>6, <1>7, <1>8 DEF Receive

LEMMA HashingAdvance ==
  ASSUME Base, Hashing, NEW r \in Requests, Advance(r)
  PROVE  Hashing'
<1>0. TypeOK /\ SecretsHashed /\ req[r] \in InFlight \cup {Idle}
  BY DEF Base, TypeOK, Hashing
<1>1. ASSUME NEW x, Becomes(r, x), SecretsHashed',
             x.at \in {"confirm.save", "reset.revoke", "reset.save"}
               => x.image = req[r].image /\ req[r].at = "reset.revoke"
      PROVE  Hashing'
  BY <1>0, <1>1 DEF TypeOK, Becomes, Hashing, ImagesHashed
<1>2. ASSUME UNCHANGED users
      PROVE  SecretsHashed'
  BY <1>0, <1>2 DEF SecretsHashed
<1>3. CASE RegisterInsert(r)
  <2> DEFINE e == req[r].user
  <2>1. e \in Emails /\ req[r].word \in Passwords
    BY <1>0, <1>3, RequestFields DEF RegisterInsert, At
  <2>2. CASE ~Exists(users[e])
    <3>1. users' = [users EXCEPT ![e] = Inserted(req[r].word, "inactive", "plain")]
      BY <1>3, <2>2 DEF RegisterInsert
    <3>2. SecretsHashed'
      BY <1>0, <2>1, <3>1, OneRowWritten, InsertedIsRow DEF RowHashed
    <3> QED BY <1>1, <1>3, <2>2, <3>2 DEF RegisterInsert
  <2>3. CASE Exists(users[e])
    BY <1>1, <1>2, <1>3, <2>3 DEF RegisterInsert, Answered, Idle
  <2> QED BY <2>2, <2>3
<1>4. CASE ConfirmSave(r)
  <2>1. SecretsHashed'
    BY <1>0, <1>4, ConfirmSaveIsHashed, OneRowWritten
  <2> QED BY <1>1, <1>4, <2>1 DEF ConfirmSave, Answered, Idle
<1>5. CASE ResetSave(r)
  <2>1. SecretsHashed'
    BY <1>0, <1>5, ResetSaveIsHashed, OneRowWritten
  <2> QED BY <1>1, <1>5, <2>1 DEF ResetSave
<1>6. CASE UpdateSave(r)
  <2>1. /\ req[r].user \in Emails /\ req[r].word \in Passwords
        /\ Exists(users[req[r].user])
    BY <1>0, <1>6, RequestFields DEF UpdateSave, At, Base, References
  <2>2. users' = [users EXCEPT ![req[r].user] =
                    PatchedPassword(users[req[r].user], req[r].word)]
    BY <1>6 DEF UpdateSave
  <2>3. RowHashed(PatchedPassword(users[req[r].user], req[r].word))
    BY <1>0, <2>1, PatchIsHashed
  <2>4. SecretsHashed'
    BY <1>0, <2>1, <2>2, <2>3, OneRowWritten
  <2> QED BY <1>1, <1>6, <2>4 DEF UpdateSave, Answered, Idle
<1>7. ASSUME NEW s \in Sessions, LoginCreate(r, s)
      PROVE  Hashing'
  BY <1>1, <1>2, <1>7 DEF LoginCreate
<1>8. ASSUME NEW h \in Hashes, ForgotCreate(r, h)
      PROVE  Hashing'
  BY <1>1, <1>2, <1>8 DEF ForgotCreate
<1>9. CASE RegisterMail(r) \/ SignTokens(r) \/ ForgotMail(r) \/ ResetConsume(r)
  BY <1>1, <1>2, <1>9 DEF RegisterMail, SignTokens, ForgotMail, ResetConsume, Answered, Idle
<1>10. CASE ResetRevoke(r)
  <2>1. [req[r] EXCEPT !.at = "reset.save"].image = req[r].image
    BY <1>0, <1>10 DEF ResetRevoke, At, InFlight, Idle
  <2> QED BY <1>1, <1>2, <1>10, <2>1 DEF ResetRevoke, At
<1>11. CASE UpdateRevoke(r)
  <2>1. [req[r] EXCEPT !.at = "update.save"].at = "update.save"
    BY <1>0, <1>11 DEF UpdateRevoke, At, InFlight, Idle
  <2> QED BY <1>1, <1>2, <1>11, <2>1 DEF UpdateRevoke
<1> QED BY <1>3, <1>4, <1>5, <1>6, <1>7, <1>8, <1>9, <1>10, <1>11 DEF Advance

LEMMA HashingOther ==
  ASSUME Base, Hashing,
         \/ AtOnce
         \/ \E s \in Sessions : AccessExpires(s)
         \/ \E r \in Requests : Fail(r)
  PROVE  Hashing'
<1>0. TypeOK /\ SecretsHashed /\ ImagesHashed
  BY DEF Base, Hashing
<1>1. ASSUME UNCHANGED req, SecretsHashed'
      PROVE  Hashing'
  BY <1>0, <1>1 DEF Hashing, ImagesHashed
<1>2. ASSUME NEW e \in Emails, Exists(users[e]), UNCHANGED req,
             users' = [users EXCEPT ![e].state = "deleted"]
      PROVE  Hashing'
  <2>1. RowHashed([users[e] EXCEPT !.state = "deleted"])
    BY <1>0, <1>2, RowOrNone DEF TypeOK, SecretsHashed, RowHashed, UserRow
  <2>2. SecretsHashed'
    BY <1>0, <1>2, <2>1, OneRowWritten
  <2> QED BY <1>1, <1>2, <2>2
<1>3. ASSUME NEW s \in Sessions, Logout(s)
      PROVE  Hashing'
  BY <1>0, <1>1, <1>3 DEF Logout, SecretsHashed
<1>4. ASSUME NEW s \in Sessions, DeleteMe(s)
      PROVE  Hashing'
  <2>1. sessions[s].user \in Emails /\ Exists(users[sessions[s].user])
    BY <1>0, <1>4 DEF DeleteMe, Base, References, TypeOK, SessionRow, FreeId
  <2> QED BY <1>2, <1>4, <2>1 DEF DeleteMe
<1>5. ASSUME NEW e \in Emails, AdminRemoves(e)
      PROVE  Hashing'
  BY <1>2, <1>5 DEF AdminRemoves
<1>6. ASSUME NEW e \in Emails, NEW w \in Passwords, AdminSetsPassword(e, w)
      PROVE  Hashing'
  <2>1. RowHashed(PatchedPassword(users[e], w))
    BY <1>0, <1>6, PatchIsHashed DEF AdminSetsPassword
  <2>2. SecretsHashed'
    BY <1>0, <1>6, <2>1, OneRowWritten DEF AdminSetsPassword
  <2> QED BY <1>1, <1>6, <2>2 DEF AdminSetsPassword
<1>7. ASSUME NEW e \in Emails, NEW status \in {"active", "inactive"},
             AdminSetsStatus(e, status)
      PROVE  Hashing'
  <2>1. RowHashed(PatchedStatus(users[e], status))
    BY <1>0, <1>7, RowOrNone, StatusPatchIsRow
    DEF AdminSetsStatus, TypeOK, SecretsHashed, RowHashed
  <2>2. SecretsHashed'
    BY <1>0, <1>7, <2>1, OneRowWritten DEF AdminSetsStatus
  <2> QED BY <1>1, <1>7, <2>2 DEF AdminSetsStatus
<1>8. ASSUME NEW s \in Sessions, AccessExpires(s)
      PROVE  Hashing'
  BY <1>0, <1>1, <1>8 DEF AccessExpires, SecretsHashed
<1>9. ASSUME NEW r \in Requests, Fail(r)
      PROVE  Hashing'
  BY <1>0, <1>9 DEF Fail, Answered, Becomes, Idle, TypeOK, Hashing, SecretsHashed, ImagesHashed
<1>10. ASSUME NEW e \in Emails, NEW pin \in DtoPins, AdminSetsPin(e, pin)
       PROVE  Hashing'
  <2>1. RowHashed(PatchedPin(users[e], pin))
    BY <1>0, <1>10, RowOrNone, PinPatchIsRow
    DEF AdminSetsPin, TypeOK, SecretsHashed, RowHashed
  <2>2. SecretsHashed'
    BY <1>0, <1>10, <2>1, OneRowWritten DEF AdminSetsPin
  <2> QED BY <1>1, <1>10, <2>2 DEF AdminSetsPin
<1>11. ASSUME NEW e \in Emails, NEW w \in Passwords, NEW status \in {"active", "inactive"},
              NEW pin \in DtoPins, AdminCreates(e, w, status, pin)
       PROVE  Hashing'
  <2>1. RowHashed(Inserted(w, status, pin))
    BY InsertedIsRow DEF RowHashed
  <2>2. SecretsHashed'
    BY <1>0, <1>11, <2>1, OneRowWritten DEF AdminCreates
  <2> QED BY <1>1, <1>11, <2>2 DEF AdminCreates
<1> QED BY <1>3, <1>4, <1>5, <1>6, <1>7, <1>8, <1>9, <1>10, <1>11 DEF AtOnce

LEMMA HashingStutter == Hashing /\ UNCHANGED vars => Hashing'
BY DEF Hashing, SecretsHashed, ImagesHashed, vars

\* No interleaving of the handlers' saves stores a secret unhashed or hashed
\* twice.
THEOREM SecretsStayHashed == Spec => []SecretsHashed
<1>1. Init => Base /\ Hashing
  BY BaseInit, HashingInit
<1>2. Base /\ Hashing /\ [Next]_vars => Base' /\ Hashing'
  BY BaseReceive, BaseAdvance, BaseOther, BaseStutter,
     HashingReceive, HashingAdvance, HashingOther, HashingStutter DEF Next
<1>3. Base /\ Hashing => SecretsHashed
  BY DEF Hashing
<1> QED BY <1>1, <1>2, <1>3, PTL DEF Spec

-----------------------------------------------------------------------------
(* Layer three: which open sessions may be older than the password *)

\* The hooks hash, they do not change what was typed.
LEMMA SavedKeepsWord ==
  ASSUME NEW entity \in UserRow, NEW previous, NEW stored
  PROVE  Saved(entity, previous, stored).password.word = entity.password.word
<1>1. CASE entity = stored
  BY <1>1 DEF Saved
<1>2. CASE entity # stored
  <2> DEFINE hooked == SetPassword(entity, previous)
  <2>1. hooked \in UserRow /\ hooked.password.word = entity.password.word
    BY SetPasswordFacts
  <2> QED BY <1>2, <2>1, SetPinFacts DEF Saved
<1> QED BY <1>1, <1>2

LEMMA StalenessInit == Init => Staleness
BY DEF Init, Staleness, StaleSessionExcused, Windows, OpenSessions, FreeId, Idle

\* A step that opens no session, changes no password, takes nothing out of
\* excused and brings no request to its save.
LEMMA QuietStep ==
  ASSUME TypeOK, Staleness,
         excused' = excused,
         \A s \in Sessions : sessions'[s].state = "live" =>
            /\ sessions[s].state = "live"
            /\ sessions'[s].user = sessions[s].user
            /\ sessions'[s].seen = sessions[s].seen
            /\ users'[sessions[s].user].password.word = Current(sessions[s].user),
         \A r \in Requests : req'[r].at \in {"reset.save", "update.save"} =>
            req'[r] = req[r]
  PROVE  Staleness'
<1>1. StaleSessionExcused'
  BY DEF Staleness, StaleSessionExcused, Current
<1>2. Windows'
  BY DEF Staleness, Windows, OpenSessions
<1> QED BY <1>1, <1>2 DEF Staleness

LEMMA StalenessReceive ==
  ASSUME Base, Staleness, NEW r \in Requests, Receive(r)
  PROVE  Staleness'
<1>1. TypeOK
  BY DEF Base
<1>2. UNCHANGED <<users, sessions, excused>>
  BY DEF Receive, RegisterValidate, LoginRead, ConfirmRead, ForgotRead, ResetRead,
         RefreshRead, UpdateRead
<1>3. ASSUME NEW x, Becomes(r, x), x.at \notin {"reset.save", "update.save"}
      PROVE  Staleness'
  <2>1. \A q \in Requests :
          req'[q].at \in {"reset.save", "update.save"} => req'[q] = req[q]
    BY <1>1, <1>3 DEF Becomes, TypeOK
  <2> QED BY <1>1, <1>2, <2>1, QuietStep DEF Current
<1>4. ASSUME NEW e \in Emails, NEW w \in Passwords,
             RegisterValidate(r, e, w) \/ LoginRead(r, e, w)
      PROVE  Staleness'
  BY <1>3, <1>4 DEF RegisterValidate, LoginRead
<1>5. ASSUME NEW e \in Emails, ConfirmRead(r, e) \/ ForgotRead(r, e)
      PROVE  Staleness'
  BY <1>3, <1>5 DEF ConfirmRead, ForgotRead
<1>6. ASSUME NEW h \in Hashes, NEW w \in Passwords, ResetRead(r, h, w)
      PROVE  Staleness'
  BY <1>3, <1>6 DEF ResetRead
<1>7. ASSUME NEW s \in Sessions, RefreshRead(r, s)
      PROVE  Staleness'
  BY <1>3, <1>7 DEF RefreshRead
<1>8. ASSUME NEW s \in Sessions, NEW old \in Passwords, NEW new \in Passwords,
             UpdateRead(r, s, old, new)
      PROVE  Staleness'
  BY <1>3, <1>8 DEF UpdateRead
<1> QED BY <1>4, <1>5, <1>6, <1>7, <1>8 DEF Receive

\* A step that replaces e's row: either the password stays, or every open
\* session of e is excused afterwards.
LEMMA RowStep ==
  ASSUME Base, Staleness, NEW e \in Emails, NEW row \in UserRow,
         users' = [users EXCEPT ![e] = row],
         sessions' = sessions,
         excused \subseteq excused',
         \/ row.password.word = Current(e)
         \/ OpenSessions(e) \subseteq excused',
         \A r \in Requests : req'[r].at \in {"reset.save", "update.save"} =>
            req'[r] = req[r]
  PROVE  Staleness'
<1>0. TypeOK
  BY DEF Base
<1>1. ASSUME NEW s \in Sessions, sessions[s].state = "live", s \notin excused'
      PROVE  sessions[s].seen = users'[sessions[s].user].password.word
  <2>1. sessions[s].seen = Current(sessions[s].user)
    BY <1>1 DEF Staleness, StaleSessionExcused
  <2>2. CASE sessions[s].user = e
    <3>1. row.password.word = Current(e)
      BY <1>1, <2>2 DEF OpenSessions
    <3>2. users'[e] = row
      BY <1>0 DEF TypeOK
    <3> QED BY <2>1, <2>2, <3>1, <3>2
  <2>3. CASE sessions[s].user # e
    <3>1. sessions[s].user \in Emails
      BY <1>0, <1>1 DEF TypeOK, SessionRow, FreeId
    <3>2. users'[sessions[s].user] = users[sessions[s].user]
      BY <1>0, <2>3, <3>1 DEF TypeOK
    <3> QED BY <2>1, <3>2 DEF Current
  <2> QED BY <2>2, <2>3
<1>2. StaleSessionExcused'
  BY <1>1 DEF StaleSessionExcused, Current
<1>3. Windows'
  BY DEF Staleness, Windows, OpenSessions
<1> QED BY <1>2, <1>3 DEF Staleness

\* Only r's record changes, and r is not at a save afterwards.
LEMMA OthersStay ==
  ASSUME TypeOK, NEW r \in Requests, NEW x, Becomes(r, x),
         x.at \notin {"reset.save", "update.save"}
  PROVE  \A q \in Requests :
           req'[q].at \in {"reset.save", "update.save"} => req'[q] = req[q]
BY DEF Becomes, TypeOK

LEMMA StalenessCreate ==
  ASSUME Base, Staleness, NEW r \in Requests, NEW s \in Sessions, LoginCreate(r, s)
  PROVE  Staleness'
<1> DEFINE e == req[r].user
<1>0. TypeOK
  BY DEF Base
<1>1. /\ sessions' = [sessions EXCEPT ![s] =
                        [state |-> "live", user |-> e, seen |-> req[r].seen]]
      /\ Becomes(r, [at |-> "sign", presented |-> s, session |-> s])
      /\ excused \subseteq excused'
      /\ req[r].seen # Current(e) \/ ChangePending(e) => s \in excused'
      /\ UNCHANGED users
  BY DEF LoginCreate
<1>2. /\ sessions'[s] = [state |-> "live", user |-> e, seen |-> req[r].seen]
      /\ \A t \in Sessions \ {s} : sessions'[t] = sessions[t]
  BY <1>0, <1>1 DEF TypeOK
<1>3. StaleSessionExcused'
  BY <1>1, <1>2 DEF Staleness, StaleSessionExcused, Current
<1>4. \A q \in Requests :
        req'[q].at \in {"reset.save", "update.save"} => req'[q] = req[q]
  BY <1>0, <1>1, OthersStay
<1>5. ASSUME NEW q \in Requests, req'[q].at \in {"reset.save", "update.save"},
             NEW t \in Sessions, sessions'[t].state = "live",
             sessions'[t].user = req[q].user,
             req[q].at = "update.save" => t # req[q].own
      PROVE  t \in excused'
  <2>1. req'[q] = req[q]
    BY <1>4, <1>5
  <2>2. CASE t = s
    <3>1. ChangePending(e)
      BY <1>2, <1>5, <2>1, <2>2 DEF ChangePending
    <3> QED BY <1>1, <2>2, <3>1
  <2>3. CASE t # s
    BY <1>1, <1>2, <1>5, <2>1, <2>3 DEF Staleness, Windows, OpenSessions
  <2> QED BY <2>2, <2>3
<1>6. Windows'
  BY <1>4, <1>5 DEF Windows, OpenSessions
<1> QED BY <1>3, <1>6 DEF Staleness

LEMMA StalenessAdvance ==
  ASSUME Base, Hashing, Staleness, NEW r \in Requests, Advance(r)
  PROVE  Staleness'
<1>0. TypeOK /\ req[r] \in InFlight \cup {Idle}
  BY DEF Base, TypeOK
<1>1. ASSUME NEW x, Becomes(r, x), x.at \notin {"reset.save", "update.save"},
             UNCHANGED <<users, sessions, excused>>
      PROVE  Staleness'
  BY <1>0, <1>1, OthersStay, QuietStep DEF Current
<1>2. CASE RegisterInsert(r)
  <2> DEFINE e == req[r].user
  <2>1. e \in Emails /\ req[r].word \in Passwords
    BY <1>0, <1>2, RequestFields DEF RegisterInsert, At
  <2>2. CASE ~Exists(users[e])
    <3>1. /\ users' = [users EXCEPT ![e] = Inserted(req[r].word, "inactive", "plain")]
          /\ Becomes(r, [at |-> "register.mail", user |-> e])
          /\ UNCHANGED <<sessions, excused>>
      BY <1>2, <2>2 DEF RegisterInsert
    <3>2. OpenSessions(e) = {}
      BY <2>2 DEF OpenSessions, Base, References
    <3>3. Inserted(req[r].word, "inactive", "plain") \in UserRow
      BY <2>1, InsertedIsRow
    <3>4. \A q \in Requests :
            req'[q].at \in {"reset.save", "update.save"} => req'[q] = req[q]
      BY <1>0, <3>1, OthersStay
    <3> QED BY <2>1, <3>1, <3>2, <3>3, <3>4, RowStep
  <2>3. CASE Exists(users[e])
    BY <1>1, <1>2, <2>3 DEF RegisterInsert, Answered, Idle
  <2> QED BY <2>2, <2>3
<1>3. CASE ConfirmSave(r)
  <2> DEFINE e == req[r].user
             image == req[r].image
             row == Saved(Confirmed(image), LoadedPassword(image), users[e])
  <2>1. e \in Emails /\ image \in UserRow
    BY <1>0, <1>3, RequestFields DEF ConfirmSave, At
  <2>2. /\ Confirmed(image) \in UserRow
        /\ Confirmed(image).password.word = image.password.word
    BY <2>1 DEF Confirmed, UserRow, Pins
  <2>3. row \in UserRow /\ row.password.word = image.password.word
    BY <1>0, <2>1, <2>2, SavedIsRow, SavedKeepsWord DEF TypeOK
  <2>4. /\ users' = [users EXCEPT ![e] = row]
        /\ UNCHANGED sessions
        /\ excused \subseteq excused'
        /\ image.password.word = Current(e) \/ OpenSessions(e) \subseteq excused'
    BY <1>3 DEF ConfirmSave
  <2>5. \A q \in Requests :
          req'[q].at \in {"reset.save", "update.save"} => req'[q] = req[q]
    BY <1>0, <1>3, OthersStay DEF ConfirmSave, Answered, Idle
  <2> QED BY <2>1, <2>3, <2>4, <2>5, RowStep
<1>4. ASSUME NEW s \in Sessions, LoginCreate(r, s)
      PROVE  Staleness'
  BY <1>4, StalenessCreate
<1>5. CASE RegisterMail(r) \/ SignTokens(r) \/ ForgotMail(r) \/ ResetConsume(r)
  BY <1>1, <1>5 DEF RegisterMail, SignTokens, ForgotMail, ResetConsume, Answered, Idle
<1>6. ASSUME NEW h \in Hashes, ForgotCreate(r, h)
      PROVE  Staleness'
  BY <1>1, <1>6 DEF ForgotCreate
<1>7. CASE ResetRevoke(r)
  <2> DEFINE e == req[r].user
  <2>1. /\ [req[r] EXCEPT !.at = "reset.save"].user = e
        /\ [req[r] EXCEPT !.at = "reset.save"].at = "reset.save"
    BY <1>0, <1>7 DEF ResetRevoke, At, InFlight, Idle
  <2>2. /\ OpenSessions(e) \in SUBSET Sessions
        /\ \A s \in OpenSessions(e) : sessions[s].state # "free"
        /\ Revoke(OpenSessions(e))
    BY <1>7 DEF OpenSessions, ResetRevoke
  <2>3. \A s \in Sessions : sessions'[s].state = "live" =>
          /\ sessions[s].state = "live" /\ s \notin OpenSessions(e)
          /\ sessions'[s].user = sessions[s].user /\ sessions'[s].seen = sessions[s].seen
    BY <1>0, <2>2, RevokeKeepsRows
  <2>4. StaleSessionExcused'
    BY <1>7, <2>3 DEF ResetRevoke, Staleness, StaleSessionExcused, Current
  <2>5. \A s \in Sessions : sessions'[s].state = "live" => sessions'[s].user # e
    BY <2>3 DEF OpenSessions
  <2>6. /\ req'[r].user = e /\ req'[r].at = "reset.save"
        /\ \A q \in Requests \ {r} : req'[q] = req[q]
        /\ UNCHANGED excused
    BY <1>0, <1>7, <2>1 DEF ResetRevoke, Becomes, TypeOK
  <2>7. Windows'
    BY <2>3, <2>5, <2>6 DEF Staleness, Windows, OpenSessions
  <2> QED BY <2>4, <2>7 DEF Staleness
<1>8. CASE ResetSave(r)
  <2> DEFINE e == req[r].user
             entity == [req[r].image EXCEPT !.password = Plain(req[r].word)]
             row == Saved(entity, LoadedPassword(req[r].image), users[e])
  <2>1. e \in Emails /\ req[r].image \in UserRow /\ req[r].word \in Passwords
    BY <1>0, <1>8, RequestFields DEF ResetSave, At
  <2>2. entity \in UserRow
    BY <2>1 DEF UserRow, Secret, Forms, Plain
  <2>3. row \in UserRow
    BY <1>0, <2>1, <2>2, SavedIsRow DEF TypeOK
  <2>4. /\ users' = [users EXCEPT ![e] = row]
        /\ UNCHANGED <<sessions, excused>>
        /\ Becomes(r, [at |-> "reset.consume", hash |-> req[r].hash])
    BY <1>8 DEF ResetSave
  <2>5. OpenSessions(e) \subseteq excused
    BY <1>8 DEF ResetSave, At, Staleness, Windows
  <2>6. \A q \in Requests :
          req'[q].at \in {"reset.save", "update.save"} => req'[q] = req[q]
    BY <1>0, <2>4, OthersStay
  <2> QED BY <2>1, <2>3, <2>4, <2>5, <2>6, RowStep
<1>9. CASE UpdateRevoke(r)
  <2> DEFINE e == req[r].user
             own == req[r].own
             S == OpenSessions(e) \ {own}
  <2>1. LET x == [req[r] EXCEPT !.at = "update.save"] IN
          x.user = e /\ x.own = own /\ x.at = "update.save"
    BY <1>0, <1>9 DEF UpdateRevoke, At, InFlight, Idle
  <2>2. /\ S \in SUBSET Sessions
        /\ \A s \in S : sessions[s].state # "free"
        /\ Revoke(S)
    BY <1>9 DEF OpenSessions, UpdateRevoke
  <2>3. \A s \in Sessions : sessions'[s].state = "live" =>
          /\ sessions[s].state = "live" /\ s \notin S
          /\ sessions'[s].user = sessions[s].user /\ sessions'[s].seen = sessions[s].seen
    BY <1>0, <2>2, RevokeKeepsRows
  <2>4. StaleSessionExcused'
    BY <1>9, <2>3 DEF UpdateRevoke, Staleness, StaleSessionExcused, Current
  <2>5. \A s \in Sessions :
          sessions'[s].state = "live" /\ sessions'[s].user = e => s = own
    BY <2>3 DEF OpenSessions
  <2>6. /\ req'[r].user = e /\ req'[r].own = own /\ req'[r].at = "update.save"
        /\ \A q \in Requests \ {r} : req'[q] = req[q]
        /\ UNCHANGED excused
    BY <1>0, <1>9, <2>1 DEF UpdateRevoke, Becomes, TypeOK
  <2>7. Windows'
    BY <2>3, <2>5, <2>6 DEF Staleness, Windows, OpenSessions
  <2> QED BY <2>4, <2>7 DEF Staleness
<1>10. CASE UpdateSave(r)
  <2> DEFINE e == req[r].user
             own == req[r].own
             w == req[r].word
  <2>1. e \in Emails /\ w \in Passwords /\ own \in Sessions
    BY <1>0, <1>10, RequestFields DEF UpdateSave, At
  <2>2. /\ Exists(users[e])
        /\ sessions[own].state # "free" /\ sessions[own].user = e
    BY <1>10 DEF UpdateSave, At, Base, References
  <2>3. users'[e].password.word = w
    <3>1. users[e] \in UserRow
      BY <1>0, <2>1, <2>2, RowOrNone DEF TypeOK
    <3>2. PatchedPassword(users[e], w).password = Hashed(w)
      BY <2>1, <3>1, PasswordPatchIsRow
    <3>3. users'[e] = PatchedPassword(users[e], w)
      BY <1>0, <1>10, <2>1 DEF UpdateSave, TypeOK
    <3> QED BY <3>2, <3>3 DEF Hashed
  <2>4. \A x \in Emails \ {e} : users'[x] = users[x]
    BY <1>0, <1>10 DEF UpdateSave, TypeOK
  <2>5. /\ sessions'[own].seen = w /\ sessions'[own].user = e
        /\ sessions'[own].state = sessions[own].state
        /\ \A s \in Sessions \ {own} : sessions'[s] = sessions[s]
        /\ UNCHANGED excused
    BY <1>0, <1>10, <2>1, <2>2 DEF UpdateSave, TypeOK, SessionRow, FreeId
  <2>6. OpenSessions(e) \ {own} \subseteq excused
    BY <1>10 DEF UpdateSave, At, Staleness, Windows
  <2>7. ASSUME NEW s \in Sessions, sessions'[s].state = "live", s \notin excused
        PROVE  sessions'[s].seen = users'[sessions'[s].user].password.word
    <3>1. CASE s = own
      BY <2>3, <2>5, <3>1
    <3>2. CASE s # own
      <4>1. sessions'[s] = sessions[s] /\ sessions[s].user # e
        BY <2>5, <2>6, <2>7, <3>2 DEF OpenSessions
      <4>2. sessions[s].user \in Emails
        BY <1>0, <2>7, <4>1 DEF TypeOK, SessionRow, FreeId
      <4> QED BY <2>4, <2>7, <4>1, <4>2 DEF Staleness, StaleSessionExcused, Current
    <3> QED BY <3>1, <3>2
  <2>8. StaleSessionExcused'
    BY <2>5, <2>7 DEF StaleSessionExcused, Current
  <2>9. \A q \in Requests :
          req'[q].at \in {"reset.save", "update.save"} => req'[q] = req[q]
    BY <1>0, <1>10, OthersStay DEF UpdateSave, Answered, Idle
  <2>10. \A x : OpenSessions(x)' \subseteq OpenSessions(x)
    BY <2>2, <2>5 DEF OpenSessions
  <2>11. Windows'
    BY <2>5, <2>9, <2>10 DEF Staleness, Windows
  <2> QED BY <2>8, <2>11 DEF Staleness
<1> QED BY <1>2, <1>3, <1>4, <1>5, <1>6, <1>7, <1>8, <1>9, <1>10 DEF Advance

LEMMA StalenessOther ==
  ASSUME Base, Hashing, Staleness,
         \/ AtOnce
         \/ \E s \in Sessions : AccessExpires(s)
         \/ \E r \in Requests : Fail(r)
  PROVE  Staleness'
<1>0. TypeOK
  BY DEF Base
<1>1. ASSUME NEW s \in Sessions, Logout(s)
      PROVE  Staleness'
  <2>1. sessions[s].state # "free"
    BY <1>1 DEF Logout, Base, References
  <2>2. \A x \in Sessions : sessions'[x].state = "live" =>
          /\ sessions[x].state = "live"
          /\ sessions'[x].user = sessions[x].user /\ sessions'[x].seen = sessions[x].seen
    BY <1>0, <1>1, <2>1, RevokeKeepsRows DEF Logout
  <2> QED BY <1>0, <1>1, <2>2, QuietStep DEF Logout, Current
<1>2. ASSUME NEW e \in Emails, Exists(users[e]), NEW row \in UserRow,
             users' = [users EXCEPT ![e] = row],
             row.password = users[e].password,
             UNCHANGED <<sessions, req, excused>>
      PROVE  Staleness'
  BY <1>2, RowStep DEF Current
<1>3. ASSUME NEW e \in Emails, Exists(users[e]),
             users' = [users EXCEPT ![e].state = "deleted"],
             UNCHANGED <<sessions, req, excused>>
      PROVE  Staleness'
  <2>1. /\ [users[e] EXCEPT !.state = "deleted"] \in UserRow
        /\ [users[e] EXCEPT !.state = "deleted"].password = users[e].password
    BY <1>0, <1>3, RowOrNone DEF TypeOK, UserRow
  <2> QED BY <1>2, <1>3, <2>1
<1>4. ASSUME NEW s \in Sessions, DeleteMe(s)
      PROVE  Staleness'
  <2>1. sessions[s].user \in Emails /\ Exists(users[sessions[s].user])
    BY <1>0, <1>4 DEF DeleteMe, Base, References, TypeOK, SessionRow, FreeId
  <2> QED BY <1>3, <1>4, <2>1 DEF DeleteMe
<1>5. ASSUME NEW e \in Emails, AdminRemoves(e)
      PROVE  Staleness'
  BY <1>3, <1>5 DEF AdminRemoves
<1>6. ASSUME NEW e \in Emails, NEW w \in Passwords, AdminSetsPassword(e, w)
      PROVE  Staleness'
  <2>1. PatchedPassword(users[e], w) \in UserRow
    BY <1>0, <1>6, RowOrNone, PasswordPatchIsRow DEF AdminSetsPassword, TypeOK
  <2> QED BY <1>6, <2>1, RowStep DEF AdminSetsPassword
<1>7. ASSUME NEW e \in Emails, NEW status \in {"active", "inactive"},
             AdminSetsStatus(e, status)
      PROVE  Staleness'
  <2>1. /\ PatchedStatus(users[e], status) \in UserRow
        /\ PatchedStatus(users[e], status).password = users[e].password
    BY <1>0, <1>7, RowOrNone, StatusPatchIsRow DEF AdminSetsStatus, TypeOK
  <2> QED BY <1>2, <1>7, <2>1 DEF AdminSetsStatus
<1>8. ASSUME NEW s \in Sessions, AccessExpires(s)
      PROVE  Staleness'
  BY <1>0, <1>8, QuietStep DEF AccessExpires, Current
<1>9. ASSUME NEW r \in Requests, Fail(r)
      PROVE  Staleness'
  BY <1>0, <1>9, OthersStay, QuietStep DEF Fail, Answered, Idle, Current
<1>10. ASSUME NEW e \in Emails, NEW pin \in DtoPins, AdminSetsPin(e, pin)
       PROVE  Staleness'
  <2>1. /\ PatchedPin(users[e], pin) \in UserRow
        /\ PatchedPin(users[e], pin).password = users[e].password
    BY <1>0, <1>10, RowOrNone, PinPatchIsRow DEF AdminSetsPin, TypeOK
  <2> QED BY <1>2, <1>10, <2>1 DEF AdminSetsPin
<1>11. ASSUME NEW e \in Emails, NEW w \in Passwords, NEW status \in {"active", "inactive"},
              NEW pin \in DtoPins, AdminCreates(e, w, status, pin)
       PROVE  Staleness'
  <2>1. OpenSessions(e) = {}
    BY <1>11 DEF AdminCreates, OpenSessions, Base, References
  <2> QED BY <1>11, <2>1, InsertedIsRow, RowStep DEF AdminCreates
<1> QED BY <1>1, <1>4, <1>5, <1>6, <1>7, <1>8, <1>9, <1>10, <1>11 DEF AtOnce

LEMMA StalenessStutter == Staleness /\ UNCHANGED vars => Staleness'
BY DEF Staleness, StaleSessionExcused, Windows, OpenSessions, Current, vars

LEMMA Inductive ==
  /\ Init => IInv
  /\ IInv /\ [Next]_vars => IInv'
<1>1. Init => IInv
  BY BaseInit, HashingInit, StalenessInit DEF IInv
<1>2. IInv /\ [Next]_vars => IInv'
  BY BaseReceive, BaseAdvance, BaseOther, BaseStutter,
     HashingReceive, HashingAdvance, HashingOther, HashingStutter,
     StalenessReceive, StalenessAdvance, StalenessOther, StalenessStutter
  DEF Next, IInv
<1> QED BY <1>1, <1>2

\* An open session carries the password its user has now, or it slipped
\* through one of the windows that "excused" names.
THEOREM StaleSessionsAreExcused == Spec => []StaleSessionExcused
<1>1. IInv => StaleSessionExcused
  BY DEF IInv, Staleness
<1> QED BY <1>1, Inductive, PTL DEF Spec

-----------------------------------------------------------------------------
(* What no step may do to a pin *)

\* The row confirmEmail saves has no pin to match; the row resetPassword saves
\* has a pin hashed at least once more than the row it read.
LEMMA SavesSpoilPins ==
  ASSUME Base, Hashing, NEW r \in Requests, ConfirmSave(r) \/ ResetSave(r),
         NEW e \in Emails, Exists(users[e]), ~PinMatches(users[e].pin)
  PROVE  ~PinMatches(users'[e].pin)
<1> DEFINE u == req[r].user
           image == req[r].image
<1>0. TypeOK /\ u \in Emails /\ image \in UserRow
  BY RequestFields DEF Base, TypeOK, ConfirmSave, ResetSave, At
<1>1. ASSUME e # u
      PROVE  users'[e] = users[e]
  BY <1>0, <1>1 DEF TypeOK, ConfirmSave, ResetSave
<1>2. CASE e = u /\ ConfirmSave(r)
  <2> DEFINE entity == Confirmed(image)
             hooked == SetPassword(entity, LoadedPassword(image))
  <2>1. entity \in UserRow /\ entity.pin = "blank"
    BY <1>0 DEF Confirmed, UserRow, Pins
  <2>2. hooked = entity
    BY <1>0 DEF SetPassword, LoadedPassword, Confirmed, UserRow
  <2>3. Saved(entity, LoadedPassword(image), users[e]).pin = "blank"
    BY <2>1, <2>2, SetPinFacts DEF Saved
  <2> QED BY <1>0, <1>2, <2>3 DEF ConfirmSave, TypeOK, PinMatches
<1>3. CASE e = u /\ ResetSave(r)
  <2> DEFINE entity == [image EXCEPT !.password = Plain(req[r].word)]
             hooked == SetPassword(entity, LoadedPassword(image))
  <2>1. req[r].word \in Passwords /\ image.pin \notin {"plain", "typed"}
    BY <1>0, <1>3, RequestFields
    DEF Base, TypeOK, ResetSave, At, Hashing, ImagesHashed
  <2>2. /\ entity \in UserRow /\ entity.pin \notin {"plain", "typed"}
        /\ entity.password.form = "plain"
    BY <1>0, <2>1 DEF UserRow, Secret, Forms, Plain
  <2>3. entity # users[e]
    BY <2>2 DEF Hashing, SecretsHashed
  <2>4. hooked \in UserRow /\ hooked.pin = entity.pin
    BY <2>2, SetPasswordFacts
  <2>5. ~PinMatches(SetPin(hooked).pin)
    BY <2>2, <2>4, SetPinFacts
  <2>6. ~PinMatches(Saved(entity, LoadedPassword(image), users[e]).pin)
    BY <2>3, <2>5 DEF Saved
  <2> QED BY <1>0, <1>3, <2>6 DEF ResetSave, TypeOK
<1> QED BY <1>1, <1>2, <1>3

LEMMA PinStep ==
  ASSUME Base, Hashing, Next,
         NEW e \in Emails, Exists(users[e]), ~PinMatches(users[e].pin),
         ~AdminSetsPin(e, "typed")
  PROVE  ~PinMatches(users'[e].pin)
<1>0. TypeOK /\ users[e] \in UserRow
  BY RowOrNone DEF Base, TypeOK
<1>1. CASE UNCHANGED users
  BY <1>1
<1>2. ASSUME NEW u \in Emails, NEW row, users' = [users EXCEPT ![u] = row],
             Exists(users[u]) /\ PinMatches(row.pin) => row.pin = users[u].pin
      PROVE  ~PinMatches(users'[e].pin)
  BY <1>0, <1>2 DEF TypeOK
<1>3. ASSUME NEW r \in Requests, Receive(r)
      PROVE  ~PinMatches(users'[e].pin)
  BY <1>1, <1>3 DEF Receive, RegisterValidate, LoginRead, ConfirmRead, ForgotRead,
     ResetRead, RefreshRead, UpdateRead
<1>4. ASSUME NEW r \in Requests, Advance(r)
      PROVE  ~PinMatches(users'[e].pin)
  <2>0. req[r] \in InFlight \cup {Idle}
    BY <1>0 DEF TypeOK
  <2>1. CASE RegisterInsert(r)
    <3>1. req[r].user \in Emails
      BY <2>0, <2>1, RequestFields DEF RegisterInsert, At
    <3> QED BY <1>1, <1>2, <2>1, <3>1 DEF RegisterInsert
  <2>2. CASE ConfirmSave(r) \/ ResetSave(r)
    BY <2>2, SavesSpoilPins
  <2>3. CASE UpdateSave(r)
    <3>1. /\ req[r].user \in Emails /\ req[r].word \in Passwords
          /\ Exists(users[req[r].user])
      BY <2>0, <2>3, RequestFields DEF UpdateSave, At, Base, References
    <3>2. PatchedPassword(users[req[r].user], req[r].word).pin = users[req[r].user].pin
      BY <1>0, <3>1, RowOrNone, PasswordPatchIsRow DEF TypeOK
    <3> QED BY <1>2, <2>3, <3>1, <3>2 DEF UpdateSave
  <2>4. CASE UNCHANGED users
    BY <2>4
  <2> QED BY <1>4, <2>1, <2>2, <2>3, <2>4
          DEF Advance, RegisterMail, LoginCreate, SignTokens, ForgotCreate, ForgotMail,
              ResetRevoke, ResetConsume, UpdateRevoke
<1>5. ASSUME NEW u \in Emails, Exists(users[u]),
             users' = [users EXCEPT ![u].state = "deleted"]
      PROVE  ~PinMatches(users'[e].pin)
  <2>1. [users[u] EXCEPT !.state = "deleted"].pin = users[u].pin
    BY <1>0, <1>5, RowOrNone DEF TypeOK, UserRow
  <2> QED BY <1>2, <1>5, <2>1
<1>6. ASSUME NEW s \in Sessions, DeleteMe(s)
      PROVE  ~PinMatches(users'[e].pin)
  <2>1. sessions[s].user \in Emails /\ Exists(users[sessions[s].user])
    BY <1>0, <1>6 DEF DeleteMe, Base, References, TypeOK, SessionRow, FreeId
  <2> QED BY <1>5, <1>6, <2>1 DEF DeleteMe
<1>7. ASSUME NEW u \in Emails, AdminRemoves(u)
      PROVE  ~PinMatches(users'[e].pin)
  BY <1>5, <1>7 DEF AdminRemoves
<1>8. ASSUME NEW u \in Emails, NEW w \in Passwords, AdminSetsPassword(u, w)
      PROVE  ~PinMatches(users'[e].pin)
  <2>1. PatchedPassword(users[u], w).pin = users[u].pin
    BY <1>0, <1>8, RowOrNone, PasswordPatchIsRow DEF AdminSetsPassword, TypeOK
  <2> QED BY <1>2, <1>8, <2>1 DEF AdminSetsPassword
<1>9. ASSUME NEW u \in Emails, NEW status \in {"active", "inactive"},
             AdminSetsStatus(u, status)
      PROVE  ~PinMatches(users'[e].pin)
  <2>1. PatchedStatus(users[u], status).pin = users[u].pin
    BY <1>0, <1>9, RowOrNone, StatusPatchIsRow DEF AdminSetsStatus, TypeOK
  <2> QED BY <1>2, <1>9, <2>1 DEF AdminSetsStatus
<1>10. ASSUME NEW u \in Emails, NEW pin \in DtoPins, AdminSetsPin(u, pin)
       PROVE  ~PinMatches(users'[e].pin)
  <2>1. CASE u = e
    <3>1. pin # "typed"
      BY <1>10, <2>1
    <3>2. users'[e] = PatchedPin(users[e], pin)
      BY <1>0, <1>10, <2>1 DEF AdminSetsPin, TypeOK
    <3> QED BY <1>0, <3>1, <3>2, PinPatchIsRow
  <2>2. CASE u # e
    BY <1>0, <1>10, <2>2 DEF AdminSetsPin, TypeOK
  <2> QED BY <2>1, <2>2
<1>11. ASSUME NEW u \in Emails, NEW w \in Passwords, NEW status \in {"active", "inactive"},
              NEW pin \in DtoPins, AdminCreates(u, w, status, pin)
       PROVE  ~PinMatches(users'[e].pin)
  BY <1>2, <1>11 DEF AdminCreates
<1> QED BY <1>1, <1>3, <1>4, <1>6, <1>7, <1>8, <1>9, <1>10, <1>11
        DEF Next, AtOnce, Logout, AccessExpires, Fail

\* A pin that stopped matching does not match again, whichever handlers race,
\* until an administrator writes one.
THEOREM PinsAreSingleUse == Spec => PinIsSingleUse
<1>1. Init => Base /\ Hashing
  BY BaseInit, HashingInit
<1>2. Base /\ Hashing /\ [Next]_vars => Base' /\ Hashing'
  BY BaseReceive, BaseAdvance, BaseOther, BaseStutter,
     HashingReceive, HashingAdvance, HashingOther, HashingStutter DEF Next
<1>3. Base /\ Hashing /\ [Next]_vars =>
        [\A e \in Emails :
           Exists(users[e]) /\ ~PinMatches(users[e].pin) /\ PinMatches(users'[e].pin)
             => AdminSetsPin(e, "typed")]_vars
  BY PinStep
<1> QED BY <1>1, <1>2, <1>3, PTL DEF Spec, PinIsSingleUse

-----------------------------------------------------------------------------
(* How a deleted account comes back *)

\* The state a save() leaves is the state the row had when it was read.
LEMMA SavedState ==
  ASSUME NEW entity \in UserRow, NEW previous, NEW stored
  PROVE  Saved(entity, previous, stored).state = entity.state
<1> DEFINE hooked == SetPassword(entity, previous)
<1>1. hooked \in UserRow /\ hooked.state = entity.state
  BY SetPasswordFacts DEF SetPassword, UserRow
<1>2. SetPin(hooked).state = hooked.state
  BY <1>1, SetPinFacts
<1> QED BY <1>1, <1>2 DEF Saved

\* A request has saved a row image of e's that was live, and has gone on.
StaleSave(e) ==
  \E r \in Requests : /\ req[r].at \in {"confirm.save", "reset.save"}
                      /\ req[r].user = e
                      /\ req[r].image.state = "live"
                      /\ req'[r] # req[r]

LEMMA RevivedByImage ==
  ASSUME Base, NEW r \in Requests, ConfirmSave(r) \/ ResetSave(r),
         NEW e \in Emails, users[e].state = "deleted", users'[e].state # "deleted"
  PROVE  StaleSave(e)
<1> DEFINE u == req[r].user
           image == req[r].image
<1>0. TypeOK /\ u \in Emails /\ image \in UserRow
  BY RequestFields DEF Base, TypeOK, ConfirmSave, ResetSave, At
<1>1. e = u
  BY <1>0 DEF TypeOK, ConfirmSave, ResetSave
<1>2. req'[r] # req[r]
  BY <1>0 DEF TypeOK, ConfirmSave, ResetSave, At, Answered, Becomes, Idle
<1>3. users'[e].state = image.state
  <2>1. CASE ConfirmSave(r)
    <3>1. Confirmed(image) \in UserRow /\ Confirmed(image).state = image.state
      BY <1>0 DEF Confirmed, UserRow, Pins
    <3> QED BY <1>0, <1>1, <2>1, <3>1, SavedState DEF ConfirmSave, TypeOK
  <2>2. CASE ResetSave(r)
    <3> DEFINE entity == [image EXCEPT !.password = Plain(req[r].word)]
    <3>1. req[r].word \in Passwords
      BY <1>0, <2>2, RequestFields DEF TypeOK, ResetSave, At
    <3>2. entity \in UserRow /\ entity.state = image.state
      BY <1>0, <3>1 DEF UserRow, Secret, Forms, Plain
    <3>3. Saved(entity, LoadedPassword(image), users[e]).state = entity.state
      <4> HIDE DEF entity
      <4> QED BY <3>2, SavedState
    <3> QED BY <1>0, <1>1, <2>2, <3>2, <3>3 DEF ResetSave, TypeOK
  <2> QED BY <2>1, <2>2
<1>4. image.state = "live"
  BY <1>0, <1>3 DEF UserRow
<1> QED BY <1>1, <1>2, <1>4 DEF StaleSave, ConfirmSave, ResetSave, At

LEMMA RevivalStep ==
  ASSUME Base, Next, NEW e \in Emails,
         users[e].state = "deleted", users'[e].state # "deleted"
  PROVE  StaleSave(e)
<1>0. TypeOK /\ users[e] \in UserRow
  BY DEF Base, TypeOK, NoUser
<1>1. ASSUME UNCHANGED users
      PROVE  FALSE
  BY <1>1
<1>2. ASSUME NEW u \in Emails, NEW row, users' = [users EXCEPT ![u] = row],
             users[u].state = "deleted" => row.state = "deleted"
      PROVE  FALSE
  BY <1>0, <1>2 DEF TypeOK
<1>3. ASSUME NEW r \in Requests, Receive(r)
      PROVE  FALSE
  BY <1>1, <1>3 DEF Receive, RegisterValidate, LoginRead, ConfirmRead, ForgotRead,
     ResetRead, RefreshRead, UpdateRead
<1>4. ASSUME NEW r \in Requests, Advance(r)
      PROVE  StaleSave(e)
  <2>0. req[r] \in InFlight \cup {Idle}
    BY <1>0 DEF TypeOK
  <2>1. CASE RegisterInsert(r)
    <3>1. req[r].user \in Emails
      BY <2>0, <2>1, RequestFields DEF RegisterInsert, At
    <3> QED BY <1>1, <1>2, <2>1, <3>1 DEF RegisterInsert, Exists
  <2>2. CASE ConfirmSave(r) \/ ResetSave(r)
    BY <2>2, RevivedByImage
  <2>3. CASE UpdateSave(r)
    <3>1. /\ req[r].user \in Emails /\ req[r].word \in Passwords
          /\ Exists(users[req[r].user])
      BY <2>0, <2>3, RequestFields DEF UpdateSave, At, Base, References
    <3>2. PatchedPassword(users[req[r].user], req[r].word).state
            = users[req[r].user].state
      BY <1>0, <3>1, RowOrNone, PasswordPatchIsRow DEF TypeOK
    <3> QED BY <1>2, <2>3, <3>1, <3>2 DEF UpdateSave
  <2> QED BY <1>1, <1>4, <2>1, <2>2, <2>3
          DEF Advance, RegisterMail, LoginCreate, SignTokens, ForgotCreate, ForgotMail,
              ResetRevoke, ResetConsume, UpdateRevoke
<1>5. ASSUME NEW u \in Emails, users' = [users EXCEPT ![u].state = "deleted"]
      PROVE  FALSE
  BY <1>0, <1>5 DEF TypeOK, UserRow
<1>6. ASSUME NEW s \in Sessions, DeleteMe(s)
      PROVE  FALSE
  <2>1. sessions[s].user \in Emails
    BY <1>0, <1>6 DEF DeleteMe, Base, References, TypeOK, SessionRow, FreeId
  <2> QED BY <1>5, <1>6, <2>1 DEF DeleteMe
<1>7. ASSUME NEW u \in Emails, AdminRemoves(u)
      PROVE  FALSE
  BY <1>5, <1>7 DEF AdminRemoves
<1>8. ASSUME NEW u \in Emails, NEW w \in Passwords, AdminSetsPassword(u, w)
      PROVE  FALSE
  <2>1. PatchedPassword(users[u], w).state = users[u].state
    BY <1>0, <1>8, RowOrNone, PasswordPatchIsRow DEF AdminSetsPassword, TypeOK
  <2> QED BY <1>2, <1>8, <2>1 DEF AdminSetsPassword
<1>9. ASSUME NEW u \in Emails, NEW status \in {"active", "inactive"},
             AdminSetsStatus(u, status)
      PROVE  FALSE
  <2>1. PatchedStatus(users[u], status).state = users[u].state
    BY <1>0, <1>9, RowOrNone, StatusPatchIsRow DEF AdminSetsStatus, TypeOK
  <2> QED BY <1>2, <1>9, <2>1 DEF AdminSetsStatus
<1>10. ASSUME NEW u \in Emails, NEW pin \in DtoPins, AdminSetsPin(u, pin)
       PROVE  FALSE
  <2>1. PatchedPin(users[u], pin).state = users[u].state
    BY <1>0, <1>10, RowOrNone, PinPatchIsRow DEF AdminSetsPin, TypeOK
  <2> QED BY <1>2, <1>10, <2>1 DEF AdminSetsPin
<1>11. ASSUME NEW u \in Emails, NEW w \in Passwords, NEW status \in {"active", "inactive"},
              NEW pin \in DtoPins, AdminCreates(u, w, status, pin)
       PROVE  FALSE
  BY <1>2, <1>11 DEF AdminCreates, Exists
<1> QED BY <1>1, <1>3, <1>4, <1>6, <1>7, <1>8, <1>9, <1>10, <1>11
        DEF Next, AtOnce, Logout, AccessExpires, Fail

\* Nothing but the save of an image that was read before the deletion brings a
\* deleted account back.
THEOREM ResurrectionsAreStale == Spec => ResurrectionNeedsStaleImage
<1>1. Init => Base
  BY BaseInit
<1>2. Base /\ [Next]_vars => Base'
  BY BaseReceive, BaseAdvance, BaseOther, BaseStutter DEF Next
<1>3. Base /\ [Next]_vars =>
        [\A e \in Emails : users[e].state = "deleted" /\ users'[e].state # "deleted"
           => \E r \in Requests : /\ req[r].at \in {"confirm.save", "reset.save"}
                                  /\ req[r].user = e
                                  /\ req[r].image.state = "live"
                                  /\ req'[r] # req[r]]_vars
  BY RevivalStep DEF StaleSave
<1> QED BY <1>1, <1>2, <1>3, PTL DEF Spec, ResurrectionNeedsStaleImage
=============================================================================
