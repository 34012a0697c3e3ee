----------------------------- MODULE UserEntity -----------------------------
(***************************************************************************)
(* The row of table "user" (src/users/entities/user.entity.ts) and the     *)
(* hooks TypeORM runs before it writes one.                                *)
(*                                                                         *)
(* A secret is known by the text a person typed and by how often bcrypt    *)
(* has been applied to it: "plain" never, "hashed" once, "rehashed" more   *)
(* than once.  bcrypt.compare accepts a text only against one hash of it.  *)
(* Salts are left out: two hashes of one text are the same value here.     *)
(* The profile columns (names, photo, socialId, hash) are left out: no     *)
(* handler modelled in this project branches on them.                      *)
(***************************************************************************)
EXTENDS Naturals

CONSTANT Passwords     \* the texts a person may choose as a password

Forms == {"plain", "hashed", "rehashed"}

\* bcrypt.hash with a fresh salt.
Bcrypt == [plain |-> "hashed", hashed |-> "rehashed", rehashed |-> "rehashed"]

Secret == [word : Passwords, form : Forms]
Plain(w) == [word |-> w, form |-> "plain"]
Hashed(w) == [word |-> w, form |-> "hashed"]

\* bcrypt.compare(w, stored)
Compare(w, stored) == stored = Hashed(w)

\* A pin is the one drawn at the registration ("plain", one "hashed") or one an
\* administrator typed ("typed", "chosen"); hashed twice it is no use any more.
PinHash == [plain |-> "hashed", typed |-> "chosen",
            hashed |-> "rehashed", chosen |-> "rehashed", rehashed |-> "rehashed"]

\* The pin column: null, '' once it was used, or a pin.
Pins == {"null", "blank"} \cup DOMAIN PinHash

\* bcrypt.compare(pin, stored) for the pin that was drawn or typed last.
PinMatches(stored) == stored \in {"hashed", "chosen"}

UserRow == [state : {"live", "deleted"}, status : {"active", "inactive"},
            password : Secret, pin : Pins]
NoUser == [state |-> "none"]   \* no row was ever inserted

\* A row findOne can return: TypeORM hides the rows with a deletedAt.
IsLive(user) == user.state = "live"
Exists(user) == user.state # "none"

\* Mutant of SetPassword: without the comparison with previousPassword.
SetPasswordAlways(entity, previous) == [entity EXCEPT !.password.form = Bcrypt[@]]

\* @BeforeInsert/@BeforeUpdate setPassword: hash unless it is what was loaded.
SetPassword(entity, previous) ==
  IF entity.password # previous
    THEN [entity EXCEPT !.password.form = Bcrypt[@]]
    ELSE entity

\* Mutant of SetPin: with the guard that previousPin was meant for.
SetPinIfChanged(entity) ==
  IF entity.pin \in {"plain", "typed"} THEN [entity EXCEPT !.pin = PinHash[@]] ELSE entity

\* @BeforeInsert/@BeforeUpdate setPin: previousPin is never loaded, so every
\* non-empty pin is hashed, the one that was just read from the row included.
SetPin(entity) ==
  IF entity.pin \in DOMAIN PinHash THEN [entity EXCEPT !.pin = PinHash[@]] ELSE entity

\* A loaded entity with the previousPassword that @AfterLoad kept.
LoadedPassword(image) == image.password

\* entity.save(): every column that differs from the stored row is written
\* back, deletedAt included; the hooks run only when some column differs.
Saved(entity, previous, stored) ==
  IF entity = stored THEN stored ELSE SetPin(SetPassword(entity, previous))

\* save(create({id, ...payload})): only the payload's columns are written, and
\* no previousPassword was loaded; the hooks run on them.
PatchedPassword(stored, w) == [stored EXCEPT !.password = Hashed(w)]
\* Mutant of PatchedStatus: the payload carries a whole entity, deletedAt null.
PatchedWholeRow(stored, status) == [stored EXCEPT !.status = status, !.state = "live"]
PatchedStatus(stored, status) == [stored EXCEPT !.status = status]

\* What an administrator's dto may carry for a pin: a text, or null.
DtoPins == {"typed", "null"}

PatchedPin(stored, pin) == SetPin([stored EXCEPT !.pin = pin])

\* Mutant of Inserted: the status is forgotten.
InsertedWithoutStatus(w, status, pin) ==
  SetPin(SetPassword([state |-> "live", status |-> "null",
                      password |-> Plain(w), pin |-> pin], NoUser))

\* save(create(dto)) of a registration, or of an administrator, after both hooks.
Inserted(w, status, pin) ==
  SetPin(SetPassword([state |-> "live", status |-> status,
                      password |-> Plain(w), pin |-> pin], NoUser))
=============================================================================
