--------------------------- MODULE Administration ---------------------------
(***************************************************************************)
(* Who is an administrator, and who can make one.  The administrators'     *)
(* routes (src/users/users.controller.ts) are open to an access token that *)
(* names the role admin (src/roles/roles.guard.ts); the token got its role *)
(* from the row, at a login or a refresh, and keeps it until it expires.   *)
(* Each request is followed from its guard over its validation and its     *)
(* reads to its last statement; the others run in between.                 *)
(*                                                                         *)
(* Rows are keyed by the id that the serial sequence of the table hands    *)
(* out: PATCH users/:id of an id nobody has inserts a row under it and     *)
(* leaves the sequence where it was.  A row is reduced to deletedAt, the   *)
(* address and the role; passwords and statuses are in AuthService, so a   *)
(* login here may always turn out to have the right password.              *)
(***************************************************************************)
EXTENDS Naturals, Sequences

CONSTANTS Emails, NoEmail,
          MaxId,         \* ids are 1 .. MaxId (bound)
          Requests,      \* requests in flight at once (bound)
          Commands,      \* what the administrators send
          Seeded         \* the rows the seeds left, in the order of their ids

Ids == 1 .. MaxId
Roles == {"admin", "user"}
Row == [state : {"live", "deleted"}, email : Emails \cup {NoEmail},
        role : Roles \cup {"null"}]
NoRow == [state |-> "none"]

\* A dto of a create, or of a patch, where a column may stay as it is.
Keep == "keep"
Creation == [do : {"create"}, email : Emails, role : Roles]
Patch == [do : {"patch"}, id : Ids, email : Emails \cup {NoEmail, Keep},
          role : Roles \cup {"null", Keep}]
Removal == [do : {"remove"}, id : Ids]

ASSUME CommandsAssumption == Commands \subseteq Creation \cup Patch \cup Removal
ASSUME MaxIdAssumption == MaxId \in Nat
ASSUME SeededAssumption == Seeded \in Seq(Row) /\ Len(Seeded) \in 1 .. MaxId
ASSUME NoEmailAssumption == NoEmail \notin Emails \cup {Keep} /\ Keep \notin Emails

VARIABLES
  rows,        \* id -> row of table user, or NoRow
  nextId,      \* what nextval returns next; past MaxId, inserts are left out
  sessions,    \* ids of the users with an open session
  tokens,      \* access tokens that are neither expired nor lost
  req          \* what each request in flight holds

vars == <<rows, nextId, sessions, tokens, req>>

Token == [user : Ids, role : Roles \cup {"null"}]
Idle == [at |-> "idle"]

InFlight ==
  [at : {"validate", "execute"}, cmd : Creation \cup Patch \cup Removal]
  \cup [at : {"session", "sign"}, token : Token]
  \cup [at : {"save"}, id : Ids, image : Row]

TypeOK ==
  /\ rows \in [Ids -> Row \cup {NoRow}]
  /\ nextId \in 1 .. MaxId + 1
  /\ sessions \subseteq Ids
  /\ tokens \subseteq Token
  /\ req \in [Requests -> InFlight \cup {Idle}]

Init ==
  /\ rows = [i \in Ids |-> IF i <= Len(Seeded) THEN Seeded[i] ELSE NoRow]
  /\ nextId = Len(Seeded) + 1
  /\ sessions = {}
  /\ tokens = {}
  /\ req = [r \in Requests |-> Idle]

-----------------------------------------------------------------------------
At(r, label) == req[r].at = label
Becomes(r, rec) == req' = [req EXCEPT ![r] = rec]
Answered(r) == Becomes(r, Idle)

Exists(i) == rows[i] # NoRow
Live(i) == rows[i].state = "live"

\* IsNotExist sees the live rows, the UNIQUE constraint all of them.
NobodyHas(email) == \A i \in Ids : Live(i) => rows[i].email # email
AddressIsFree(email, i) ==
  \A j \in Ids \ {i} : Exists(j) /\ email # NoEmail => rows[j].email # email

(* sessions and tokens ----------------------------------------------------*)

\* validateLogin with a role one of the two login routes lets in; a social
\* login asks for no role.  Either way the role is the one of this read.
LoginReads(r, i) ==
  /\ At(r, "idle")
  /\ Live(i) /\ rows[i].email # NoEmail
  /\ Becomes(r, [at |-> "session", token |-> [user |-> i, role |-> rows[i].role]])
  /\ UNCHANGED <<rows, nextId, sessions, tokens>>

OpenSession(r) ==
  /\ At(r, "session")
  /\ sessions' = sessions \cup {req[r].token.user}
  /\ Becomes(r, [req[r] EXCEPT !.at = "sign"])
  /\ UNCHANGED <<rows, nextId, tokens>>

\* Mutant of RefreshReads: the role is taken from an older token.
RefreshKeepsRole(r, i) ==
  /\ At(r, "idle")
  /\ i \in sessions
  /\ \E t \in tokens : t.user = i /\ Becomes(r, [at |-> "sign", token |-> t])
  /\ UNCHANGED <<rows, nextId, sessions, tokens>>

\* refreshToken joins the session's user, so the role is read once more; the
\* user of a deleted row is null and signing throws.
RefreshReads(r, i) ==
  /\ At(r, "idle")
  /\ i \in sessions
  /\ Live(i)
  /\ Becomes(r, [at |-> "sign", token |-> [user |-> i, role |-> rows[i].role]])
  /\ UNCHANGED <<rows, nextId, sessions, tokens>>

SignTokens(r) ==
  /\ At(r, "sign")
  /\ tokens' = tokens \cup {req[r].token}
  /\ Answered(r)
  /\ UNCHANGED <<rows, nextId, sessions>>

CloseSession(i) ==
  /\ i \in sessions
  /\ sessions' = sessions \ {i}
  /\ UNCHANGED <<rows, nextId, tokens, req>>

Expire(t) ==
  /\ t \in tokens
  /\ tokens' = tokens \ {t}
  /\ UNCHANGED <<rows, nextId, sessions, req>>

(* the administrators' routes and registration ----------------------------*)

\* RolesGuard.canActivate: the role the token names, not the one of the row.
CanActivate == \E t \in tokens : t.role = "admin"

Receives(r, cmd) ==
  /\ At(r, "idle")
  /\ Becomes(r, [at |-> "validate", cmd |-> cmd])
  /\ UNCHANGED <<rows, nextId, sessions, tokens>>

\* Mutant of RegisteredRole: the role of the dto is spread last.
RoleOfDto(asked) == asked

\* register overwrites the role its caller asked for.
RegisteredRole(asked) == "user"

Register(r, email, asked) ==
  Receives(r, [do |-> "create", email |-> email, role |-> RegisteredRole(asked)])

AdminCommand(r, cmd) == CanActivate /\ Receives(r, cmd)

\* The pipe: IsNotExist on the address of the dto, when there is one.
AddressTaken(cmd) == cmd.do # "remove" /\ cmd.email \in Emails /\ ~NobodyHas(cmd.email)

Validate(r) ==
  /\ At(r, "validate")
  /\ IF AddressTaken(req[r].cmd) THEN Answered(r)
                                 ELSE Becomes(r, [req[r] EXCEPT !.at = "execute"])
  /\ UNCHANGED <<rows, nextId, sessions, tokens>>

\* usersService.create: the id is drawn from the sequence, which no failure
\* gives back.
Insert(r) ==
  /\ At(r, "execute") /\ req[r].cmd.do = "create"
  /\ nextId \in Ids
  /\ LET cmd == req[r].cmd IN
       rows' = IF ~Exists(nextId) /\ AddressIsFree(cmd.email, nextId)
                 THEN [rows EXCEPT ![nextId] = [state |-> "live", email |-> cmd.email,
                                                role |-> cmd.role]]
                 ELSE rows
  /\ nextId' = nextId + 1
  /\ Answered(r)
  /\ UNCHANGED <<sessions, tokens>>

NewRow == [state |-> "live", email |-> NoEmail, role |-> "null"]

\* Mutant of Patched: columns the dto leaves out are written like the others.
PatchedBlindly(row, cmd) ==
  [IF row = NoRow THEN NewRow ELSE row EXCEPT !.email = cmd.email, !.role = cmd.role]

\* What usersService.update makes of the row it finds, a deleted one included,
\* or of none, when it inserts.
Patched(row, cmd) ==
  [IF row = NoRow THEN NewRow ELSE row EXCEPT
     !.email = IF cmd.email = Keep THEN @ ELSE cmd.email,
     !.role = IF cmd.role = Keep THEN @ ELSE cmd.role]

Update(r) ==
  /\ At(r, "execute") /\ req[r].cmd.do = "patch"
  /\ LET cmd == req[r].cmd IN
       rows' = IF cmd.email \in Emails => AddressIsFree(cmd.email, cmd.id)
                 THEN [rows EXCEPT ![cmd.id] = Patched(@, cmd)] ELSE rows
  /\ Answered(r)
  /\ UNCHANGED <<nextId, sessions, tokens>>

Remove(r) ==
  /\ At(r, "execute") /\ req[r].cmd.do = "remove"
  /\ rows' = IF Exists(req[r].cmd.id) THEN [rows EXCEPT ![req[r].cmd.id].state = "deleted"]
                                      ELSE rows
  /\ Answered(r)
  /\ UNCHANGED <<nextId, sessions, tokens>>

(* the handlers that save a whole row -------------------------------------*)

\* confirmEmail, resetPassword and a social login read a row ...
ReadRow(r, i) ==
  /\ At(r, "idle")
  /\ Live(i)
  /\ Becomes(r, [at |-> "save", id |-> i, image |-> rows[i]])
  /\ UNCHANGED <<rows, nextId, sessions, tokens>>

\* ... and later write it back, its role and its deletedAt included.
SaveRow(r) ==
  /\ At(r, "save")
  /\ rows' = IF AddressIsFree(req[r].image.email, req[r].id)
               THEN [rows EXCEPT ![req[r].id] = req[r].image] ELSE rows
  /\ Answered(r)
  /\ UNCHANGED <<nextId, sessions, tokens>>

\* DELETE auth/me, which asks for no role.
DeleteMe(i) ==
  /\ \E t \in tokens : t.user = i
  /\ Live(i)
  /\ rows' = [rows EXCEPT ![i].state = "deleted"]
  /\ UNCHANGED <<nextId, sessions, tokens, req>>

\* The awaited call rejects, or the process restarts.
Fail(r) ==
  /\ ~At(r, "idle")
  /\ Answered(r)
  /\ UNCHANGED <<rows, nextId, sessions, tokens>>

Advance(r) ==
  \/ OpenSession(r) \/ SignTokens(r)
  \/ Validate(r) \/ Insert(r) \/ Update(r) \/ Remove(r) \/ SaveRow(r)

Next ==
  \/ \E r \in Requests : Advance(r) \/ Fail(r)
  \/ \E r \in Requests, i \in Ids : LoginReads(r, i) \/ RefreshReads(r, i) \/ ReadRow(r, i)
  \/ \E r \in Requests, email \in Emails, asked \in Roles : Register(r, email, asked)
  \/ \E r \in Requests, cmd \in Commands : AdminCommand(r, cmd)
  \/ \E i \in Ids : CloseSession(i) \/ DeleteMe(i)
  \/ \E t \in tokens : Expire(t)

Spec == Init /\ [][Next]_vars

\* Every await settles, with a result or a rejection, and every token expires.
FairSpec ==
  /\ Spec
  /\ \A r \in Requests : WF_vars(Advance(r) \/ Fail(r))
  /\ \A t \in Token : WF_vars(Expire(t))

-----------------------------------------------------------------------------
(* Properties *)

AdminRow(i) == Exists(i) /\ Live(i) /\ rows[i].role = "admin"

\* A request that would give the role, a token of it, or a row with it.
Confers(rec) ==
  \/ rec.at \in {"validate", "execute"} /\ rec.cmd.do # "remove" /\ rec.cmd.role = "admin"
  \/ rec.at \in {"session", "sign"} /\ rec.token.role = "admin"
  \/ rec.at = "save" /\ rec.image.role = "admin"

AdminPower ==
  \/ \E i \in Ids : AdminRow(i)
  \/ CanActivate
  \/ \E r \in Requests : Confers(req[r])

\* Once nobody is an administrator, has a token of one or a request under way
\* that could still make one, nobody ever becomes one: no registration, patch,
\* refresh or late whole-row save gives the role away (roles.guard.ts:18,
\* auth.service.ts:271).
NoAdminFromNowhere == [][~AdminPower => ~AdminPower']_vars

\* An administrator whose row lost the role, or was deleted, for good, ends up
\* without a token that names it: tokens expire, and a refresh reads the role of
\* the row (auth.service.ts:500).
DemotionTakesEffect ==
  \A i \in Ids : <>[]~AdminRow(i) => <>[](\A t \in tokens : t # [user |-> i, role |-> "admin"])
=============================================================================
