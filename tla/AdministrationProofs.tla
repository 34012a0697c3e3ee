------------------------ MODULE AdministrationProofs ------------------------
(***************************************************************************)
(* Proofs about Administration, for every set of addresses and requests,   *)
(* any bound on the ids, any commands and any seeded rows.                 *)
(***************************************************************************)
EXTENDS Administration, TLAPS

\* The shapes a request takes, one field set at a time.
LEMMA Shapes ==
  /\ \A t \in Token : [at |-> "session", token |-> t] \in InFlight
  /\ \A t \in Token : [at |-> "sign", token |-> t] \in InFlight
  /\ \A c \in Creation \cup Patch \cup Removal : [at |-> "validate", cmd |-> c] \in InFlight
  /\ \A i \in Ids, w \in Row : [at |-> "save", id |-> i, image |-> w] \in InFlight
  BY DEF InFlight

\* What a request holds, by the label it waits at.
LEMMA Fields ==
  ASSUME NEW q \in InFlight \cup {Idle}
  PROVE  /\ q.at = "session" => [q EXCEPT !.at = "sign"] \in InFlight
         /\ q.at = "validate" => [q EXCEPT !.at = "execute"] \in InFlight
         /\ q.at \in {"session", "sign"} => q.token \in Token
         /\ q.at \in {"validate", "execute"} => q.cmd \in Creation \cup Patch \cup Removal
         /\ q.at = "save" => q.id \in Ids /\ q.image \in Row
  BY DEF InFlight, Idle

\* Replacing what one request holds keeps the table of requests well typed.
LEMMA RequestsStay ==
  ASSUME TypeOK, NEW r \in Requests, NEW rec \in InFlight \cup {Idle}, Becomes(r, rec)
  PROVE  req' \in [Requests -> InFlight \cup {Idle}]
  BY DEF TypeOK, Becomes

LEMMA AnsweredStay ==
  ASSUME TypeOK, NEW r \in Requests, Answered(r)
  PROVE  req' \in [Requests -> InFlight \cup {Idle}]
  BY RequestsStay DEF Answered

\* A live row is a row.
LEMMA LiveIsRow ==
  ASSUME TypeOK, NEW i \in Ids, Live(i)
  PROVE  rows[i] \in Row /\ [user |-> i, role |-> rows[i].role] \in Token
  <1>1. rows[i] \in Row \cup {NoRow}
    BY DEF TypeOK
  <1>2. rows[i] # NoRow
    BY DEF Live, NoRow
  <1> QED
    BY <1>1, <1>2 DEF Row, Token

\* The commands that name columns.
LEMMA CommandKinds ==
  ASSUME NEW c \in Creation \cup Patch \cup Removal
  PROVE  /\ c.do = "create" => c.email \in Emails /\ c.role \in Roles
         /\ c.do = "patch" => c \in Patch
         /\ c.do = "remove" => c.id \in Ids
  BY DEF Creation, Patch, Removal

\* A patch leaves a row, whatever it found.
LEMMA PatchedIsRow ==
  ASSUME NEW row \in Row \cup {NoRow}, NEW c \in Patch
  PROVE  Patched(row, c) \in Row
  <1> DEFINE old == IF row = NoRow THEN NewRow ELSE row
  <1>1. old \in Row
    BY DEF Row, NewRow
  <1>2. [old EXCEPT !.email = IF c.email = Keep THEN @ ELSE c.email,
                    !.role = IF c.role = Keep THEN @ ELSE c.role] \in Row
    <2>1. c.email \in Emails \cup {NoEmail, Keep} /\ c.role \in Roles \cup {"null", Keep}
      BY DEF Patch
    <2> HIDE DEF old
    <2> QED
      BY <1>1, <2>1 DEF Row
  <1> QED
    BY <1>2 DEF Patched

-----------------------------------------------------------------------------
(* Type correctness *)

LEMMA InitTypeOK == Init => TypeOK
  BY SeededAssumption, MaxIdAssumption DEF Init, TypeOK, Ids, Idle

\* Reads, guards and failures change requests only.
LEMMA ReadsKeepTypeOK ==
  ASSUME TypeOK, NEW r \in Requests, NEW i \in Ids,
         LoginReads(r, i) \/ RefreshReads(r, i) \/ ReadRow(r, i)
  PROVE  TypeOK'
  <1>1. Live(i) /\ UNCHANGED <<rows, nextId, sessions, tokens>>
    BY DEF LoginReads, RefreshReads, ReadRow
  <1>2. \E rec \in InFlight : Becomes(r, rec)
    BY <1>1, LiveIsRow, Shapes DEF LoginReads, RefreshReads, ReadRow
  <1>3. req' \in [Requests -> InFlight \cup {Idle}]
    BY <1>2, RequestsStay
  <1> QED
    BY <1>1, <1>3 DEF TypeOK

LEMMA ReceivesKeepsTypeOK ==
  ASSUME TypeOK, NEW r \in Requests, NEW c \in Creation \cup Patch \cup Removal,
         Receives(r, c)
  PROVE  TypeOK'
  <1>1. req' \in [Requests -> InFlight \cup {Idle}]
    BY Shapes, RequestsStay DEF Receives
  <1> QED
    BY <1>1 DEF Receives, TypeOK

LEMMA AdvanceKeepsTypeOK ==
  ASSUME TypeOK, NEW r \in Requests, Advance(r)
  PROVE  TypeOK'
  <1>0. req[r] \in InFlight \cup {Idle}
    BY DEF TypeOK
  <1>1. CASE OpenSession(r)
    <2>1. req[r].token \in Token /\ [req[r] EXCEPT !.at = "sign"] \in InFlight
      BY <1>0, <1>1, Fields DEF OpenSession, At
    <2>2. req' \in [Requests -> InFlight \cup {Idle}]
      BY <1>1, <2>1, RequestsStay DEF OpenSession
    <2> QED
      BY <1>1, <2>1, <2>2 DEF OpenSession, TypeOK, Token
  <1>2. CASE SignTokens(r)
    <2>1. req[r].token \in Token
      BY <1>0, <1>2, Fields DEF SignTokens, At
    <2>2. req' \in [Requests -> InFlight \cup {Idle}]
      BY <1>2, AnsweredStay DEF SignTokens
    <2> QED
      BY <1>2, <2>1, <2>2 DEF SignTokens, TypeOK
  <1>3. CASE Validate(r)
    <2>1. [req[r] EXCEPT !.at = "execute"] \in InFlight
      BY <1>0, <1>3, Fields DEF Validate, At
    <2>2. req' \in [Requests -> InFlight \cup {Idle}]
      BY <1>3, <2>1, RequestsStay, AnsweredStay DEF Validate
    <2> QED
      BY <1>3, <2>2 DEF Validate, TypeOK
  <1>4. CASE Insert(r)
    <2>1. req[r].cmd.email \in Emails /\ req[r].cmd.role \in Roles
      BY <1>0, <1>4, Fields, CommandKinds DEF Insert, At
    <2>2. [state |-> "live", email |-> req[r].cmd.email, role |-> req[r].cmd.role] \in Row
      BY <2>1 DEF Row
    <2>3. rows' \in [Ids -> Row \cup {NoRow}]
      BY <1>4, <2>2 DEF Insert, TypeOK
    <2>4. nextId' \in 1 .. MaxId + 1
      BY <1>4, MaxIdAssumption DEF Insert, TypeOK, Ids
    <2>5. req' \in [Requests -> InFlight \cup {Idle}]
      BY <1>4, AnsweredStay DEF Insert
    <2> QED
      BY <1>4, <2>3, <2>4, <2>5 DEF Insert, TypeOK
  <1>5. CASE Update(r)
    <2>1. req[r].cmd \in Patch /\ req[r].cmd.id \in Ids
      BY <1>0, <1>5, Fields, CommandKinds DEF Update, At, Patch
    <2>2. Patched(rows[req[r].cmd.id], req[r].cmd) \in Row
      BY <2>1, PatchedIsRow DEF TypeOK
    <2>3. rows' \in [Ids -> Row \cup {NoRow}]
      BY <1>5, <2>1, <2>2 DEF Update, TypeOK
    <2>4. req' \in [Requests -> InFlight \cup {Idle}]
      BY <1>5, AnsweredStay DEF Update
    <2> QED
      BY <1>5, <2>3, <2>4 DEF Update, TypeOK
  <1>6. CASE Remove(r)
    <2>1. req[r].cmd.id \in Ids
      BY <1>0, <1>6, Fields, CommandKinds DEF Remove, At
    <2>2. rows' \in [Ids -> Row \cup {NoRow}]
      <3>1. Exists(req[r].cmd.id) => [rows[req[r].cmd.id] EXCEPT !.state = "deleted"] \in Row
        BY <2>1 DEF Exists, TypeOK, Row
      <3> QED
        BY <1>6, <2>1, <3>1 DEF Remove, TypeOK
    <2>3. req' \in [Requests -> InFlight \cup {Idle}]
      BY <1>6, AnsweredStay DEF Remove
    <2> QED
      BY <1>6, <2>2, <2>3 DEF Remove, TypeOK
  <1>7. CASE SaveRow(r)
    <2>1. req[r].id \in Ids /\ req[r].image \in Row
      BY <1>0, <1>7, Fields DEF SaveRow, At
    <2>2. req' \in [Requests -> InFlight \cup {Idle}]
      BY <1>7, AnsweredStay DEF SaveRow
    <2> QED
      BY <1>7, <2>1, <2>2 DEF SaveRow, TypeOK
  <1> QED
    BY <1>1, <1>2, <1>3, <1>4, <1>5, <1>6, <1>7 DEF Advance

LEMMA FailKeepsTypeOK ==
  ASSUME TypeOK, NEW r \in Requests, Fail(r)
  PROVE  TypeOK'
  BY AnsweredStay DEF Fail, TypeOK

LEMMA OthersKeepTypeOK ==
  ASSUME TypeOK, NEW i \in Ids, CloseSession(i) \/ DeleteMe(i)
  PROVE  TypeOK'
  <1>1. CASE CloseSession(i)
    BY <1>1 DEF CloseSession, TypeOK
  <1>2. CASE DeleteMe(i)
    <2>1. [rows[i] EXCEPT !.state = "deleted"] \in Row
      BY <1>2, LiveIsRow DEF DeleteMe, Row
    <2> QED
      BY <1>2, <2>1 DEF DeleteMe, TypeOK
  <1> QED
    BY <1>1, <1>2

\* A registration is a creation.
LEMMA RegistrationIsCreation ==
  ASSUME NEW email \in Emails, NEW asked \in Roles
  PROVE  [do |-> "create", email |-> email, role |-> RegisteredRole(asked)] \in Creation
  BY DEF Creation, RegisteredRole, Roles

LEMMA NextTypeOK == TypeOK /\ [Next]_vars => TypeOK'
  <1> SUFFICES ASSUME TypeOK, [Next]_vars PROVE TypeOK'
    OBVIOUS
  <1>1. CASE \E r \in Requests : Advance(r) \/ Fail(r)
    BY <1>1, AdvanceKeepsTypeOK, FailKeepsTypeOK
  <1>2. CASE \E r \in Requests, i \in Ids : LoginReads(r, i) \/ RefreshReads(r, i) \/ ReadRow(r, i)
    BY <1>2, ReadsKeepTypeOK
  <1>3. CASE \E r \in Requests, email \in Emails, asked \in Roles : Register(r, email, asked)
    BY <1>3, RegistrationIsCreation, ReceivesKeepsTypeOK DEF Register
  <1>4. CASE \E r \in Requests, cmd \in Commands : AdminCommand(r, cmd)
    BY <1>4, CommandsAssumption, ReceivesKeepsTypeOK DEF AdminCommand
  <1>5. CASE \E i \in Ids : CloseSession(i) \/ DeleteMe(i)
    BY <1>5, OthersKeepTypeOK
  <1>6. CASE \E t \in tokens : Expire(t)
    BY <1>6 DEF Expire, TypeOK
  <1>7. CASE UNCHANGED vars
    BY <1>7 DEF vars, TypeOK
  <1> QED
    BY <1>1, <1>2, <1>3, <1>4, <1>5, <1>6, <1>7 DEF Next

\* Every reachable state is well typed, and the sequence ends one past the last
\* id (user.entity.ts:24, users.service.ts:17-21, 48-55).
THEOREM TypeCorrect == Spec => []TypeOK
  BY InitTypeOK, NextTypeOK, PTL DEF Spec

-----------------------------------------------------------------------------
(* Nobody becomes an administrator once nobody can *)

Powerless == ~AdminPower

\* A request that confers nothing, put in the place of another.
LEMMA RequestConfersNothing ==
  ASSUME TypeOK, Powerless, NEW r \in Requests, NEW rec, ~Confers(rec), Becomes(r, rec)
  PROVE  \A q \in Requests : ~Confers(req'[q])
  BY DEF Powerless, AdminPower, Becomes, TypeOK

LEMMA AnsweredConfersNothing ==
  ASSUME TypeOK, Powerless, NEW r \in Requests, Answered(r)
  PROVE  \A q \in Requests : ~Confers(req'[q])
  <1>1. ~Confers(Idle)
    BY DEF Confers, Idle
  <1> QED
    BY <1>1, RequestConfersNothing DEF Answered

\* Rows that stay, or change one row into one of another role.
LEMMA PowerlessRows ==
  ASSUME Powerless, TypeOK, NEW i \in Ids, NEW row,
         row.state = "live" => row.role # "admin",
         rows' = [rows EXCEPT ![i] = row]
  PROVE  \A j \in Ids : ~AdminRow(j)'
  BY DEF Powerless, AdminPower, AdminRow, Live, Exists, TypeOK

LEMMA SameRows ==
  ASSUME Powerless, UNCHANGED rows
  PROVE  \A j \in Ids : ~AdminRow(j)'
  BY DEF Powerless, AdminPower, AdminRow, Live, Exists

LEMMA SameTokens ==
  ASSUME Powerless, UNCHANGED tokens
  PROVE  ~CanActivate'
  BY DEF Powerless, AdminPower, CanActivate

LEMMA PowerlessParts ==
  ASSUME \A j \in Ids : ~AdminRow(j)', ~CanActivate',
         \A q \in Requests : ~Confers(req'[q])
  PROVE  Powerless'
  BY DEF Powerless, AdminPower

LEMMA ReadsStayPowerless ==
  ASSUME TypeOK, Powerless, NEW r \in Requests, NEW i \in Ids,
         LoginReads(r, i) \/ RefreshReads(r, i) \/ ReadRow(r, i)
  PROVE  Powerless'
  <1>1. Live(i) /\ UNCHANGED rows /\ UNCHANGED tokens
    BY DEF LoginReads, RefreshReads, ReadRow
  <1>2. rows[i].role # "admin"
    BY <1>1 DEF Powerless, AdminPower, AdminRow, Exists, Live, NoRow
  <1>3. \E rec : ~Confers(rec) /\ Becomes(r, rec)
    BY <1>2 DEF LoginReads, RefreshReads, ReadRow, Confers
  <1>4. \A q \in Requests : ~Confers(req'[q])
    BY <1>3, RequestConfersNothing
  <1> QED
    BY <1>1, <1>4, SameRows, SameTokens, PowerlessParts

LEMMA RegisterStaysPowerless ==
  ASSUME TypeOK, Powerless, NEW r \in Requests, NEW email, NEW asked,
         Register(r, email, asked)
  PROVE  Powerless'
  <1> DEFINE rec == [at |-> "validate",
                     cmd |-> [do |-> "create", email |-> email, role |-> "user"]]
  <1>1. Becomes(r, rec) /\ UNCHANGED rows /\ UNCHANGED tokens
    BY DEF Register, Receives, RegisteredRole
  <1>2. ~Confers(rec)
    BY DEF Confers
  <1>3. \A q \in Requests : ~Confers(req'[q])
    <2> HIDE DEF rec
    <2> QED
      BY <1>1, <1>2, RequestConfersNothing
  <1> QED
    BY <1>1, <1>3, SameRows, SameTokens, PowerlessParts

LEMMA AdvanceStaysPowerless ==
  ASSUME TypeOK, Powerless, NEW r \in Requests, Advance(r)
  PROVE  Powerless'
  <1>0. req[r] \in InFlight \cup {Idle} /\ ~Confers(req[r])
    BY DEF TypeOK, Powerless, AdminPower
  <1>1. CASE OpenSession(r)
    <2>1. ~Confers([req[r] EXCEPT !.at = "sign"])
      BY <1>0, <1>1 DEF OpenSession, At, Confers, InFlight, Idle
    <2>2. \A q \in Requests : ~Confers(req'[q])
      BY <1>1, <2>1, RequestConfersNothing DEF OpenSession
    <2> QED
      BY <1>1, <2>2, SameRows, SameTokens, PowerlessParts DEF OpenSession
  <1>2. CASE SignTokens(r)
    <2>1. req[r].token.role # "admin"
      BY <1>0, <1>2 DEF SignTokens, At, Confers
    <2>2. ~CanActivate'
      BY <1>2, <2>1 DEF SignTokens, CanActivate, Powerless, AdminPower
    <2>3. \A q \in Requests : ~Confers(req'[q])
      BY <1>2, AnsweredConfersNothing DEF SignTokens
    <2> QED
      BY <1>2, <2>2, <2>3, SameRows, PowerlessParts DEF SignTokens
  <1>3. CASE Validate(r)
    <2>1. ~Confers([req[r] EXCEPT !.at = "execute"])
      BY <1>0, <1>3 DEF Validate, At, Confers, InFlight, Idle
    <2>2. \A q \in Requests : ~Confers(req'[q])
      BY <1>3, <2>1, RequestConfersNothing, AnsweredConfersNothing DEF Validate
    <2> QED
      BY <1>3, <2>2, SameRows, SameTokens, PowerlessParts DEF Validate
  <1>4. CASE Insert(r)
    <2>1. req[r].cmd.role # "admin"
      BY <1>0, <1>4 DEF Insert, At, Confers
    <2>2. \A j \in Ids : ~AdminRow(j)'
      <3>1. CASE rows' = rows
        BY <3>1, SameRows
      <3>2. CASE rows' # rows
        <4> DEFINE row == [state |-> "live", email |-> req[r].cmd.email, role |-> req[r].cmd.role]
        <4>1. nextId \in Ids /\ rows' = [rows EXCEPT ![nextId] = row]
          BY <1>4, <3>2 DEF Insert
        <4>2. row.role # "admin"
          BY <2>1
        <4> HIDE DEF row
        <4> QED
          BY <4>1, <4>2, PowerlessRows
      <3> QED
        BY <3>1, <3>2
    <2>3. \A q \in Requests : ~Confers(req'[q])
      BY <1>4, AnsweredConfersNothing DEF Insert
    <2> QED
      BY <1>4, <2>2, <2>3, SameTokens, PowerlessParts DEF Insert
  <1>5. CASE Update(r)
    <2>1. req[r].cmd \in Patch /\ req[r].cmd.id \in Ids /\ req[r].cmd.role # "admin"
      BY <1>0, <1>5, Fields, CommandKinds DEF Update, At, Confers, Patch
    <2>2. \A j \in Ids : ~AdminRow(j)'
      <3>1. CASE rows' = rows
        BY <3>1, SameRows
      <3>2. CASE rows' # rows
        <4> DEFINE i == req[r].cmd.id
                   row == Patched(rows[i], req[r].cmd)
        <4>1. rows' = [rows EXCEPT ![i] = row]
          BY <1>5, <3>2, <2>1 DEF Update, TypeOK
        <4>2. row.state = "live" => row.role # "admin"
          <5>1. rows[i] \in Row \cup {NoRow}
            BY <2>1 DEF TypeOK
          <5>2. CASE rows[i] = NoRow
            BY <5>2, <2>1 DEF Patched, NewRow
          <5>3. CASE rows[i] # NoRow
            <6>1. rows[i] \in Row /\ ~AdminRow(i)
              BY <5>1, <5>3, <2>1 DEF Powerless, AdminPower
            <6> QED
              BY <6>1, <5>3, <2>1 DEF Patched, Row, AdminRow, Exists, Live
          <5> QED
            BY <5>2, <5>3
        <4>3. i \in Ids
          BY <2>1
        <4> HIDE DEF i, row
        <4> QED
          BY <4>1, <4>2, <4>3, PowerlessRows
      <3> QED
        BY <3>1, <3>2
    <2>3. \A q \in Requests : ~Confers(req'[q])
      BY <1>5, AnsweredConfersNothing DEF Update
    <2> QED
      BY <1>5, <2>2, <2>3, SameTokens, PowerlessParts DEF Update
  <1>6. CASE Remove(r)
    <2>1. req[r].cmd.id \in Ids
      BY <1>0, <1>6, Fields, CommandKinds DEF Remove, At
    <2>2. \A j \in Ids : ~AdminRow(j)'
      BY <1>6, <2>1 DEF Remove, AdminRow, Live, Exists, Powerless, AdminPower, TypeOK
    <2>3. \A q \in Requests : ~Confers(req'[q])
      BY <1>6, AnsweredConfersNothing DEF Remove
    <2> QED
      BY <1>6, <2>2, <2>3, SameTokens, PowerlessParts DEF Remove
  <1>7. CASE SaveRow(r)
    <2>1. req[r].id \in Ids /\ req[r].image.role # "admin"
      BY <1>0, <1>7, Fields DEF SaveRow, At, Confers
    <2>2. \A j \in Ids : ~AdminRow(j)'
      BY <1>7, <2>1, SameRows, PowerlessRows DEF SaveRow
    <2>3. \A q \in Requests : ~Confers(req'[q])
      BY <1>7, AnsweredConfersNothing DEF SaveRow
    <2> QED
      BY <1>7, <2>2, <2>3, SameTokens, PowerlessParts DEF SaveRow
  <1> QED
    BY <1>1, <1>2, <1>3, <1>4, <1>5, <1>6, <1>7 DEF Advance

LEMMA NextStaysPowerless == TypeOK /\ Powerless /\ [Next]_vars => Powerless'
  <1> SUFFICES ASSUME TypeOK, Powerless, [Next]_vars PROVE Powerless'
    OBVIOUS
  <1>1. CASE \E r \in Requests : Advance(r)
    BY <1>1, AdvanceStaysPowerless
  <1>2. CASE \E r \in Requests : Fail(r)
    <2>1. UNCHANGED rows /\ UNCHANGED tokens /\ \E r \in Requests : Answered(r)
      BY <1>2 DEF Fail
    <2> QED
      BY <2>1, AnsweredConfersNothing, SameRows, SameTokens, PowerlessParts
  <1>3. CASE \E r \in Requests, i \in Ids : LoginReads(r, i) \/ RefreshReads(r, i) \/ ReadRow(r, i)
    BY <1>3, ReadsStayPowerless
  <1>4. CASE \E r \in Requests, email \in Emails, asked \in Roles : Register(r, email, asked)
    BY <1>4, RegisterStaysPowerless
  <1>5. CASE \E r \in Requests, cmd \in Commands : AdminCommand(r, cmd)
    BY <1>5 DEF AdminCommand, Powerless, AdminPower
  <1>6. CASE \E i \in Ids : CloseSession(i)
    BY <1>6 DEF CloseSession, Powerless, AdminPower, AdminRow, Live, Exists, CanActivate
  <1>7. CASE \E i \in Ids : DeleteMe(i)
    BY <1>7 DEF DeleteMe, Powerless, AdminPower, AdminRow, Live, Exists, CanActivate, TypeOK
  <1>8. CASE \E t \in tokens : Expire(t)
    BY <1>8 DEF Expire, Powerless, AdminPower, AdminRow, Live, Exists, CanActivate
  <1>9. CASE UNCHANGED vars
    BY <1>9 DEF vars, Powerless, AdminPower, AdminRow, Live, Exists, CanActivate
  <1> QED
    BY <1>1, <1>2, <1>3, <1>4, <1>5, <1>6, <1>7, <1>8, <1>9 DEF Next

\* Once no live row, no token and no request under way names the role, none ever
\* will: registration gives every row the role user (auth.service.ts:271), the
\* administrators' routes are closed (roles.guard.ts:18), and what a handler
\* saves late has the role it read.
THEOREM NobodyBecomesAdmin == Spec => NoAdminFromNowhere
  <1>1. TypeOK /\ [Next]_vars => [~AdminPower => ~AdminPower']_vars
    BY NextStaysPowerless DEF Powerless
  <1> QED
    BY <1>1, TypeCorrect, PTL DEF Spec, NoAdminFromNowhere

-----------------------------------------------------------------------------
(* Whoever lost the role gets no token of it *)

AdminToken(i) == [user |-> i, role |-> "admin"]

\* A request that will sign one for the account, if it is not rejected.
Signs(r, i) == (At(r, "session") \/ At(r, "sign")) /\ req[r].token = AdminToken(i)

OutOfOffice(i) == AdminToken(i) \notin tokens /\ \A r \in Requests : ~Signs(r, i)

\* An account without the role, deleted ones included, for which no token names it
\* and no request is about to sign one stays so until its row has the role again:
\* both ways to a token read the row (auth.service.ts:54, 500).  That each account
\* that lost the role for good comes to this point is DemotionTakesEffect.
DemotedStaysOut ==
  [][\A i \in Ids : ~AdminRow(i) /\ OutOfOffice(i) => OutOfOffice(i)']_vars

THEOREM DemotedAccountsStayOut == Spec => DemotedStaysOut
  <1>1. ASSUME TypeOK, [Next]_vars, NEW i \in Ids, ~AdminRow(i), OutOfOffice(i)
        PROVE  OutOfOffice(i)'
    <2>1. ASSUME NEW r \in Requests, Becomes(r, Idle)
          PROVE  \A q \in Requests : ~Signs(q, i)'
      BY <1>1, <2>1 DEF Becomes, Idle, Signs, At, OutOfOffice, TypeOK
    <2>2. ASSUME UNCHANGED req
          PROVE  \A q \in Requests : ~Signs(q, i)'
      BY <1>1, <2>2 DEF Signs, At, OutOfOffice
    <2>3. ASSUME NEW r \in Requests, NEW rec, Becomes(r, rec),
                 rec.at \in {"session", "sign"} => rec.token # AdminToken(i)
          PROVE  \A q \in Requests : ~Signs(q, i)'
      BY <1>1, <2>3 DEF Becomes, Signs, At, OutOfOffice, TypeOK
    <2>4. CASE UNCHANGED tokens /\ \A q \in Requests : ~Signs(q, i)'
      BY <1>1, <2>4 DEF OutOfOffice
    <2>5. ASSUME NEW r \in Requests, NEW j \in Ids,
                 LoginReads(r, j) \/ RefreshReads(r, j) \/ ReadRow(r, j)
          PROVE  OutOfOffice(i)'
      <3>1. UNCHANGED tokens /\ Live(j)
        BY <2>5 DEF LoginReads, RefreshReads, ReadRow
      <3>2. [user |-> j, role |-> rows[j].role] # AdminToken(i)
        BY <1>1, <3>1 DEF AdminToken, AdminRow, Exists, Live, NoRow
      <3>3. \E rec : /\ Becomes(r, rec)
                     /\ rec.at \in {"session", "sign"} => rec.token # AdminToken(i)
        BY <2>5, <3>2 DEF LoginReads, RefreshReads, ReadRow
      <3> QED
        BY <2>3, <2>4, <3>1, <3>3
    <2>6. ASSUME NEW r \in Requests, NEW cmd, Receives(r, cmd)
          PROVE  OutOfOffice(i)'
      <3>1. \E rec : Becomes(r, rec) /\ rec.at = "validate" /\ UNCHANGED tokens
        BY <2>6 DEF Receives
      <3> QED
        BY <2>3, <2>4, <3>1
    <2>7. ASSUME NEW r \in Requests, Advance(r) \/ Fail(r)
          PROVE  OutOfOffice(i)'
      <3>1. CASE OpenSession(r)
        <4>1. /\ Becomes(r, [req[r] EXCEPT !.at = "sign"]) /\ UNCHANGED tokens
              /\ [req[r] EXCEPT !.at = "sign"].token = req[r].token
              /\ At(r, "session")
          BY <1>1, <3>1, Shapes DEF OpenSession, TypeOK
        <4>2. req[r].token # AdminToken(i)
          BY <1>1, <4>1 DEF OutOfOffice, Signs
        <4> QED
          BY <2>3, <2>4, <4>1, <4>2
      <3>2. CASE SignTokens(r)
        <4>1. AdminToken(i) \notin tokens'
          BY <1>1, <3>2 DEF SignTokens, OutOfOffice, Signs
        <4> QED
          BY <2>1, <3>2, <4>1 DEF SignTokens, Answered, OutOfOffice
      <3>3. CASE Validate(r)
        <4>1. UNCHANGED tokens
              /\ (Becomes(r, Idle) \/ Becomes(r, [req[r] EXCEPT !.at = "execute"]))
          BY <3>3 DEF Validate, Answered
        <4>2. [req[r] EXCEPT !.at = "execute"].at = "execute"
          BY <1>1, <3>3, Shapes DEF Validate, TypeOK
        <4> QED
          BY <2>1, <2>3, <2>4, <4>1, <4>2
      <3>4. CASE Insert(r) \/ Update(r) \/ Remove(r) \/ SaveRow(r) \/ Fail(r)
        <4>1. UNCHANGED tokens /\ Becomes(r, Idle)
          BY <3>4 DEF Insert, Update, Remove, SaveRow, Fail, Answered
        <4> QED
          BY <2>1, <2>4, <4>1
      <3> QED
        BY <2>7, <3>1, <3>2, <3>3, <3>4 DEF Advance
    <2>8. ASSUME UNCHANGED req, tokens' \subseteq tokens
          PROVE  OutOfOffice(i)'
      BY <1>1, <2>2, <2>8 DEF OutOfOffice
    <2> QED
      BY <1>1, <2>5, <2>6, <2>7, <2>8
         DEF Next, vars, Register, AdminCommand, CloseSession, DeleteMe, Expire
  <1>2. TypeOK /\ [Next]_vars
          => [\A i \in Ids : ~AdminRow(i) /\ OutOfOffice(i) => OutOfOffice(i)']_vars
    BY <1>1
  <1> QED
    BY <1>2, TypeCorrect, PTL DEF Spec, DemotedStaysOut
=============================================================================
