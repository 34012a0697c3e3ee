------------------------ MODULE AuthRefinementProofs ------------------------
(***************************************************************************)
(* AuthService implements SessionLedger, for every value of the constants: *)
(* the initial states map to an initial state of the ledger, and every     *)
(* step of a handler maps to one step of the ledger or changes nothing of  *)
(* it.  The map is the INSTANCE "Ledger" of AuthService; the names below   *)
(* stand for what it substitutes.  The invariant used is Base.             *)
(***************************************************************************)
EXTENDS AuthServiceProofs

LedgerOf(s) ==
  IF sessions[s].state = "live" THEN "open"
  ELSE IF sessions[s].state = "dead" THEN "closed" ELSE "free"
OwnerOf(s) == IF sessions[s].state = "free" THEN NoUserId ELSE sessions[s].user

ledgerMap == [s \in Sessions |-> LedgerOf(s)]
ownerMap == [s \in Sessions |-> OwnerOf(s)]
granting == {s \in Sessions : \E r \in Requests : req[r].at = "sign" /\ req[r].session = s}

LEMMA MapIsLedger ==
  /\ Ledger!vars = <<ledgerMap, ownerMap, granting, access>>
  /\ Ledger!Init <=> /\ ledgerMap = [s \in Sessions |-> "free"]
                     /\ ownerMap = [s \in Sessions |-> NoUserId]
                     /\ granting = {}
                     /\ access = {}
BY DEF Ledger!vars, Ledger!Init, ledgerMap, ownerMap, granting, LedgerOf, OwnerOf

LEMMA MapOpen ==
  ASSUME NEW s \in Sessions, NEW o \in Emails,
         ledgerMap[s] = "free",
         ledgerMap' = [ledgerMap EXCEPT ![s] = "open"],
         ownerMap' = [ownerMap EXCEPT ![s] = o],
         granting' = granting \cup {s}, UNCHANGED access
  PROVE  Ledger!Next
BY DEF Ledger!Next, Ledger!Open, ledgerMap, ownerMap, granting, LedgerOf, OwnerOf

LEMMA MapClose ==
  ASSUME NEW o \in Emails, NEW S \in SUBSET Sessions,
         \A s \in S : ownerMap[s] = o /\ ledgerMap[s] = "open",
         ledgerMap' = [s \in Sessions |-> IF s \in S THEN "closed" ELSE ledgerMap[s]],
         UNCHANGED <<ownerMap, granting, access>>
  PROVE  Ledger!Next
BY DEF Ledger!Next, Ledger!Close, ledgerMap, ownerMap, granting, LedgerOf, OwnerOf

LEMMA MapPick ==
  ASSUME NEW s \in Sessions, ledgerMap[s] = "open",
         granting' = granting \cup {s}, UNCHANGED <<ledgerMap, ownerMap, access>>
  PROVE  Ledger!Next
BY DEF Ledger!Next, Ledger!Pick, ledgerMap, ownerMap, granting, LedgerOf, OwnerOf

LEMMA MapGrant ==
  ASSUME NEW s \in Sessions, s \in granting, access' = access \cup {s},
         granting' \in {granting, granting \ {s}}, UNCHANGED <<ledgerMap, ownerMap>>
  PROVE  Ledger!Next
BY DEF Ledger!Next, Ledger!Grant, ledgerMap, ownerMap, granting, LedgerOf, OwnerOf

LEMMA MapDrop ==
  ASSUME NEW s \in Sessions, granting' = granting \ {s},
         UNCHANGED <<ledgerMap, ownerMap, access>>
  PROVE  Ledger!Next
BY DEF Ledger!Next, Ledger!Drop, ledgerMap, ownerMap, granting, LedgerOf, OwnerOf

LEMMA MapExpire ==
  ASSUME NEW s \in Sessions, access' = access \ {s},
         UNCHANGED <<ledgerMap, ownerMap, granting>>
  PROVE  Ledger!Next
BY DEF Ledger!Next, Ledger!Expire, ledgerMap, ownerMap, granting, LedgerOf, OwnerOf

-----------------------------------------------------------------------------
(* How one request's step moves the granting set *)

LEMMA NotGranting ==
  ASSUME TypeOK, NEW r \in Requests, NEW rec, Becomes(r, rec),
         req[r].at # "sign", rec.at # "sign"
  PROVE  UNCHANGED granting
<1>1. /\ \A q \in Requests \ {r} : req'[q] = req[q]
      /\ req'[r] = rec
  BY DEF TypeOK, Becomes
<1> QED BY <1>1 DEF granting

LEMMA StartsGranting ==
  ASSUME TypeOK, NEW r \in Requests, NEW rec, Becomes(r, rec),
         req[r].at # "sign", rec.at = "sign", rec.session \in Sessions
  PROVE  granting' = granting \cup {rec.session}
<1>1. /\ \A q \in Requests \ {r} : req'[q] = req[q]
      /\ req'[r] = rec
  BY DEF TypeOK, Becomes
<1> QED BY <1>1 DEF granting

LEMMA StopsGranting ==
  ASSUME TypeOK, NEW r \in Requests, Answered(r), At(r, "sign")
  PROVE  /\ req[r].session \in granting
         /\ granting' \in {granting, granting \ {req[r].session}}
<1>1. /\ \A q \in Requests \ {r} : req'[q] = req[q]
      /\ req'[r].at # "sign"
  BY DEF TypeOK, Becomes, Answered, Idle
<1>2. req[r].session \in Sessions
  BY RequestFields DEF TypeOK, At
<1>3. CASE \E q \in Requests \ {r} : req[q].at = "sign" /\ req[q].session = req[r].session
  BY <1>1, <1>2, <1>3 DEF granting, At
<1>4. CASE \A q \in Requests \ {r} : req[q].at = "sign" => req[q].session # req[r].session
  BY <1>1, <1>2, <1>4 DEF granting, At
<1> QED BY <1>3, <1>4

\* Closing rows marks them closed in the ledger, and moves no owner.
LEMMA RevokeMaps ==
  ASSUME TypeOK, NEW S \in SUBSET Sessions, Revoke(S),
         \A s \in S : sessions[s].state # "free"
  PROVE  /\ ledgerMap' = [s \in Sessions |-> IF s \in S THEN "closed" ELSE ledgerMap[s]]
         /\ UNCHANGED ownerMap
<1>1. \A s \in Sessions : sessions[s] \in SessionRow \cup {FreeId}
  BY DEF TypeOK
<1>2. \A s \in Sessions :
        LedgerOf(s)' = IF s \in S THEN "closed" ELSE LedgerOf(s)
  BY <1>1 DEF Revoke, LedgerOf, SessionRow, FreeId
<1>3. \A s \in Sessions : OwnerOf(s)' = OwnerOf(s)
  BY <1>1 DEF Revoke, OwnerOf, SessionRow, FreeId
<1> QED BY <1>2, <1>3 DEF ledgerMap, ownerMap

LEMMA SessionsSame ==
  ASSUME UNCHANGED sessions
  PROVE  UNCHANGED <<ledgerMap, ownerMap>>
BY DEF ledgerMap, ownerMap, LedgerOf, OwnerOf

\* Some of one user's open sessions are closed.
LEMMA ClosesMine ==
  ASSUME TypeOK, NEW e \in Emails, NEW S \in SUBSET OpenSessions(e), Revoke(S),
         UNCHANGED <<granting, access>>
  PROVE  Ledger!Next
<1>1. S \in SUBSET Sessions /\ \A s \in S : sessions[s].state = "live" /\ sessions[s].user = e
  BY DEF OpenSessions
<1>2. \A s \in S : ownerMap[s] = e /\ ledgerMap[s] = "open"
  BY <1>1 DEF ownerMap, ledgerMap, OwnerOf, LedgerOf
<1> QED BY <1>1, <1>2, RevokeMaps, MapClose

-----------------------------------------------------------------------------
(* The steps *)

LedgerStep == Ledger!Next \/ UNCHANGED <<ledgerMap, ownerMap, granting, access>>

LEMMA LedgerReceive ==
  ASSUME Base, NEW r \in Requests, Receive(r)
  PROVE  LedgerStep
<1>0. TypeOK
  BY DEF Base
<1>1. ASSUME NEW presented \in Sessions, RefreshRead(r, presented)
      PROVE  LedgerStep
  <2>1. PICK s \in FoundByRefresh(presented) :
          Becomes(r, [at |-> "sign", presented |-> presented, session |-> s])
    BY <1>1 DEF RefreshRead
  <2>2. s \in Sessions /\ ledgerMap[s] = "open"
    BY <2>1 DEF FoundByRefresh, ledgerMap, LedgerOf
  <2>3. granting' = granting \cup {s}
    BY <1>0, <1>1, <2>1, <2>2, StartsGranting DEF RefreshRead, At
  <2>4. UNCHANGED <<ledgerMap, ownerMap, access>>
    BY <1>1, SessionsSame DEF RefreshRead
  <2> QED BY <2>2, <2>3, <2>4, MapPick DEF LedgerStep
<1>2. ASSUME NEW rec, Becomes(r, rec), At(r, "idle"), rec.at # "sign",
             UNCHANGED <<sessions, access>>
      PROVE  LedgerStep
  BY <1>0, <1>2, NotGranting, SessionsSame DEF LedgerStep, At
<1> QED BY <1>1, <1>2 DEF Receive, RegisterValidate, LoginRead, ConfirmRead, ForgotRead,
           ResetRead, UpdateRead

LEMMA LedgerAdvance ==
  ASSUME Base, NEW r \in Requests, Advance(r)
  PROVE  LedgerStep
<1>0. TypeOK /\ req[r] \in InFlight \cup {Idle}
  BY DEF Base, TypeOK
<1>1. ASSUME NEW rec, Becomes(r, rec), req[r].at # "sign", rec.at # "sign",
             UNCHANGED <<sessions, access>>
      PROVE  LedgerStep
  BY <1>0, <1>1, NotGranting, SessionsSame DEF LedgerStep
<1>2. ASSUME Answered(r), req[r].at # "sign", UNCHANGED <<sessions, access>>
      PROVE  LedgerStep
  BY <1>1, <1>2 DEF Answered, Idle
<1>3. ASSUME NEW s \in Sessions, LoginCreate(r, s)
      PROVE  LedgerStep
  <2> DEFINE e == req[r].user
  <2>1. e \in Emails
    BY <1>0, <1>3, RequestFields DEF LoginCreate, At
  <2>2. sessions[s].state = "free"
    BY <1>3 DEF LoginCreate, FreeId
  <2>3. granting' = granting \cup {s}
    BY <1>0, <1>3, StartsGranting DEF LoginCreate, At
  <2>4. /\ ledgerMap[s] = "free"
        /\ ledgerMap' = [ledgerMap EXCEPT ![s] = "open"]
    BY <1>0, <1>3, <2>2 DEF ledgerMap, LedgerOf, LoginCreate, TypeOK
  <2>5. ownerMap' = [ownerMap EXCEPT ![s] = e]
    BY <1>0, <1>3, <2>2 DEF ownerMap, OwnerOf, LoginCreate, TypeOK
  <2>6. UNCHANGED access
    BY <1>3 DEF LoginCreate
  <2> HIDE DEF e
  <2> QED BY <2>1, <2>3, <2>4, <2>5, <2>6, MapOpen DEF LedgerStep
<1>4. CASE SignTokens(r)
  <2>1. /\ req[r].session \in Sessions
        /\ req[r].session \in granting
        /\ granting' \in {granting, granting \ {req[r].session}}
    BY <1>0, <1>4, RequestFields, StopsGranting DEF SignTokens, At
  <2> QED BY <1>4, <2>1, SessionsSame, MapGrant DEF SignTokens, LedgerStep
<1>5. CASE ResetRevoke(r) \/ UpdateRevoke(r)
  <2>1. req[r].user \in Emails
    BY <1>0, <1>5, RequestFields DEF ResetRevoke, UpdateRevoke, At
  <2>2. PICK S \in SUBSET OpenSessions(req[r].user) : Revoke(S)
    BY <1>5 DEF ResetRevoke, UpdateRevoke
  <2>3. UNCHANGED <<granting, access>>
    <3>1. PICK label \in {"reset.save", "update.save"} :
            Becomes(r, [req[r] EXCEPT !.at = label])
      BY <1>5 DEF ResetRevoke, UpdateRevoke
    <3>2. [req[r] EXCEPT !.at = label].at = label
      BY <1>0, <1>5 DEF ResetRevoke, UpdateRevoke, At, InFlight, Idle
    <3> QED BY <1>0, <1>5, <3>1, <3>2, NotGranting DEF ResetRevoke, UpdateRevoke, At
  <2> QED BY <1>0, <2>1, <2>2, <2>3, ClosesMine DEF LedgerStep
<1>6. CASE UpdateSave(r)
  <2>1. UNCHANGED <<granting, access>>
    BY <1>0, <1>6, NotGranting DEF UpdateSave, At, Answered, Idle
  <2>2. req[r].own \in Sessions /\ sessions[req[r].own] \in SessionRow
    BY <1>0, <1>6, RequestFields DEF Base, References, TypeOK, UpdateSave, At, FreeId
  <2>3. \A s \in Sessions : /\ sessions'[s].state = sessions[s].state
                            /\ sessions'[s].user = sessions[s].user
    BY <1>0, <1>6, <2>2 DEF UpdateSave, TypeOK, SessionRow
  <2>4. UNCHANGED <<ledgerMap, ownerMap>>
    BY <2>3 DEF ledgerMap, ownerMap, LedgerOf, OwnerOf
  <2> QED BY <2>1, <2>4 DEF LedgerStep
<1>7. CASE RegisterInsert(r)
  BY <1>1, <1>2, <1>7 DEF RegisterInsert, At
<1>8. CASE \E h \in Hashes : ForgotCreate(r, h)
  BY <1>1, <1>8 DEF ForgotCreate, At
<1>9. CASE ResetSave(r)
  BY <1>1, <1>9 DEF ResetSave, At
<1>10. CASE RegisterMail(r) \/ ConfirmSave(r) \/ ForgotMail(r) \/ ResetConsume(r)
  BY <1>2, <1>10 DEF RegisterMail, ConfirmSave, ForgotMail, ResetConsume, At
<1> QED BY <1>3, <1>4, <1>5, <1>6, <1>7, <1>8, <1>9, <1>10 DEF Advance

LEMMA LedgerOther ==
  ASSUME Base, AtOnce \/ (\E s \in Sessions : AccessExpires(s))
                 \/ (\E r \in Requests : Fail(r))
  PROVE  LedgerStep
<1>0. TypeOK
  BY DEF Base
<1>1. ASSUME NEW s \in Sessions, Logout(s)
      PROVE  LedgerStep
  <2>1. sessions[s] \in SessionRow
    BY <1>0, <1>1 DEF Logout, Base, References, TypeOK, FreeId
  <2>2. Revoke({s}) /\ UNCHANGED <<granting, access>>
    BY <1>1 DEF Logout, granting
  <2>3. CASE sessions[s].state = "live"
    <3>1. sessions[s].user \in Emails /\ {s} \in SUBSET OpenSessions(sessions[s].user)
      BY <2>1, <2>3 DEF OpenSessions, SessionRow
    <3> QED BY <1>0, <2>2, <3>1, ClosesMine DEF LedgerStep
  <2>4. CASE sessions[s].state = "dead"
    <3>1. /\ ledgerMap' = [t \in Sessions |-> IF t \in {s} THEN "closed" ELSE ledgerMap[t]]
          /\ UNCHANGED ownerMap
      BY <1>0, <2>2, <2>4, RevokeMaps
    <3>2. ledgerMap' = ledgerMap
      BY <2>4, <3>1 DEF ledgerMap, LedgerOf
    <3> QED BY <2>2, <3>1, <3>2 DEF LedgerStep
  <2> QED BY <2>1, <2>3, <2>4 DEF SessionRow
<1>2. ASSUME UNCHANGED <<sessions, req, access>>
      PROVE  LedgerStep
  BY <1>2, SessionsSame DEF LedgerStep, granting
<1>3. ASSUME NEW s \in Sessions, AccessExpires(s)
      PROVE  LedgerStep
  BY <1>3, SessionsSame, MapExpire DEF AccessExpires, LedgerStep, granting
<1>4. ASSUME NEW r \in Requests, Fail(r)
      PROVE  LedgerStep
  <2>1. UNCHANGED <<ledgerMap, ownerMap, access>>
    BY <1>4, SessionsSame DEF Fail
  <2>2. CASE At(r, "sign")
    <3>1. /\ req[r].session \in Sessions
          /\ granting' \in {granting, granting \ {req[r].session}}
      BY <1>0, <1>4, <2>2, RequestFields, StopsGranting DEF Fail, At, TypeOK
    <3> QED BY <2>1, <3>1, MapDrop DEF LedgerStep
  <2>3. CASE ~At(r, "sign")
    BY <1>0, <1>4, <2>1, <2>3, NotGranting DEF Fail, Answered, Idle, At, LedgerStep
  <2> QED BY <2>2, <2>3
<1> QED BY <1>1, <1>2, <1>3, <1>4
        DEF AtOnce, DeleteMe, AdminSetsPassword, AdminSetsStatus, AdminSetsPin,
            AdminCreates, AdminRemoves

-----------------------------------------------------------------------------
(* The refinement *)

\* Whatever the handlers do, the session table keeps the promises of the
\* ledger: stable ids and owners, closed for good, tokens for open sessions only.
THEOREM LedgerImplemented == Spec => ImplementsLedger
<1>1. Init => Base /\ Ledger!Init
  <2>1. ASSUME Init
        PROVE  Ledger!Init
    BY <2>1, MapIsLedger
    DEF Init, FreeId, Idle, ledgerMap, ownerMap, granting, LedgerOf, OwnerOf
  <2> QED BY <2>1, BaseInit
<1>2. Base /\ [Next]_vars => Base'
  BY BaseReceive, BaseAdvance, BaseOther, BaseStutter DEF Next
<1>3. Base /\ [Next]_vars => [Ledger!Next]_(Ledger!vars)
  <2>1. ASSUME Base, Next
        PROVE  LedgerStep
    BY <2>1, LedgerReceive, LedgerAdvance, LedgerOther DEF Next
  <2>2. ASSUME UNCHANGED vars
        PROVE  UNCHANGED <<ledgerMap, ownerMap, granting, access>>
    BY <2>2 DEF vars, ledgerMap, ownerMap, granting, LedgerOf, OwnerOf
  <2>3. Ledger!vars = <<ledgerMap, ownerMap, granting, access>>
    BY MapIsLedger
  <2>4. (Ledger!vars)' = <<ledgerMap, ownerMap, granting, access>>'
    BY DEF Ledger!vars, ledgerMap, ownerMap, granting, LedgerOf, OwnerOf
  <2> QED BY <2>1, <2>2, <2>3, <2>4 DEF LedgerStep
<1> QED BY <1>1, <1>2, <1>3, PTL DEF Spec, ImplementsLedger, Ledger!Spec

-----------------------------------------------------------------------------
(* What follows from the ledger *)

\* The id of a session is never handed out again: it keeps its user, and a session
\* that logout, a reset or an update closed is never open again
\* (session.service.ts, auth.service.ts:402, 455, 513).
SessionsOnlyAge ==
  [][\A s \in Sessions :
       /\ ledgerMap[s] # "free" => ledgerMap'[s] # "free" /\ ownerMap'[s] = ownerMap[s]
       /\ ledgerMap[s] = "closed" => ledgerMap'[s] = "closed"]_vars

THEOREM SessionsAge == Spec => SessionsOnlyAge
<1>1. ASSUME [Ledger!Next]_(Ledger!vars), NEW s \in Sessions
      PROVE  /\ ledgerMap[s] # "free" => ledgerMap'[s] # "free" /\ ownerMap'[s] = ownerMap[s]
             /\ ledgerMap[s] = "closed" => ledgerMap'[s] = "closed"
  <2>1. CASE \E t \in Sessions, o \in Emails : Ledger!Open(t, o)
    BY <2>1 DEF Ledger!Open, ledgerMap, ownerMap, LedgerOf, OwnerOf
  <2>2. CASE \E o \in Emails, S \in SUBSET Sessions : Ledger!Close(o, S)
    BY <2>2 DEF Ledger!Close, ledgerMap, ownerMap, LedgerOf, OwnerOf
  <2>3. CASE UNCHANGED <<ledgerMap, ownerMap>>
    BY <2>3
  <2> QED BY <1>1, <2>1, <2>2, <2>3
          DEF Ledger!Next, Ledger!vars, Ledger!Pick, Ledger!Grant, Ledger!Drop, Ledger!Expire,
              ledgerMap, ownerMap, LedgerOf, OwnerOf
<1>2. [Ledger!Next]_(Ledger!vars) =>
        [\A s \in Sessions :
           /\ ledgerMap[s] # "free" => ledgerMap'[s] # "free" /\ ownerMap'[s] = ownerMap[s]
           /\ ledgerMap[s] = "closed" => ledgerMap'[s] = "closed"]_vars
  BY <1>1
<1> QED BY <1>2, LedgerImplemented, PTL DEF SessionsOnlyAge, ImplementsLedger, Ledger!Spec

\* A closed session for which no request is about to sign and no access token is
\* left stays so: a refresh looks for an open session, and nothing else signs
\* (auth.service.ts:482-499).  That each closed session comes to this point is
\* RevokedSessionFadesOut.
Faded(s) == ledgerMap[s] = "closed" /\ s \notin granting /\ s \notin access

FadedStaysFaded == [][\A s \in Sessions : Faded(s) => Faded(s)']_vars

THEOREM FadedSessionsStayFaded == Spec => FadedStaysFaded
<1>1. ASSUME [Ledger!Next]_(Ledger!vars), NEW s \in Sessions, Faded(s)
      PROVE  Faded(s)'
  BY <1>1 DEF Faded, Ledger!Next, Ledger!vars, Ledger!Open, Ledger!Close, Ledger!Pick,
              Ledger!Grant, Ledger!Drop, Ledger!Expire, ledgerMap, granting, LedgerOf
<1>2. [Ledger!Next]_(Ledger!vars) => [\A s \in Sessions : Faded(s) => Faded(s)']_vars
  BY <1>1
<1> QED BY <1>2, LedgerImplemented, PTL DEF FadedStaysFaded, ImplementsLedger, Ledger!Spec
=============================================================================
