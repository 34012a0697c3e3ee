---------------------------- MODULE SeedingProofs ----------------------------
(***************************************************************************)
(* Proofs about Seeding.  The invariant says how far the tables are, given *)
(* the step of the run: what its steps so far have put into the reference  *)
(* tables stays there; and, while nobody touched a seeded account, an      *)
(* account is as the seeds made it, the rows a step is about to insert are *)
(* not there, and the roles whose part of the script is over have one.     *)
(***************************************************************************)
EXTENDS Seeding, TLAPS

\* The script, line by line.
LEMMA Lines ==
  /\ Len(Script) = 14
  /\ Script[1] = [do |-> "role", role |-> "user"]
  /\ Script[2] = [do |-> "role", role |-> "admin"]
  /\ Script[3] = [do |-> "role", role |-> "guardian"]
  /\ Script[4] = [do |-> "role", role |-> "developer"]
  /\ Script[5] = [do |-> "statuses"]
  /\ Script[6] = [do |-> "count", role |-> "admin", saves |-> 2]
  /\ Script[7] = [do |-> "user", role |-> "admin", address |-> "super"]
  /\ Script[8] = [do |-> "user", role |-> "admin", address |-> "mobile"]
  /\ Script[9] = [do |-> "count", role |-> "user", saves |-> 2]
  /\ Script[10] = [do |-> "user", role |-> "user", address |-> "john"]
  /\ Script[11] = [do |-> "user", role |-> "user", address |-> "tester"]
  /\ Script[12] = [do |-> "count", role |-> "guardian", saves |-> 1]
  /\ Script[13] = [do |-> "user", role |-> "guardian", address |-> "guardian1"]
  /\ Script[14] = [do |-> "guardian"]
  BY DEF Script

\* Which steps do what.
LEMMA Kinds ==
  ASSUME TypeOK
  PROVE  /\ Doing("role") <=> step \in {1, 2, 3, 4}
         /\ Doing("statuses") <=> step = 5
         /\ Doing("count") <=> step \in {6, 9, 12}
         /\ Doing("user") <=> step \in {7, 8, 10, 11, 13}
         /\ Doing("guardian") <=> step = 14
  <1>1. step \in 0 .. 14
    BY Lines DEF TypeOK
  <1>2. step = 0 \/ step = 1 \/ step = 2 \/ step = 3 \/ step = 4 \/ step = 5 \/ step = 6
          \/ step = 7 \/ step = 8 \/ step = 9 \/ step = 10 \/ step = 11 \/ step = 12
          \/ step = 13 \/ step = 14
    BY <1>1
  <1> QED
    BY <1>2, Lines DEF Doing

SeededRole == [super |-> "admin", mobile |-> "admin", john |-> "user", tester |-> "user",
               guardian1 |-> "guardian"]

References ==
  /\ statuses \in {{}, Statuses}
  /\ server = "up" \/ step > 1 => "user" \in roles
  /\ server = "up" \/ step > 2 => "admin" \in roles
  /\ server = "up" \/ step > 3 => "guardian" \in roles
  /\ server = "up" \/ step > 4 => "developer" \in roles
  /\ server = "up" \/ step > 5 => statuses = Statuses

Nobody(a) == accounts[a] = NoRow

Untouched ==
  ~meddled =>
    /\ \A a \in Addresses :
         Nobody(a) \/ accounts[a] = [state |-> "live", role |-> SeededRole[a]]
    /\ step = 7 => Nobody("super") /\ Nobody("mobile")
    /\ step = 8 => Nobody("mobile")
    /\ step = 10 => Nobody("john") /\ Nobody("tester")
    /\ step = 11 => Nobody("tester")
    /\ step = 13 => Nobody("guardian1")
    /\ server = "up" \/ step > 7 => HasRole("admin")
    /\ server = "up" \/ step > 10 => HasRole("user")
    /\ server = "up" \/ step > 13 => HasRole("guardian")

Inv == TypeOK /\ References /\ Untouched /\ UserSeedsRerun

LEMMA StepIsNumber == TypeOK => step \in 0 .. 14
  BY Lines DEF TypeOK

LEMMA StepTypes == step \in 0 .. 14 => step \in 0 .. Len(Script)
  <1>1. Len(Script) = 14
    BY Lines
  <1> QED
    BY <1>1

LEMMA InitInv == Init => Inv
  <1> SUFFICES ASSUME Init PROVE Inv
    OBVIOUS
  <1>1. step = 0 /\ step \in 0 .. 14
    BY DEF Init
  <1>2. TypeOK
    BY <1>1, StepTypes DEF Init, TypeOK, Outcomes
  <1>3. References
    BY <1>1 DEF Init, References
  <1>4. Untouched
    BY <1>1 DEF Init, Untouched, Nobody
  <1> QED
    BY <1>2, <1>3, <1>4 DEF Init, Inv, UserSeedsRerun

-----------------------------------------------------------------------------
(* The steps of a run *)

LEMMA RoleKeepsInv == Inv /\ SeedRole => Inv'
  <1> SUFFICES ASSUME Inv, SeedRole PROVE Inv'
    OBVIOUS
  <1>1. step \in {1, 2, 3, 4}
    BY Kinds DEF Inv, SeedRole
  <1>2. /\ step' = step + 1 /\ roles' = roles \cup {Script[step].role}
        /\ UNCHANGED <<statuses, accounts, guardian, outcome, server, meddled>>
    BY DEF SeedRole
  <1>3. Script[step].role = IF step = 1 THEN "user" ELSE IF step = 2 THEN "admin"
                            ELSE IF step = 3 THEN "guardian" ELSE "developer"
    BY <1>1, Lines
  <1>4. TypeOK'
    BY <1>1, <1>2, <1>3, Lines DEF Inv, TypeOK, Roles
  <1>5. References'
    BY <1>1, <1>2, <1>3 DEF Inv, References
  <1>6. Untouched'
    BY <1>1, <1>2 DEF Inv, Untouched, Nobody, HasRole
  <1> QED
    BY <1>2, <1>4, <1>5, <1>6 DEF Inv, UserSeedsRerun

LEMMA StatusesKeepInv == Inv /\ SeedStatuses => Inv'
  <1> SUFFICES ASSUME Inv, SeedStatuses PROVE Inv'
    OBVIOUS
  <1>1. step = 5
    BY Kinds DEF Inv, SeedStatuses
  <1>2. /\ step' = 6 /\ statuses' = Statuses
        /\ UNCHANGED <<roles, accounts, guardian, outcome, server, meddled>>
    BY <1>1 DEF SeedStatuses, Inv, References
  <1>3. TypeOK'
    BY <1>2, Lines DEF Inv, TypeOK
  <1>4. References'
    BY <1>1, <1>2 DEF Inv, References
  <1>5. Untouched'
    BY <1>1, <1>2 DEF Inv, Untouched, Nobody, HasRole
  <1> QED
    BY <1>2, <1>3, <1>4, <1>5 DEF Inv, UserSeedsRerun

\* Where a count leads.
LEMMA Counted ==
  ASSUME TypeOK, CountUsers
  PROVE  \/ step = 6 /\ HasRole("admin") /\ step' = 9
         \/ step = 6 /\ ~HasRole("admin") /\ step' = 7
         \/ step = 9 /\ HasRole("user") /\ step' = 12
         \/ step = 9 /\ ~HasRole("user") /\ step' = 10
         \/ step = 12 /\ HasRole("guardian") /\ step' = 14
         \/ step = 12 /\ ~HasRole("guardian") /\ step' = 13
  <1>1. step = 6 \/ step = 9 \/ step = 12
    BY Kinds DEF CountUsers
  <1> QED
    BY <1>1, Lines DEF CountUsers, FoundByCount

\* Whoever is as the seeds made it shows in the count of its role.
LEMMA NotCounted ==
  ASSUME Inv, ~meddled, NEW a \in Addresses, ~HasRole(SeededRole[a])
  PROVE  Nobody(a)
  <1>1. Nobody(a) \/ accounts[a] = [state |-> "live", role |-> SeededRole[a]]
    BY DEF Inv, Untouched
  <1> QED
    BY <1>1 DEF HasRole

LEMMA CountKeepsInv == Inv /\ CountUsers => Inv'
  <1> SUFFICES ASSUME Inv, CountUsers PROVE Inv'
    OBVIOUS
  <1>1. UNCHANGED <<roles, statuses, accounts, guardian, outcome, server, meddled>>
    BY DEF CountUsers, tables
  <1>2. step \in {6, 9, 12} /\ step' \in 7 .. 14 /\ step' > step
    BY Counted DEF Inv
  <1>3. TypeOK'
    BY <1>1, <1>2, Lines DEF Inv, TypeOK
  <1>4. References'
    BY <1>1, <1>2 DEF Inv, References
  <1>5. Untouched'
    <2> SUFFICES ASSUME ~meddled PROVE Untouched'
      BY <1>1 DEF Untouched
    <2>1. ~HasRole("admin") => Nobody("super") /\ Nobody("mobile")
      BY NotCounted DEF Addresses, SeededRole
    <2>2. ~HasRole("user") => Nobody("john") /\ Nobody("tester")
      BY NotCounted DEF Addresses, SeededRole
    <2>3. ~HasRole("guardian") => Nobody("guardian1")
      BY NotCounted DEF Addresses, SeededRole
    <2>4. /\ \A a \in Addresses : Nobody(a)' <=> Nobody(a)
          /\ \A role \in Roles : HasRole(role)' <=> HasRole(role)
      BY <1>1 DEF Nobody, HasRole
    <2>5. \A a \in Addresses :
            Nobody(a)' \/ accounts'[a] = [state |-> "live", role |-> SeededRole[a]]
      BY <1>1, <2>4 DEF Inv, Untouched
    <2> QED
      BY <1>1, Counted, <2>1, <2>2, <2>3, <2>4, <2>5
      DEF Inv, Untouched, Addresses, Roles
  <1> QED
    BY <1>1, <1>3, <1>4, <1>5 DEF Inv, UserSeedsRerun

\* What a save of an account inserts.
LEMMA Inserts ==
  ASSUME TypeOK, Doing("user")
  PROVE  /\ Script[step].address \in Addresses
         /\ Script[step].role = SeededRole[Script[step].address]
         /\ Script[step].role \in Roles
         /\ \/ step = 7 /\ Script[step].address = "super"
            \/ step = 8 /\ Script[step].address = "mobile"
            \/ step = 10 /\ Script[step].address = "john"
            \/ step = 11 /\ Script[step].address = "tester"
            \/ step = 13 /\ Script[step].address = "guardian1"
  <1>1. step = 7 \/ step = 8 \/ step = 10 \/ step = 11 \/ step = 13
    BY Kinds
  <1> QED
    BY <1>1, Lines DEF Addresses, SeededRole, Roles

LEMMA UserKeepsInv == Inv /\ SeedUser => Inv'
  <1> SUFFICES ASSUME Inv, SeedUser PROVE Inv'
    OBVIOUS
  <1> DEFINE a == Script[step].address
             role == Script[step].role
  <1>1. /\ a \in Addresses /\ role = SeededRole[a] /\ role \in Roles
        /\ \/ step = 7 /\ a = "super"
           \/ step = 8 /\ a = "mobile"
           \/ step = 10 /\ a = "john"
           \/ step = 11 /\ a = "tester"
           \/ step = 13 /\ a = "guardian1"
    BY Inserts DEF Inv, SeedUser
  <1>2. UNCHANGED <<roles, statuses, guardian, server, meddled>>
    BY DEF SeedUser
  <1>3. CASE accounts[a].state # "none"
    <2>1. step' = 0 /\ outcome' = "user taken" /\ UNCHANGED accounts
      BY <1>3 DEF SeedUser, Rejects
    <2>2. meddled
      <3>1. ~meddled => Nobody(a)
        BY <1>1 DEF Inv, Untouched
      <3> QED
        BY <1>3, <3>1 DEF Nobody, NoRow
    <2> HIDE DEF a, role
    <2>3. step' = 0 /\ Len(Script) = 14
      BY <2>1, Lines
    <2>4. step' \in 0 .. Len(Script)
      BY <2>3
    <2>5. TypeOK'
      BY <1>2, <2>1, <2>4 DEF Inv, TypeOK, Outcomes
    <2>6. References'
      <3>1. ~(step' > 1) /\ ~(step' > 2) /\ ~(step' > 3) /\ ~(step' > 4) /\ ~(step' > 5)
        BY <2>3
      <3> QED
        BY <1>2, <3>1 DEF Inv, References
    <2> QED
      BY <1>2, <2>2, <2>5, <2>6 DEF Inv, Untouched, UserSeedsRerun
  <1>4. CASE accounts[a].state = "none"
    <2> DEFINE row == [state |-> "live", role |-> role]
    <2>1. /\ step' = step + 1 /\ accounts' = [accounts EXCEPT ![a] = row]
          /\ UNCHANGED outcome
      BY <1>4 DEF SeedUser
    <2>2. row \in Account /\ row.state = "live" /\ row.role = SeededRole[a]
      BY <1>1 DEF Account
    <2> HIDE DEF a, role, row
    <2>3. TypeOK'
      BY <1>1, <1>2, <2>1, <2>2, Lines DEF Inv, TypeOK
    <2>4. References'
      BY <1>1, <1>2, <2>1 DEF Inv, References
    <2>5. accounts'[a] = row /\ \A b \in Addresses \ {a} : accounts'[b] = accounts[b]
      BY <1>1, <2>1 DEF Inv, TypeOK
    <2>6. Untouched'
      <3> SUFFICES ASSUME ~meddled PROVE Untouched'
        BY <1>2 DEF Untouched
      <3>1. \A b \in Addresses :
              Nobody(b)' \/ accounts'[b] = [state |-> "live", role |-> SeededRole[b]]
        <4>1. row = [state |-> "live", role |-> SeededRole[a]]
          BY <1>1 DEF row
        <4> QED
          BY <2>5, <4>1 DEF Inv, Untouched, Nobody
      <3>2. \E b \in Addresses :
               accounts'[b].state = "live" /\ accounts'[b].role = SeededRole[a]
        BY <1>1, <2>2, <2>5
      <3>3. \A x \in Roles : HasRole(x) => HasRole(x)'
        BY <1>4, <2>5 DEF HasRole, a
      <3>4. step = 7 => Nobody("mobile")'
        BY <1>1, <2>5 DEF Inv, Untouched, Nobody, Addresses
      <3>5. step = 10 => Nobody("tester")'
        BY <1>1, <2>5 DEF Inv, Untouched, Nobody, Addresses
      <3>6. /\ a = "super" \/ a = "mobile" => SeededRole[a] = "admin"
            /\ a = "john" \/ a = "tester" => SeededRole[a] = "user"
            /\ a = "guardian1" => SeededRole[a] = "guardian"
        BY DEF SeededRole
      <3>7. /\ a = "super" \/ a = "mobile" => HasRole("admin")'
            /\ a = "john" \/ a = "tester" => HasRole("user")'
            /\ a = "guardian1" => HasRole("guardian")'
        BY <3>2, <3>6 DEF HasRole
      <3> QED
        BY <1>1, <1>2, <2>1, <3>1, <3>3, <3>4, <3>5, <3>7 DEF Inv, Untouched, Roles
    <2> QED
      BY <1>2, <2>1, <2>3, <2>4, <2>6 DEF Inv, UserSeedsRerun
  <1>5. accounts[a].state = "none" \/ accounts[a].state # "none"
    OBVIOUS
  <1> QED
    BY <1>3, <1>4, <1>5

LEMMA GuardianKeepsInv == Inv /\ SeedGuardian => Inv'
  <1> SUFFICES ASSUME Inv, SeedGuardian PROVE Inv'
    OBVIOUS
  <1>1. step = 14 /\ step' = 0
    BY Kinds DEF Inv, SeedGuardian, Rejects
  <1>2. /\ UNCHANGED <<roles, statuses, accounts, meddled>>
        /\ outcome' \in {"ok", "guardian taken"} /\ guardian' \in {"none", "live", "deleted"}
        /\ server' \in {"up", "down"}
    BY DEF SeedGuardian, Rejects, Inv, TypeOK
  <1>3. step' \in 0 .. Len(Script)
    BY <1>1, Lines
  <1>4. TypeOK'
    BY <1>2, <1>3 DEF Inv, TypeOK, Outcomes
  <1>5. /\ step > 1 /\ step > 2 /\ step > 3 /\ step > 4 /\ step > 5
        /\ step > 7 /\ step > 10 /\ step > 13
    BY <1>1
  <1>6. /\ statuses = Statuses
         /\ {"user", "admin", "guardian", "developer"} \subseteq roles
    BY <1>5 DEF Inv, References
  <1>7. References'
    BY <1>2, <1>6 DEF References
  <1>8. UNCHANGED HasRole("admin") /\ UNCHANGED HasRole("user") /\ UNCHANGED HasRole("guardian")
    BY <1>2 DEF HasRole
  <1>9. \A a \in Addresses : Nobody(a)' <=> Nobody(a)
    BY <1>2 DEF Nobody
  <1>10. Untouched'
    <2> SUFFICES ASSUME ~meddled PROVE Untouched'
      BY <1>2 DEF Untouched
    <2>1. HasRole("admin")' /\ HasRole("user")' /\ HasRole("guardian")'
      BY <1>8, <1>5 DEF Inv, Untouched
    <2>2. \A a \in Addresses :
            Nobody(a)' \/ accounts'[a] = [state |-> "live", role |-> SeededRole[a]]
      BY <1>2, <1>9 DEF Inv, Untouched
    <2>3. step' # 7 /\ step' # 8 /\ step' # 10 /\ step' # 11 /\ step' # 13
      BY <1>1
    <2> QED
      BY <2>1, <2>2, <2>3 DEF Untouched
  <1> QED
    BY <1>2, <1>4, <1>7, <1>10 DEF Inv, UserSeedsRerun

-----------------------------------------------------------------------------
(* What happens around the runs *)

LEMMA OutsideKeepsInv ==
  Inv /\ (StartRun \/ Kill \/ StopServer \/ AdminRemovesGuardian \/ UNCHANGED vars) => Inv'
  <1> SUFFICES ASSUME Inv, StartRun \/ Kill \/ StopServer \/ AdminRemovesGuardian
                             \/ UNCHANGED vars
               PROVE  Inv'
    OBVIOUS
  <1>1. /\ UNCHANGED <<roles, statuses, accounts, meddled>>
        /\ step' = step \/ step' \in {0, 1}
        /\ outcome' \in {outcome, "none", "killed"}
        /\ server' \in {server, "down"} /\ guardian' \in {guardian, "deleted"}
    BY DEF StartRun, Kill, StopServer, AdminRemovesGuardian, vars, tables, Rejects
  <1>2. step \in 0 .. 14
    BY StepIsNumber DEF Inv
  <1>3. step' \in 0 .. Len(Script)
    BY <1>1, <1>2, Lines
  <1>4. TypeOK'
    BY <1>1, <1>3 DEF Inv, TypeOK, Outcomes
  <1>5. (server' = "up" => server = "up") /\ (step' = step \/ step' = 0 \/ step' = 1)
    BY <1>1
  <1>6. \A n \in 1 .. 14 : step' > n => step > n
    BY <1>2, <1>5
  <1>7. /\ server' = "up" \/ step' > 1 => server = "up" \/ step > 1
        /\ server' = "up" \/ step' > 2 => server = "up" \/ step > 2
        /\ server' = "up" \/ step' > 3 => server = "up" \/ step > 3
        /\ server' = "up" \/ step' > 4 => server = "up" \/ step > 4
        /\ server' = "up" \/ step' > 5 => server = "up" \/ step > 5
        /\ server' = "up" \/ step' > 7 => server = "up" \/ step > 7
        /\ server' = "up" \/ step' > 10 => server = "up" \/ step > 10
        /\ server' = "up" \/ step' > 13 => server = "up" \/ step > 13
    BY <1>5, <1>6
  <1>8. References'
    BY <1>1, <1>7 DEF Inv, References
  <1>9. UNCHANGED HasRole("admin") /\ UNCHANGED HasRole("user") /\ UNCHANGED HasRole("guardian")
    BY <1>1 DEF HasRole
  <1>10. \A a \in Addresses : Nobody(a)' <=> Nobody(a)
    BY <1>1 DEF Nobody
  <1>11. /\ step' = 7 => step = 7
         /\ step' = 8 => step = 8
         /\ step' = 10 => step = 10
         /\ step' = 11 => step = 11
         /\ step' = 13 => step = 13
    BY <1>5
  <1>12. Addresses = {"super", "mobile", "john", "tester", "guardian1"}
    BY DEF Addresses
  <1>13. Untouched'
    <2> SUFFICES ASSUME ~meddled PROVE Untouched'
      BY <1>1 DEF Untouched
    <2>1. \A a \in Addresses :
            Nobody(a)' \/ accounts'[a] = [state |-> "live", role |-> SeededRole[a]]
      BY <1>1, <1>10 DEF Inv, Untouched
    <2> QED
      BY <1>7, <1>9, <1>10, <1>11, <1>12, <2>1 DEF Inv, Untouched
  <1> QED
    BY <1>1, <1>4, <1>8, <1>13 DEF Inv, UserSeedsRerun

LEMMA MeddlingKeepsInv ==
  ASSUME Inv, NEW a \in Addresses, NEW role \in Roles,
         AdminRemovesUser(a) \/ Register(a) \/ AdminSetsRole(a, role)
  PROVE  Inv'
  <1>1. meddled' = TRUE /\ UNCHANGED <<roles, statuses, guardian, step, outcome, server>>
    BY DEF AdminRemovesUser, Register, AdminSetsRole
  <1>2. accounts[a] \in Account \cup {NoRow} /\ NoRow.state = "none"
    BY DEF Inv, TypeOK, NoRow
  <1>3. /\ accounts[a].state = "live" => [accounts[a] EXCEPT !.state = "deleted"] \in Account
        /\ accounts[a].state # "none" => [accounts[a] EXCEPT !.role = role] \in Account
        /\ [state |-> "live", role |-> "user"] \in Account
    BY <1>2 DEF Account, Roles
  <1>4. accounts' \in [Addresses -> Account \cup {NoRow}]
    BY <1>3 DEF AdminRemovesUser, Register, AdminSetsRole, Inv, TypeOK
  <1> QED
    BY <1>1, <1>4 DEF Inv, TypeOK, References, Untouched, UserSeedsRerun

LEMMA NextInv == Inv /\ [Next]_vars => Inv'
  <1> SUFFICES ASSUME Inv, [Next]_vars PROVE Inv'
    OBVIOUS
  <1>1. "user" \in Roles
    BY DEF Roles
  <1> QED
    BY <1>1, RoleKeepsInv, StatusesKeepInv, CountKeepsInv, UserKeepsInv, GuardianKeepsInv,
       OutsideKeepsInv, MeddlingKeepsInv DEF Next, Run

LEMMA AlwaysInv == Spec => []Inv
  BY InitInv, NextInv, PTL DEF Spec

-----------------------------------------------------------------------------
(* What follows *)

\* Every reachable state is well typed.
THEOREM TypeCorrect == Spec => []TypeOK
  BY AlwaysInv, PTL DEF Inv

\* Wherever earlier runs were killed, a server has all roles and statuses, and so
\* has the step that inserts a user (role-seed.service.ts, status-seed.service.ts:17).
THEOREM ReferencesAreThere == Spec => []ReferencesPresent
  <1>1. Inv => ReferencesPresent
    <2> SUFFICES ASSUME Inv PROVE ReferencesPresent
      OBVIOUS
    <2>1. server = "up" => roles = Roles /\ statuses = Statuses
      BY DEF Inv, References, TypeOK, Roles
    <2>2. Doing("user") => Script[step].role \in roles /\ "active" \in statuses
      <3>1. Doing("user") => step \in {7, 8, 10, 11, 13} /\ Script[step].role \in Roles
        BY Kinds, Inserts DEF Inv
      <3>2. step \in {7, 8, 10, 11, 13} => Roles \subseteq roles /\ statuses = Statuses
        BY DEF Inv, References, Roles
      <3> QED
        BY <3>1, <3>2 DEF Statuses
    <2> QED
      BY <2>1, <2>2 DEF ReferencesPresent
  <1> QED
    BY <1>1, AlwaysInv, PTL

\* While nobody touches a seeded account, no run is rejected because of an account
\* (user-seed.service.ts:16-41).
THEOREM UserSeedsRepeat == Spec => []UserSeedsRerun
  BY AlwaysInv, PTL DEF Inv

\* While nobody touches a seeded account, a server has one of each role.
THEOREM RolesHaveAccounts == Spec => []EachRoleHasAnAccount
  <1>1. Inv => EachRoleHasAnAccount
    BY DEF Inv, Untouched, EachRoleHasAnAccount, UserRoles
  <1> QED
    BY <1>1, AlwaysInv, PTL
=============================================================================
