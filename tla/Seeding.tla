------------------------------- MODULE Seeding -------------------------------
(***************************************************************************)
(* The seed script (src/database/seeds): run once per deployment, by the   *)
(* release phase of the Procfile while the previous release still serves,  *)
(* or by startup.dev.sh before its server starts.  The script counts and   *)
(* saves table by table without a transaction around it; it may be killed  *)
(* at any point and is run again at the next deployment.                   *)
(*                                                                         *)
(* A step is one count or one save.  For roles and statuses, which nobody  *)
(* else writes, a count is joined with the save it guards.  The addresses  *)
(* of the administrators come from the environment, which is taken to give *)
(* two different ones.  Accounts at other addresses are left out: until    *)
(* somebody touches the seeded ones, they only add to roles that a serving *)
(* system has an account of already.                                       *)
(***************************************************************************)
EXTENDS Naturals, Sequences

Roles == {"user", "admin", "guardian", "developer"}
Statuses == {"active", "inactive", "pending"}
Addresses == {"super", "mobile", "john", "tester", "guardian1"}

\* Roles the seeds give to an account.
UserRoles == {"user", "admin", "guardian"}

\* runSeed, in order.  A count of users skips the saves that follow it.
Script == <<
  [do |-> "role", role |-> "user"], [do |-> "role", role |-> "admin"],
  [do |-> "role", role |-> "guardian"], [do |-> "role", role |-> "developer"],
  [do |-> "statuses"],
  [do |-> "count", role |-> "admin", saves |-> 2],
  [do |-> "user", role |-> "admin", address |-> "super"],
  [do |-> "user", role |-> "admin", address |-> "mobile"],
  [do |-> "count", role |-> "user", saves |-> 2],
  [do |-> "user", role |-> "user", address |-> "john"],
  [do |-> "user", role |-> "user", address |-> "tester"],
  [do |-> "count", role |-> "guardian", saves |-> 1],
  [do |-> "user", role |-> "guardian", address |-> "guardian1"],
  [do |-> "guardian"] >>

VARIABLES
  roles, statuses,   \* ids in the two tables
  accounts,          \* address -> row of table user, or NoRow
  guardian,          \* the seeded guardian: "none", "live" or "deleted"
  step,              \* index into Script, 0 when no run is under way
  outcome,           \* how the last run ended, while none is under way
  server,            \* "up" or "down"
  meddled            \* history: an administrator or a registration touched a
                     \* seeded address

vars == <<roles, statuses, accounts, guardian, step, outcome, server, meddled>>
tables == <<roles, statuses, accounts, guardian>>

NoRow == [state |-> "none"]
Account == [state : {"live", "deleted"}, role : Roles]
Outcomes == {"none", "ok", "killed", "user taken", "guardian taken"}

TypeOK ==
  /\ roles \subseteq Roles
  /\ statuses \subseteq Statuses
  /\ accounts \in [Addresses -> Account \cup {NoRow}]
  /\ guardian \in {"none", "live", "deleted"}
  /\ step \in 0 .. Len(Script)
  /\ outcome \in Outcomes
  /\ server \in {"up", "down"}
  /\ meddled \in BOOLEAN

Init ==
  /\ roles = {}
  /\ statuses = {}
  /\ accounts = [a \in Addresses |-> NoRow]
  /\ guardian = "none"
  /\ step = 0
  /\ outcome = "none"
  /\ server = "down"
  /\ meddled = FALSE

Doing(what) == step > 0 /\ Script[step].do = what
HasRole(role) ==
  \E a \in Addresses : accounts[a].state = "live" /\ accounts[a].role = role

\* An unhandled rejection of runSeed ends the process with an error; the shell
\* (set -e, or the release phase) starts nothing after that.
Rejects(why) == step' = 0 /\ outcome' = why
-----------------------------------------------------------------------------
StartRun ==
  /\ step = 0
  /\ step' = 1
  /\ outcome' = "none"
  /\ UNCHANGED <<tables, server, meddled>>

SeedRole ==
  /\ Doing("role")
  /\ roles' = roles \cup {Script[step].role}
  /\ step' = step + 1
  /\ UNCHANGED <<statuses, accounts, guardian, outcome, server, meddled>>

\* Mutant of SeedStatuses: three saves, between which the run may be killed.
SeedStatusesOneByOne ==
  /\ Doing("statuses")
  /\ \/ statuses' = (IF statuses = {} THEN Statuses ELSE statuses) /\ step' = step + 1
     \/ statuses = {} /\ statuses' = {"active"} /\ step' = 0
  /\ UNCHANGED <<roles, accounts, guardian, outcome, server, meddled>>

\* save() of an array is one transaction, and any status at all skips it.
SeedStatuses ==
  /\ Doing("statuses")
  /\ statuses' = IF statuses = {} THEN Statuses ELSE statuses
  /\ step' = step + 1
  /\ UNCHANGED <<roles, accounts, guardian, outcome, server, meddled>>

\* Mutants of FoundByCount: any user counts; the guard is missing.
AnyoneFound(role) == \E a \in Addresses : accounts[a].state = "live"
NobodyFound(role) == FALSE

\* count({where: {role}}), which leaves soft-deleted rows out.
FoundByCount(role) == HasRole(role)

CountUsers ==
  /\ Doing("count")
  /\ step' = IF FoundByCount(Script[step].role)
               THEN step + Script[step].saves + 1 ELSE step + 1
  /\ UNCHANGED <<tables, outcome, server, meddled>>

\* The address is unique over deleted rows too.  The foreign keys of the row are
\* there: ReferencesPresent.
SeedUser ==
  /\ Doing("user")
  /\ LET a == Script[step].address
         role == Script[step].role
     IN \/ /\ accounts[a].state # "none"
           /\ Rejects("user taken")
           /\ UNCHANGED accounts
        \/ /\ accounts[a].state = "none"
           /\ accounts' = [accounts EXCEPT ![a] = [state |-> "live", role |-> role]]
           /\ step' = step + 1
           /\ UNCHANGED outcome
  /\ UNCHANGED <<roles, statuses, guardian, server, meddled>>

\* Mutant of SeedGuardian: without app.close() the run goes on for ever.
SeedGuardianWithoutClose ==
  /\ Doing("guardian")
  /\ guardian' = "live"
  /\ step' = step + 1
  /\ UNCHANGED <<roles, statuses, accounts, outcome, server, meddled>>

\* The last save has no count in front of it.  Then app.close(), and the shell
\* goes on to the server.
SeedGuardian ==
  /\ Doing("guardian")
  /\ \/ /\ guardian = "none"
        /\ guardian' = "live"
        /\ step' = 0
        /\ outcome' = "ok"
        /\ server' = "up"
     \/ /\ guardian # "none"
        /\ Rejects("guardian taken")
        /\ UNCHANGED <<guardian, server>>
  /\ UNCHANGED <<roles, statuses, accounts, meddled>>

Kill ==
  /\ step > 0
  /\ Rejects("killed")
  /\ UNCHANGED <<tables, server, meddled>>

StopServer ==
  /\ server = "up"
  /\ server' = "down"
  /\ UNCHANGED <<tables, step, outcome, meddled>>

-----------------------------------------------------------------------------
(* What the routes of a running server do to seeded rows meanwhile. *)

\* DELETE users/:id
AdminRemovesUser(a) ==
  /\ server = "up"
  /\ accounts[a].state = "live"
  /\ accounts' = [accounts EXCEPT ![a].state = "deleted"]
  /\ meddled' = TRUE
  /\ UNCHANGED <<roles, statuses, guardian, step, outcome, server>>

\* PATCH users/:id with a role
AdminSetsRole(a, role) ==
  /\ server = "up"
  /\ accounts[a].state # "none"
  /\ accounts' = [accounts EXCEPT ![a].role = role]
  /\ meddled' = TRUE
  /\ UNCHANGED <<roles, statuses, guardian, step, outcome, server>>

\* POST auth/email/register with an address the seeds use
Register(a) ==
  /\ server = "up"
  /\ accounts[a].state = "none"
  /\ accounts' = [accounts EXCEPT ![a] = [state |-> "live", role |-> "user"]]
  /\ meddled' = TRUE
  /\ UNCHANGED <<roles, statuses, guardian, step, outcome, server>>

\* DELETE guardians/:id
AdminRemovesGuardian ==
  /\ server = "up"
  /\ guardian = "live"
  /\ guardian' = "deleted"
  /\ UNCHANGED <<roles, statuses, accounts, step, outcome, server, meddled>>

Run == SeedRole \/ SeedStatuses \/ CountUsers \/ SeedUser \/ SeedGuardian

Next ==
  \/ StartRun \/ Run \/ Kill \/ StopServer \/ AdminRemovesGuardian
  \/ \E a \in Addresses : AdminRemovesUser(a) \/ Register(a)
  \/ \E a \in Addresses, role \in Roles : AdminSetsRole(a, role)

Spec == Init /\ [][Next]_vars
-----------------------------------------------------------------------------
(* Properties *)

\* A server never runs without the roles and statuses its registrations refer
\* to, and no user is inserted before them, wherever earlier runs were killed
\* (role-seed checks each role, status-seed saves all three at once).
ReferencesPresent ==
  /\ server = "up" => roles = Roles /\ statuses = Statuses
  /\ Doing("user") => Script[step].role \in roles /\ "active" \in statuses

\* As long as nobody touches the seeded accounts, a run never collides with an
\* account of an earlier run, killed or finished (the counts of
\* user-seed.service.ts).
UserSeedsRerun == outcome = "user taken" => meddled

\* As long as nobody touches the seeded accounts, a server has a live account
\* of every role it gives out, wherever earlier runs were killed.
EachRoleHasAnAccount ==
  server = "up" /\ ~meddled => \A role \in UserRoles : HasRole(role)

\* A seed inserts only into a table that lacks its rows, so that a run can be
\* repeated: "if (count === 0)" in the template every seed is created from
\* (.hygen/seeds/create/service.ejs.t:17-19).
RerunSucceeds ==
  outcome \in {"user taken", "guardian taken"} => meddled
=============================================================================
