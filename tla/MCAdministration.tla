-------------------------- MODULE MCAdministration --------------------------
(* A small instance of Administration for TLC. *)
EXTENDS Administration

CONSTANTS e1, e2   \* members of Emails

\* The administrator of the seeds.
Alone == <<[state |-> "live", email |-> e1, role |-> "admin"]>>

\* A second one is created, appointed and demoted, and either removed.
RoleCommands ==
  [do : {"patch"}, id : {2}, email : {Keep}, role : Roles]
  \cup [do : {"create"}, email : {e2}, role : {"admin"}]
  \cup Removal
=============================================================================
