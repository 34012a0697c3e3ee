--------------------------- MODULE SessionLedger ---------------------------
(***************************************************************************)
(* What the session table promises the holders of tokens, whatever the     *)
(* handlers of AuthService do to users and passwords meanwhile:            *)
(*   - a session id is handed out once and keeps its owner;                *)
(*   - a session that was closed stays closed;                             *)
(*   - an access token is issued only for a session that was open at the   *)
(*     moment the request that issues it looked it up (or created it).     *)
(* An answer in preparation ("granting") is not recalled when the session  *)
(* closes: it may still be given, or be dropped.                           *)
(***************************************************************************)
CONSTANTS Sessions, Owners, NoOwner

VARIABLES ledger,    \* session id -> "free", "open" or "closed"
          owner,     \* session id -> its user, NoOwner while free
          granting,  \* sessions picked by a request that has not answered
          access     \* sessions for which an unexpired access token exists
vars == <<ledger, owner, granting, access>>

Init ==
  /\ ledger = [s \in Sessions |-> "free"]
  /\ owner = [s \in Sessions |-> NoOwner]
  /\ granting = {}
  /\ access = {}

Open(s, o) ==
  /\ ledger[s] = "free"
  /\ ledger' = [ledger EXCEPT ![s] = "open"]
  /\ owner' = [owner EXCEPT ![s] = o]
  /\ granting' = granting \cup {s}
  /\ UNCHANGED access

\* Some or all of one user's open sessions are closed at once.
Close(o, S) ==
  /\ \A s \in S : owner[s] = o /\ ledger[s] = "open"
  /\ ledger' = [s \in Sessions |-> IF s \in S THEN "closed" ELSE ledger[s]]
  /\ UNCHANGED <<owner, granting, access>>

Pick(s) ==
  /\ ledger[s] = "open"
  /\ granting' = granting \cup {s}
  /\ UNCHANGED <<ledger, owner, access>>

\* Another request may still be answering for the same session.
Grant(s) ==
  /\ s \in granting
  /\ access' = access \cup {s}
  /\ granting' \in {granting, granting \ {s}}
  /\ UNCHANGED <<ledger, owner>>

Drop(s) ==
  /\ granting' = granting \ {s}
  /\ UNCHANGED <<ledger, owner, access>>

Expire(s) ==
  /\ access' = access \ {s}
  /\ UNCHANGED <<ledger, owner, granting>>

Next ==
  \/ \E s \in Sessions : Pick(s) \/ Grant(s) \/ Drop(s) \/ Expire(s)
  \/ \E s \in Sessions, o \in Owners : Open(s, o)
  \/ \E o \in Owners, S \in SUBSET Sessions : Close(o, S)

Spec == Init /\ [][Next]_vars
=============================================================================
