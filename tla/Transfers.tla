------------------------------ MODULE Transfers ------------------------------
(***************************************************************************)
(* What may be relied on when the service is asked to send Mina to a       *)
(* wallet: an order moves its amount once or never, never once it was      *)
(* declined, and only to a wallet that some user had by then.              *)
(***************************************************************************)
EXTENDS Naturals

CONSTANTS Orders, Wallets

VARIABLES
  payee,    \* order -> the wallet it asks money for, or "none"
  known,    \* wallets that some user had so far
  fate,     \* order -> "open" or "declined"
  moved     \* order -> how often its amount was moved

vars == <<payee, known, fate, moved>>

Init ==
  /\ payee = [o \in Orders |-> "none"]
  /\ known \in SUBSET Wallets
  /\ fate = [o \in Orders |-> "open"]
  /\ moved = [o \in Orders |-> 0]

Ask(o, w) ==
  /\ payee[o] = "none" /\ fate[o] = "open"
  /\ payee' = [payee EXCEPT ![o] = w]
  /\ UNCHANGED <<known, fate, moved>>

Know(w) == known' = known \cup {w} /\ UNCHANGED <<payee, fate, moved>>

Decline(o) ==
  /\ moved[o] = 0
  /\ fate' = [fate EXCEPT ![o] = "declined"]
  /\ UNCHANGED <<payee, known, moved>>

Move(o) ==
  /\ payee[o] \in known /\ fate[o] = "open" /\ moved[o] = 0
  /\ moved' = [moved EXCEPT ![o] = 1]
  /\ UNCHANGED <<payee, known, fate>>

Next ==
  \/ \E o \in Orders : Decline(o) \/ Move(o) \/ \E w \in Wallets : Ask(o, w)
  \/ \E w \in Wallets : Know(w)

Spec == Init /\ [][Next]_vars
=============================================================================
