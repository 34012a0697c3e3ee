----------------------- MODULE MCGuardianRegistration -----------------------
(* Small instances of GuardianRegistration for TLC. *)
EXTENDS GuardianRegistration, TLC

\* No constant names a request, an address, a number or a wallet.
Interchangeable ==
  Permutations(Requests) \cup Permutations(Emails)
    \cup Permutations(Numbers) \cup Permutations(Wallets)
=============================================================================
