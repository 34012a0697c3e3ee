---------------------------- MODULE MCAuthService ----------------------------
(* Small instances of AuthService for TLC; the .cfg files give the sets. *)
EXTENDS AuthService, TLC

\* Sound for a safety run without seeded rows: requests, session ids, hashes and
\* passwords are interchangeable (SeedPassword is a password of nobody then).
Interchangeable ==
  Permutations(Requests) \cup Permutations(Sessions) \cup Permutations(Hashes)
    \cup Permutations(Passwords)
=============================================================================
