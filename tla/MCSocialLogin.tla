--------------------------- MODULE MCSocialLogin ---------------------------
(* A small instance of SocialLogin for TLC. *)
EXTENDS SocialLogin, TLC

CONSTANTS e1, p1   \* members of Emails and Identities

\* One person, whose provider gives an address or none.
SomeProfiles == {[identity |-> p1, email |-> e1], [identity |-> p1, email |-> NoEmail]}

\* No constant names an id or a request.
Interchangeable == Permutations(Ids) \cup Permutations(Requests)
=============================================================================
