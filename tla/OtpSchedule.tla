----------------------------- MODULE OtpSchedule -----------------------------
(***************************************************************************)
(* The one-time passwords createSmartWallet commits to                     *)
(* (src/onchain/onchain.service.ts:192-207): a leaf for each half minute   *)
(* from before the creation on, with the time it stands for and the code   *)
(* of an authenticator whose period is a minute.  Time is in seconds; the  *)
(* code of a minute stands for the digits.  What the wallet contract does  *)
(* with a leaf is in a submodule that is not part of the repository.       *)
(***************************************************************************)
EXTENDS Integers

CONSTANTS Moments,   \* when a wallet may be created
          Watched    \* how long it is watched from then on, a quarter of an hour at most

ASSUME MomentsAssumption ==
  /\ Moments \subseteq Nat
  /\ \A created \in Moments : created >= 60
ASSUME WatchedAssumption == Watched \in 0 .. 900

Leaves == 0 .. 31
Step == 30
Period == 60

\* Mutant of StartTime: half a minute before, to the second.
StartTimeToTheSecond(t) == t - Step
\* Math.floor(Date.now() / 30000 - 1) * 30000
StartTime(t) == (t \div Step - 1) * Step

\* TokenGenerator.getToken: what an authenticator shows at a moment.
Code(t) == t \div Period

LeafTime(created, i) == StartTime(created) + i * Step
Otp(created, i) == [time |-> LeafTime(created, i), code |-> Code(LeafTime(created, i))]

-----------------------------------------------------------------------------
\* The moments for which somebody may show a code to a wallet: his clock is up to
\* half a minute behind the server's.
UsedAt(created) == created - Step .. created + Watched

Covers(otp, now) == otp.time <= now /\ now < otp.time + Step

\* Whether the wallet has exactly one leaf for the moment, with the code that an
\* authenticator shows then.
HasItsCode(created, now) ==
  \E i \in Leaves :
    /\ Covers(Otp(created, i), now)
    /\ Otp(created, i).code = Code(now)
    /\ \A j \in Leaves : Covers(Otp(created, j), now) => j = i

\* When a wallet may be created that has all the codes somebody may show to it.
Complete == {created \in Moments : \A now \in UsedAt(created) : HasItsCode(created, now)}
=============================================================================
