------------------------------ MODULE FeePayer ------------------------------
(***************************************************************************)
(* The account of topup.minaPrivateKey, which signs whatever the service   *)
(* puts on the chain: sendMina (src/onchain/onchain.service.ts:103-146),   *)
(* asked for on the routes topup and onchain/sendMina, and                 *)
(* createSmartWallet (174-250).  registerGuardian sends in the same way;   *)
(* its tree and its counter are in GuardianRegistration.                   *)
(*                                                                         *)
(* Every handler builds its transaction with the nonce the chain has for   *)
(* the account at that moment, proves it, which takes long, sends it and   *)
(* ignores what send() returns.  The network is external: it may refuse or *)
(* drop any transaction and applies one only at its nonce.                 *)
(*                                                                         *)
(* Left out: fee and balance, the keys of a smart wallet, and the account  *)
(* updates, which are all that accountIsNew decides about.                 *)
(***************************************************************************)
EXTENDS OtpSchedule, FiniteSets

CONSTANTS Requests,   \* requests there ever are (bound)
          Wallets,
          Amounts,    \* what a request may ask for
          Routes      \* those in use

ASSUME AmountsAssumption == Amounts \subseteq Int
ASSUME WalletsAssumption == "none" \notin Wallets
ASSUME RoutesAssumption == Routes \subseteq {"topup", "onchain", "wallet"}

Payment == [route : Routes \ {"wallet"}, to : Wallets, amount : Amounts]
\* With the moment createSmartWallet takes the one-time passwords from.
Deployment == [route : Routes \cap {"wallet"}, created : Moments]
NoOrder == [route |-> "none"]

\* What a route can answer; onchain/sendMina drops the result of sendMina.
AnswersOf == [topup |-> {"true", "false", "400"}, onchain |-> {"empty", "500"},
              wallet |-> {"keys", "500"}]

VARIABLES
  holders,    \* wallets with a live row in table user
  order,      \* what each request asked for
  req,        \* where each request is, and what it holds
  pool,       \* transactions the network has and has not applied
  nonce,      \* of the account, on the chain
  applied,    \* transactions on the chain
  known,      \* history: wallets that some user had so far
  beside      \* history: for each request, those that were under way when its
              \* transaction was built

vars == <<holders, order, req, pool, nonce, applied, known, beside>>
network == <<pool, nonce, applied>>
table == <<holders, known>>

Transaction == [by : Requests, nonce : Nat]

Ended == {"declined", "done", "failed"}
Request ==
  [at : {"new", "read", "build", "rejected", "lost"}]
  \cup [at : {"send"}, nonce : Nat]
  \cup [at : Ended, answer : UNION {AnswersOf[x] : x \in Routes}]

TypeOK ==
  /\ holders \subseteq known /\ known \subseteq Wallets
  /\ order \in [Requests -> Payment \cup Deployment \cup {NoOrder}]
  /\ req \in [Requests -> Request]
  /\ \A r \in Requests :
       /\ req[r].at \notin {"new", "lost"} => order[r].route \in Routes
       /\ req[r].at \in Ended => req[r].answer \in AnswersOf[order[r].route]
  /\ pool \subseteq Transaction
  /\ nonce \in Nat
  /\ applied \subseteq Transaction
  /\ beside \in [Requests -> SUBSET Requests]

Init ==
  /\ holders \in SUBSET Wallets
  /\ known = holders
  /\ order = [r \in Requests |-> NoOrder]
  /\ req = [r \in Requests |-> [at |-> "new"]]
  /\ pool = {} /\ nonce = 0 /\ applied = {}
  /\ beside = [r \in Requests |-> {}]

-----------------------------------------------------------------------------
At(r, label) == req[r].at = label
Goes(r, label) == req' = [req EXCEPT ![r] = [at |-> label]]
Ends(r, how, a) == req' = [req EXCEPT ![r] = [at |-> how, answer |-> a]]

(* the handlers -----------------------------------------------------------*)

\* One of the three routes; who may use them is in Administration.
Receive(r, o) ==
  /\ At(r, "new")
  /\ order' = [order EXCEPT ![r] = o]
  /\ Goes(r, IF o.route = "wallet" THEN "build" ELSE "read")
  /\ UNCHANGED <<beside, table, network>>

\* Mutant of Resolved: onchain/sendMina returns what it awaited.
ResolvedWithResult(o, result) == IF o.route = "wallet" THEN "keys" ELSE result

\* What a route makes of the result of its service.
Resolved(o, result) ==
  CASE o.route = "topup" -> result
    [] o.route = "onchain" -> "empty"
    [] o.route = "wallet" -> "keys"

\* amount <= 0, or isExistByWalletAddress finds nobody.
IsDeclined(o) == o.amount <= 0 \/ o.to \notin holders

ReadUser(r) ==
  /\ At(r, "read")
  /\ IF IsDeclined(order[r]) THEN Ends(r, "declined", Resolved(order[r], "false"))
                             ELSE Goes(r, "build")
  /\ UNCHANGED <<order, beside, table, network>>

\* Mutant of NextNonce: fetched once, when the process started.
NonceAtStart == 0

\* The nonce Mina.transaction fetches.
NextNonce == nonce

\* r has a transaction that is being proved and signed, or that the network holds.
UnderWay(r) == At(r, "send") \/ \E tx \in pool : tx.by = r

Build(r) ==
  /\ At(r, "build")
  /\ req' = [req EXCEPT ![r] = [at |-> "send", nonce |-> NextNonce]]
  /\ beside' = [beside EXCEPT ![r] = {q \in Requests \ {r} : UnderWay(q)}]
  /\ UNCHANGED <<order, table, network>>

Sent(r) == [by |-> r, nonce |-> req[r].nonce]

\* Mutant of Send: without an answer of the network, it is built once more.
SendUntilHeard(r) ==
  /\ At(r, "send")
  /\ pool' \in {pool, pool \cup {Sent(r)}}
  /\ Ends(r, "done", Resolved(order[r], "true")) \/ Goes(r, "build")
  /\ UNCHANGED <<order, beside, nonce, applied, table>>

\* prove, sign and send; whether the network took it, the answer is the same.
Send(r) ==
  /\ At(r, "send")
  /\ pool' \in {pool, pool \cup {Sent(r)}}
  /\ Ends(r, "done", Resolved(order[r], "true"))
  /\ UNCHANGED <<order, beside, nonce, applied, table>>

\* An awaited call rejects, or the address or the amount makes snarkyjs throw.
\* send() may have reached the network all the same.
Rejects(r) ==
  /\ req[r].at \in {"read", "build", "send"}
  /\ pool' \in IF At(r, "send") THEN {pool, pool \cup {Sent(r)}} ELSE {pool}
  /\ Goes(r, "rejected")
  /\ UNCHANGED <<order, beside, nonce, applied, table>>

\* Mutant of OnRejection: the controller of topup has no catch.
WithoutCatch(r) ==
  /\ At(r, "rejected") /\ order[r].route # "topup"
  /\ Ends(r, "failed", "500")
  /\ UNCHANGED <<order, beside, table, network>>

\* The controller of topup took the response over, so only its catch answers;
\* elsewhere the framework does.
OnRejection(r) ==
  /\ At(r, "rejected")
  /\ Ends(r, "failed", IF order[r].route = "topup" THEN "400" ELSE "500")
  /\ UNCHANGED <<order, beside, table, network>>

\* The process stops: what was under way is never answered.
Restart ==
  /\ req' = [r \in Requests |->
               IF req[r].at \in {"new"} \cup Ended THEN req[r] ELSE [at |-> "lost"]]
  /\ UNCHANGED <<order, beside, table, network>>

(* the network and the table ----------------------------------------------*)

Apply(tx) ==
  /\ tx \in pool /\ tx.nonce = nonce
  /\ pool' = pool \ {tx}
  /\ applied' = applied \cup {tx}
  /\ nonce' = nonce + 1
  /\ UNCHANGED <<order, beside, req, table>>

Drop(tx) ==
  /\ tx \in pool
  /\ pool' = pool \ {tx}
  /\ UNCHANGED <<order, beside, req, nonce, applied, table>>

\* A user with the wallet registers ...
Appears(w) ==
  /\ holders' = holders \cup {w}
  /\ known' = known \cup {w}
  /\ UNCHANGED <<order, beside, req, network>>

\* ... or the last one is deleted.
Disappears(w) ==
  /\ holders' = holders \ {w}
  /\ UNCHANGED <<order, beside, req, network, known>>

Advance(r) == ReadUser(r) \/ Build(r) \/ Send(r) \/ Rejects(r) \/ OnRejection(r)

Next ==
  \/ \E r \in Requests : Advance(r) \/ \E o \in Payment \cup Deployment : Receive(r, o)
  \/ \E tx \in pool : Apply(tx) \/ Drop(tx)
  \/ \E w \in Wallets : Appears(w) \/ Disappears(w)
  \/ Restart

Spec == Init /\ [][Next]_vars

\* Every await of a handler settles.  Nothing is assumed of the network.
FairSpec == Spec /\ \A r \in Requests : WF_vars(Advance(r))

-----------------------------------------------------------------------------
(* Properties *)

\* A request for a payment of a positive amount, to Transfers.
Pays(r) == order[r].route \in {"topup", "onchain"}
Moves(r) == IF Pays(r) THEN Cardinality({tx \in applied : tx.by = r}) ELSE 0

Promised == INSTANCE Transfers WITH
  Orders <- Requests,
  payee <- [r \in Requests |-> IF Pays(r) /\ order[r].amount > 0 THEN order[r].to ELSE "none"],
  fate <- [r \in Requests |-> IF At(r, "declined") THEN "declined" ELSE "open"],
  moved <- [r \in Requests |-> Moves(r)]

\* Overlapping requests, lost answers and restarts included, sendMina moves an
\* amount once or never, nothing after it declined, and nothing to a wallet that
\* no user ever had (onchain.service.ts:105-116).
ImplementsTransfers == Promised!Spec

\* win was applied at the nonce of tx, so that tx never is.
Beats(win, tx) == win.nonce = tx.nonce /\ win.by # tx.by

\* Nothing queues what the account signs, and every handler fetches the nonce
\* anew: two transactions that overlap may be built for one nonce, and then the
\* network applies one of them, whatever both requests were answered.  That is
\* the only way to lose one the network holds: it is applicable, or the one that
\* took its nonce was under way when it was built, or it when that one was
\* (onchain.service.ts:125-143, 227).
LossNeedsOverlap ==
  \A tx \in pool :
    \/ tx.nonce = nonce
    \/ \E win \in applied : Beats(win, tx)
         /\ (win.by \in beside[tx.by] \/ tx.by \in beside[win.by])

\* A wallet on the chain has the code of each moment from half a minute before the
\* request for it to a quarter of an hour after it, however long its transaction
\* took and whatever became of the request (onchain.service.ts:193-206).
DeployedWalletHasItsCodes ==
  \A tx \in applied : order[tx.by].route = "wallet" => order[tx.by].created \in Complete

\* Every request is answered unless the process stops: whatever sendMina does,
\* the controller that took the response over answers it
\* (topup.controller.ts:33-40).
EveryRequestIsAnswered ==
  \A r \in Requests : order[r] # NoOrder ~> req[r].at \in Ended \cup {"lost"}
=============================================================================
