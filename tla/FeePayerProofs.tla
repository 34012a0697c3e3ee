--------------------------- MODULE FeePayerProofs ---------------------------
(***************************************************************************)
(* Proofs about FeePayer, for all sets of requests, wallets, amounts and   *)
(* routes.  The invariant behind the refinement:                           *)
(*   Early      a request that is still new has no order;                  *)
(*   SentOnce   no request has two transactions, in the pool and on the    *)
(*              chain together, and none before it has sent;               *)
(*   Approved   a payment that is built, or has a transaction, is of a     *)
(*              positive amount and to a wallet that some user had.        *)
(* Behind LossNeedsOverlap, besides:                                       *)
(*   Counted    the chain has a transaction for every nonce below its own, *)
(*              and no transaction is ahead of it;                         *)
(*   Rivals     two transactions of one nonce overlapped.                  *)
(***************************************************************************)
EXTENDS FeePayer, FiniteSetTheorems, TLAPS

-----------------------------------------------------------------------------
(* Type correctness *)

LEMMA RouteKinds ==
  ASSUME NEW o \in Payment \cup Deployment
  PROVE  /\ o.route \in Routes /\ o.route \in {"topup", "onchain", "wallet"}
         /\ o.route # "wallet" => o \in Payment
         /\ o.route = "wallet" => o.created \in Moments
         /\ o # NoOrder
  <1>1. /\ o.route \in Routes /\ (o.route # "wallet" => o \in Payment)
        /\ (o.route = "wallet" => o.created \in Moments)
    BY DEF Payment, Deployment
  <1>2. o.route \in {"topup", "onchain", "wallet"}
    BY <1>1, RoutesAssumption
  <1>3. NoOrder.route = "none"
    BY DEF NoOrder
  <1> QED
    BY <1>1, <1>2, <1>3

LEMMA ResolvedFits ==
  ASSUME NEW o \in Payment \cup Deployment, NEW x \in {"true", "false"}
  PROVE  Resolved(o, x) \in AnswersOf[o.route]
  BY RouteKinds DEF Resolved, AnswersOf

\* What TypeOK says of one request.
Fits(q, o) ==
  /\ q \in Request
  /\ q.at \notin {"new", "lost"} => o.route \in Routes
  /\ q.at \in Ended => q.answer \in AnswersOf[o.route]

LEMMA OrderOfRequest ==
  ASSUME TypeOK, NEW r \in Requests, req[r].at \notin {"new", "lost"}
  PROVE  order[r] \in Payment \cup Deployment
  BY RoutesAssumption DEF TypeOK, NoOrder

LEMMA RequestsFit ==
  ASSUME TypeOK, NEW r \in Requests, NEW q, req' = [req EXCEPT ![r] = q],
         UNCHANGED order, Fits(q, order[r])
  PROVE  /\ req' \in [Requests -> Request]
         /\ \A p \in Requests : Fits(req'[p], order'[p])
  BY DEF TypeOK, Fits

LEMMA TypeParts ==
  TypeOK <=> /\ holders \subseteq known /\ known \subseteq Wallets
             /\ order \in [Requests -> Payment \cup Deployment \cup {NoOrder}]
             /\ req \in [Requests -> Request]
             /\ \A r \in Requests : Fits(req[r], order[r])
             /\ pool \subseteq Transaction /\ nonce \in Nat /\ applied \subseteq Transaction
             /\ beside \in [Requests -> SUBSET Requests]
  BY DEF TypeOK, Fits

LEMMA EndsFits ==
  ASSUME NEW o \in Payment \cup Deployment, NEW how \in Ended, NEW a \in AnswersOf[o.route]
  PROVE  Fits([at |-> how, answer |-> a], o)
  BY RouteKinds DEF Fits, Request, Ended

LEMMA GoesFits ==
  ASSUME NEW o \in Payment \cup Deployment, NEW label \in {"read", "build", "rejected"}
  PROVE  Fits([at |-> label], o)
  BY RouteKinds DEF Fits, Request, Ended

LEMMA SentIsTransaction ==
  ASSUME TypeOK, NEW r \in Requests, At(r, "send")
  PROVE  Sent(r) \in Transaction /\ req[r].nonce \in Nat
  <1>1. req[r] \in Request
    BY DEF TypeOK
  <1>2. req[r].nonce \in Nat
    BY <1>1 DEF At, Request, Ended
  <1> QED
    BY <1>2 DEF Sent, Transaction

LEMMA ReceiveKeepsTypeOK ==
  ASSUME TypeOK, NEW r \in Requests, NEW o \in Payment \cup Deployment, Receive(r, o)
  PROVE  TypeOK'
  <1> DEFINE label == IF o.route = "wallet" THEN "build" ELSE "read"
  <1>1. req' = [req EXCEPT ![r] = [at |-> label]] /\ order' = [order EXCEPT ![r] = o]
    BY DEF Receive, Goes
  <1>2. Fits([at |-> label], o)
    BY GoesFits
  <1> HIDE DEF label
  <1>3. /\ req' \in [Requests -> Request]
        /\ order' \in [Requests -> Payment \cup Deployment \cup {NoOrder}]
    BY <1>1, <1>2 DEF Fits, TypeOK
  <1>4. \A p \in Requests : Fits(req'[p], order'[p])
    BY <1>1, <1>2, TypeParts DEF TypeOK
  <1>5. UNCHANGED <<beside, table, network>>
    BY DEF Receive
  <1> QED
    BY <1>3, <1>4, <1>5, TypeParts DEF table, network, TypeOK, Fits

LEMMA AdvanceKeepsTypeOK ==
  ASSUME TypeOK, NEW r \in Requests, Advance(r)
  PROVE  TypeOK'
  <1>1. order[r] \in Payment \cup Deployment
    BY OrderOfRequest DEF Advance, ReadUser, Build, Send, Rejects, OnRejection, At
  <1>2. \E q : req' = [req EXCEPT ![r] = q] /\ Fits(q, order[r])
    <2>1. CASE ReadUser(r)
      BY <2>1, <1>1, EndsFits, GoesFits, ResolvedFits DEF ReadUser, Ends, Goes, Ended
    <2>2. CASE Build(r)
      <3>1. Fits([at |-> "send", nonce |-> NextNonce], order[r])
        BY <1>1, RouteKinds DEF Fits, Request, Ended, NextNonce, TypeOK
      <3> QED
        BY <2>2, <3>1 DEF Build
    <2>3. CASE Send(r)
      BY <2>3, <1>1, EndsFits, ResolvedFits DEF Send, Ends, Ended
    <2>4. CASE Rejects(r)
      BY <2>4, <1>1, GoesFits DEF Rejects, Goes
    <2>5. CASE OnRejection(r)
      <3>1. (IF order[r].route = "topup" THEN "400" ELSE "500") \in AnswersOf[order[r].route]
        BY <1>1, RouteKinds DEF AnswersOf
      <3> QED
        BY <2>5, <3>1, <1>1, EndsFits DEF OnRejection, Ends, Ended
    <2> QED
      BY <2>1, <2>2, <2>3, <2>4, <2>5 DEF Advance
  <1>3. UNCHANGED <<order, table, nonce, applied>>
    BY DEF Advance, ReadUser, Build, Send, Rejects, OnRejection, network
  <1>4. pool' \subseteq Transaction
    BY SentIsTransaction DEF Advance, ReadUser, Build, Send, Rejects, OnRejection, network, TypeOK
  <1>5. /\ req' \in [Requests -> Request]
        /\ \A p \in Requests : Fits(req'[p], order'[p])
    BY <1>2, <1>3, RequestsFit
  <1>6. beside' \in [Requests -> SUBSET Requests]
    <2>1. beside' = beside \/ beside' = [beside EXCEPT ![r] = {q \in Requests \ {r} : UnderWay(q)}]
      BY DEF Advance, ReadUser, Build, Send, Rejects, OnRejection
    <2> QED
      BY <2>1 DEF TypeOK
  <1> QED
    BY <1>3, <1>4, <1>5, <1>6, TypeParts DEF table, TypeOK, Fits

LEMMA RestartKeepsTypeOK ==
  ASSUME TypeOK, Restart
  PROVE  TypeOK'
  BY DEF TypeOK, Restart, table, network, Request, Ended

LEMMA OthersKeepTypeOK ==
  ASSUME TypeOK,
         \/ \E tx \in pool : Apply(tx) \/ Drop(tx)
         \/ \E w \in Wallets : Appears(w) \/ Disappears(w)
         \/ UNCHANGED vars
  PROVE  TypeOK'
  BY DEF TypeOK, Apply, Drop, Appears, Disappears, table, network, vars

LEMMA InitTypeOK == Init => TypeOK
  BY DEF Init, TypeOK, Request, Ended

LEMMA NextTypeOK == TypeOK /\ [Next]_vars => TypeOK'
  BY ReceiveKeepsTypeOK, AdvanceKeepsTypeOK, RestartKeepsTypeOK, OthersKeepTypeOK DEF Next

\* Every reachable state is well typed: each route answers only what it can
\* (topup.controller.ts:31-41, onchain.controller.ts:34-36, 58-60).
THEOREM TypeCorrect == Spec => []TypeOK
  BY InitTypeOK, NextTypeOK, PTL DEF Spec

-----------------------------------------------------------------------------
(* The codes of a wallet *)

\* The two halves of a minute have one code.
LEMMA HalfMinutes ==
  ASSUME NEW m \in Nat
  PROVE  (30 * (m \div 30)) \div 60 = m \div 60
  OBVIOUS

\* A leaf stands for the half minute its number says, from the one before the
\* creation on.
LEMMA LeafTimes ==
  ASSUME NEW created \in Nat, NEW i \in Leaves
  PROVE  LeafTime(created, i) = 30 * (created \div 30 - 1 + i)
  BY DEF LeafTime, StartTime, Step, Leaves

\* The tree of one-time passwords has exactly one leaf for each moment, with the
\* code shown then, whenever the wallet is created (onchain.service.ts:193-206).
THEOREM CodesAreComplete == Complete = Moments
  <1> SUFFICES ASSUME NEW created \in Moments, NEW now \in UsedAt(created)
               PROVE  HasItsCode(created, now)
    BY DEF Complete
  <1>1. /\ created \in Nat /\ created >= 60
        /\ now \in created - 30 .. created + 900
    BY MomentsAssumption, WatchedAssumption DEF UsedAt, Step
  <1> DEFINE k == now \div 30 - (created \div 30 - 1)
  <1>2. k \in Leaves /\ now \in Nat
    BY <1>1 DEF Leaves
  <1>3. LeafTime(created, k) = 30 * (now \div 30)
    <2>1. LeafTime(created, k) = 30 * (created \div 30 - 1 + k)
      <3> HIDE DEF k
      <3> QED
        BY <1>1, <1>2, LeafTimes
    <2> QED
      BY <1>1, <1>2, <2>1
  <1>4. Covers(Otp(created, k), now)
    BY <1>2, <1>3 DEF Covers, Otp, Step
  <1>5. Otp(created, k).code = Code(now)
    BY <1>2, <1>3, HalfMinutes DEF Otp, Code, Period
  <1>6. \A j \in Leaves : Covers(Otp(created, j), now) => j = k
    <2> SUFFICES ASSUME NEW j \in Leaves, Covers(Otp(created, j), now) PROVE j = k
      OBVIOUS
    <2>1. LeafTime(created, j) = 30 * (created \div 30 - 1 + j)
      BY <1>1, LeafTimes
    <2>2. LeafTime(created, j) <= now /\ now < LeafTime(created, j) + 30
      BY DEF Covers, Otp, Step
    <2> QED
      BY <1>1, <1>2, <2>1, <2>2 DEF Leaves
  <1> HIDE DEF k
  <1> QED
    BY <1>2, <1>4, <1>5, <1>6 DEF HasItsCode

LEMMA DeployedWalletHasCodes == TypeOK => DeployedWalletHasItsCodes
  <1> SUFFICES ASSUME TypeOK, NEW tx \in applied, order[tx.by].route = "wallet"
               PROVE  order[tx.by].created \in Complete
    BY DEF DeployedWalletHasItsCodes
  <1>1. tx.by \in Requests
    BY DEF TypeOK, Transaction
  <1>2. order[tx.by] \in Payment \cup Deployment
    BY <1>1 DEF TypeOK, NoOrder
  <1> QED
    BY <1>2, RouteKinds, CodesAreComplete

\* Every wallet that reaches the chain has the code of every moment around and
\* after its creation (onchain.service.ts:193-206, 227).
THEOREM DeployedWalletsHaveTheirCodes == Spec => []DeployedWalletHasItsCodes
  BY TypeCorrect, DeployedWalletHasCodes, PTL

-----------------------------------------------------------------------------
(* The refinement: the invariant *)

\* r has a transaction on its way or on the chain.
HasSent(r) == \E tx \in pool \cup applied : tx.by = r

Unsent == {"new", "read", "build", "send", "declined"}

Early == \A r \in Requests : At(r, "new") => order[r] = NoOrder

SentOnce ==
  /\ pool \cap applied = {}
  /\ \A a, b \in pool \cup applied : a.by = b.by => a = b
  /\ \A r \in Requests : req[r].at \in Unsent => ~HasSent(r)

Deserves(r) == Pays(r) => order[r].amount > 0 /\ order[r].to \in known

Approved ==
  \A r \in Requests : req[r].at \in {"build", "send"} \/ HasSent(r) => Deserves(r)

Inv == TypeOK /\ Early /\ SentOnce /\ Approved

LEMMA InitInv == Init => Inv
  BY InitTypeOK DEF Init, Inv, Early, SentOnce, Approved, HasSent, At

LEMMA ReceiveKeepsInv ==
  ASSUME Inv, NEW r \in Requests, NEW o \in Payment \cup Deployment, Receive(r, o)
  PROVE  Early' /\ SentOnce' /\ Approved'
  <1> DEFINE label == IF o.route = "wallet" THEN "build" ELSE "read"
  <1>1. /\ req' = [req EXCEPT ![r] = [at |-> label]] /\ order' = [order EXCEPT ![r] = o]
        /\ At(r, "new") /\ UNCHANGED <<pool, nonce, applied, holders, known>>
    BY DEF Receive, Goes, network, table
  <1>2. \A p \in Requests \ {r} : req'[p] = req[p] /\ order'[p] = order[p]
    BY <1>1 DEF Inv, TypeOK
  <1>3. req'[r].at = label /\ order'[r] = o
    BY <1>1 DEF Inv, TypeOK
  <1>4. label \in {"read", "build"} /\ (label = "build" => o.route = "wallet")
    OBVIOUS
  <1> HIDE DEF label
  <1>5. Early'
    BY <1>2, <1>3, <1>4 DEF Early, At, Inv
  <1>6. ~HasSent(r)
    BY <1>1 DEF Inv, SentOnce, At, Unsent
  <1>7. \A p \in Requests : HasSent(p)' <=> HasSent(p)
    BY <1>1 DEF HasSent
  <1>8. SentOnce'
    BY <1>1, <1>2, <1>6, <1>7 DEF Inv, SentOnce
  <1>9. Approved'
    BY <1>1, <1>2, <1>3, <1>4, <1>6, <1>7 DEF Inv, Approved, Deserves, Pays
  <1> QED
    BY <1>5, <1>8, <1>9

LEMMA AdvanceKeepsInv ==
  ASSUME Inv, NEW r \in Requests, Advance(r)
  PROVE  Early' /\ SentOnce' /\ Approved'
  <1>1. UNCHANGED <<order, nonce, applied, holders, known>>
    BY DEF Advance, ReadUser, Build, Send, Rejects, OnRejection, network, table
  <1>2. \A p \in Requests \ {r} : req'[p] = req[p]
    BY DEF Advance, ReadUser, Build, Send, Rejects, OnRejection, Goes, Ends, Inv, TypeOK
  <1>3. req[r].at # "new" /\ req'[r].at # "new"
    BY DEF Advance, ReadUser, Build, Send, Rejects, OnRejection, Goes, Ends, At, Inv, TypeOK
  <1>4. Early'
    BY <1>1, <1>2, <1>3 DEF Early, At, Inv
  <1>5. \/ pool' = pool
        \/ /\ pool' = pool \cup {Sent(r)} /\ req[r].at = "send"
           /\ req'[r].at \in {"done", "rejected"}
    BY DEF Advance, ReadUser, Build, Send, Rejects, OnRejection, Goes, Ends, At, Inv, TypeOK,
           network
  <1>6. \/ req'[r].at \notin Unsent
        \/ req[r].at \in Unsent /\ pool' = pool
    BY DEF Advance, ReadUser, Build, Send, Rejects, OnRejection, Goes, Ends, At, Inv, TypeOK,
           network, Unsent
  <1>7. SentOnce'
    <2>1. CASE pool' = pool
      BY <1>1, <1>2, <1>6, <2>1 DEF Inv, SentOnce, HasSent
    <2>2. CASE pool' = pool \cup {Sent(r)} /\ req[r].at = "send"
                 /\ req'[r].at \in {"done", "rejected"}
      <3>1. ~HasSent(r) /\ Sent(r).by = r
        BY <2>2 DEF Inv, SentOnce, Unsent, Sent
      <3>2. pool' \cap applied' = {}
        BY <1>1, <2>2, <3>1 DEF Inv, SentOnce, HasSent
      <3>3. \A a, b \in pool' \cup applied' : a.by = b.by => a = b
        BY <1>1, <2>2, <3>1 DEF Inv, SentOnce, HasSent
      <3>4. \A p \in Requests \ {r} : HasSent(p)' => HasSent(p)
        BY <1>1, <2>2, <3>1 DEF HasSent
      <3>5. \A p \in Requests : req'[p].at \in Unsent => ~HasSent(p)'
        BY <1>2, <2>2, <3>4 DEF Inv, SentOnce, Unsent
      <3> QED
        BY <3>2, <3>3, <3>5 DEF SentOnce
    <2> QED
      BY <1>5, <2>1, <2>2
  <1>8. Approved'
    <2>1. \A p \in Requests : Deserves(p)' <=> Deserves(p)
      BY <1>1 DEF Deserves, Pays
    <2>2. \A p \in Requests \ {r} : HasSent(p)' => HasSent(p)
      BY <1>1, <1>5 DEF HasSent, Sent
    <2>3. req'[r].at \in {"build", "send"} \/ HasSent(r)' => Deserves(r)
      <3>1. CASE ReadUser(r) /\ req'[r].at = "build"
        <4>1. ~IsDeclined(order[r]) /\ req[r].at = "read"
          BY <3>1 DEF ReadUser, Ends, Inv, TypeOK, At
        <4>2. order[r] \in Payment \cup Deployment
          BY <4>1, OrderOfRequest DEF Inv
        <4>3. Pays(r) => order[r].amount \in Int
          BY <4>2, RouteKinds, AmountsAssumption DEF Payment, Pays
        <4>4. Pays(r) => order[r].amount > 0 /\ order[r].to \in known
          BY <4>1, <4>3 DEF IsDeclined, Inv, TypeOK
        <4> QED
          BY <4>4 DEF Deserves
      <3>2. CASE ReadUser(r) /\ req'[r].at # "build"
        BY <3>2 DEF ReadUser, Ends, Goes, Inv, TypeOK, At, SentOnce, HasSent, Unsent, network
      <3>3. CASE Build(r) \/ Send(r)
        BY <3>3 DEF Build, Send, At, Inv, Approved
      <3>4. CASE Rejects(r)
        <4>1. CASE req[r].at = "send"
          BY <4>1 DEF Inv, Approved
        <4>2. CASE req[r].at # "send"
          <5>1. pool' = pool /\ req'[r].at = "rejected"
            BY <3>4, <4>2 DEF Rejects, At, Goes, Inv, TypeOK
          <5> QED
            BY <1>1, <5>1 DEF Inv, Approved, HasSent
        <4> QED
          BY <4>1, <4>2
      <3>5. CASE OnRejection(r)
        BY <3>5 DEF OnRejection, Ends, Inv, TypeOK, Approved, HasSent, network
      <3> QED
        BY <3>1, <3>2, <3>3, <3>4, <3>5 DEF Advance
    <2> QED
      BY <1>2, <2>1, <2>2, <2>3 DEF Inv, Approved
  <1> QED
    BY <1>4, <1>7, <1>8

LEMMA OthersKeepInv ==
  ASSUME Inv,
         \/ Restart
         \/ \E tx \in pool : Apply(tx) \/ Drop(tx)
         \/ \E w \in Wallets : Appears(w) \/ Disappears(w)
         \/ UNCHANGED vars
  PROVE  Early' /\ SentOnce' /\ Approved'
  <1>1. UNCHANGED order /\ known \subseteq known'
    BY DEF Restart, Apply, Drop, Appears, Disappears, vars, table
  <1>2. /\ pool' \cup applied' \subseteq pool \cup applied
        /\ pool' \cap applied' = {}
    BY DEF Restart, Apply, Drop, Appears, Disappears, vars, network, Inv, SentOnce
  <1>3. \A r \in Requests : req'[r].at = req[r].at \/ req'[r].at = "lost"
    BY DEF Restart, Apply, Drop, Appears, Disappears, vars
  <1>4. \A r \in Requests : HasSent(r)' => HasSent(r)
    BY <1>2 DEF HasSent
  <1>5. Early'
    BY <1>1, <1>3 DEF Inv, Early, At
  <1>6. SentOnce'
    BY <1>2, <1>3, <1>4 DEF Inv, SentOnce, Unsent
  <1>7. \A r \in Requests : Deserves(r) => Deserves(r)'
    BY <1>1 DEF Deserves, Pays
  <1>8. Approved'
    BY <1>3, <1>4, <1>7 DEF Inv, Approved
  <1> QED
    BY <1>5, <1>6, <1>8

LEMMA NextInv == Inv /\ [Next]_vars => Inv'
  BY NextTypeOK, ReceiveKeepsInv, AdvanceKeepsInv, OthersKeepInv DEF Next, Inv

-----------------------------------------------------------------------------
(* Losses *)

\* r has a transaction, built, held by the network or applied, of nonce n.
Holds(r, n) ==
  \/ At(r, "send") /\ req[r].nonce = n
  \/ \E tx \in pool \cup applied : tx.by = r /\ tx.nonce = n

Beside(p, q) == p \in beside[q] \/ q \in beside[p]

\* The nonces on the chain are those below its nonce, and nothing is ahead of it.
Counted ==
  /\ \A n \in Nat : n < nonce => \E tx \in applied : tx.nonce = n
  /\ \A tx \in applied : tx.nonce < nonce
  /\ \A tx \in pool : tx.nonce <= nonce
  /\ \A r \in Requests : At(r, "send") => req[r].nonce <= nonce

\* Two transactions of one nonce are of requests that overlapped.
Rivals ==
  \A p, q \in Requests, n \in Nat : p # q /\ Holds(p, n) /\ Holds(q, n) => Beside(p, q)

LossInv == Inv /\ Counted /\ Rivals

LEMMA LossesExplained == LossInv => LossNeedsOverlap
  <1> SUFFICES ASSUME LossInv, NEW tx \in pool, tx.nonce # nonce
               PROVE  \E win \in applied : Beats(win, tx)
                        /\ (win.by \in beside[tx.by] \/ tx.by \in beside[win.by])
    BY DEF LossNeedsOverlap
  <1>1. /\ tx.nonce \in Nat /\ nonce \in Nat /\ tx.by \in Requests /\ tx.nonce < nonce
        /\ applied \subseteq Transaction
    <2>1. nonce \in Nat /\ pool \subseteq Transaction /\ applied \subseteq Transaction
      BY DEF LossInv, Inv, TypeOK
    <2>2. tx.nonce <= nonce
      BY DEF LossInv, Counted
    <2> QED
      BY <2>1, <2>2 DEF Transaction
  <1>2. PICK win \in applied : win.nonce = tx.nonce
    BY <1>1 DEF LossInv, Counted
  <1>3. win.by \in Requests /\ win.by # tx.by
    BY <1>1, <1>2 DEF LossInv, Inv, SentOnce, Transaction
  <1>4. Holds(win.by, tx.nonce) /\ Holds(tx.by, tx.nonce)
    BY <1>2 DEF Holds
  <1> QED
    BY <1>1, <1>2, <1>3, <1>4 DEF LossInv, Rivals, Beside, Beats

\* Nothing new is held, or overlaps are forgotten by nobody.
LEMMA RivalsKept ==
  ASSUME Rivals, UNCHANGED beside,
         \A p \in Requests, n \in Nat : Holds(p, n)' => Holds(p, n)
  PROVE  Rivals'
  BY DEF Rivals, Beside

LEMMA BuildKeepsLossInv ==
  ASSUME LossInv, NEW r \in Requests, Build(r)
  PROVE  Counted' /\ Rivals'
  <1>1. /\ UNCHANGED <<pool, nonce, applied>> /\ nonce \in Nat /\ ~HasSent(r)
        /\ req'[r] = [at |-> "send", nonce |-> nonce]
        /\ \A p \in Requests \ {r} : req'[p] = req[p] /\ beside'[p] = beside[p]
        /\ beside'[r] = {q \in Requests \ {r} : UnderWay(q)}
        /\ beside \in [Requests -> SUBSET Requests]
    BY DEF Build, network, At, NextNonce, LossInv, Inv, TypeOK, SentOnce, Unsent
  <1>2. Counted'
    BY <1>1 DEF LossInv, Counted, At
  <1>3. \A p \in Requests \ {r}, n \in Nat : Holds(p, n)' <=> Holds(p, n)
    BY <1>1 DEF Holds, At
  <1>4. \A n \in Nat : Holds(r, n)' => n = nonce
    BY <1>1 DEF Holds, HasSent, At
  <1>5. \A p \in Requests \ {r} : Holds(p, nonce) => UnderWay(p)
    BY <1>1 DEF Holds, UnderWay, LossInv, Counted
  <1>6. \A p \in Requests \ {r} : Holds(p, nonce) => Beside(p, r)' /\ Beside(r, p)'
    BY <1>1, <1>5 DEF Beside
  <1>7. \A p, q \in Requests \ {r} : Beside(p, q)' <=> Beside(p, q)
    BY <1>1 DEF Beside
  <1>8. ASSUME NEW p \in Requests, NEW q \in Requests, NEW n \in Nat, p # q,
               Holds(p, n)', Holds(q, n)'
        PROVE  Beside(p, q)'
    <2>1. CASE p = r
      BY <1>3, <1>4, <1>6, <1>8, <2>1
    <2>2. CASE q = r
      BY <1>3, <1>4, <1>6, <1>8, <2>2
    <2>3. CASE p # r /\ q # r
      BY <1>3, <1>7, <1>8, <2>3 DEF LossInv, Rivals
    <2> QED
      BY <2>1, <2>2, <2>3
  <1> QED
    BY <1>2, <1>8 DEF Rivals

LEMMA SendKeepsLossInv ==
  ASSUME LossInv, NEW r \in Requests, Send(r) \/ Rejects(r)
  PROVE  Counted' /\ Rivals'
  <1>1. /\ UNCHANGED <<nonce, applied, beside>>
        /\ \/ pool' = pool
           \/ req[r].at = "send" /\ pool' = pool \cup {Sent(r)}
    <2>1. CASE Send(r)
      BY <2>1 DEF Send, At
    <2>2. CASE Rejects(r)
      BY <2>2 DEF Rejects, At
    <2> QED
      BY <2>1, <2>2
  <1>2. \A p \in Requests \ {r} : req'[p] = req[p]
    BY DEF Send, Rejects, Goes, Ends, LossInv, Inv, TypeOK
  <1>3. req'[r].at # "send"
    BY DEF Send, Rejects, Goes, Ends, LossInv, Inv, TypeOK
  <1>4. \A tx \in pool' : tx \in pool \/ (tx = Sent(r) /\ req[r].at = "send")
    BY <1>1
  <1>5. \A p \in Requests, n \in Nat : Holds(p, n)' => Holds(p, n)
    BY <1>1, <1>2, <1>3, <1>4 DEF Holds, Sent, At
  <1>6. Counted'
    <2>1. \A tx \in pool' : tx.nonce <= nonce
      BY <1>4 DEF LossInv, Counted, Sent, At
    <2> QED
      BY <1>1, <1>2, <1>3, <2>1 DEF LossInv, Counted, At
  <1> QED
    BY <1>1, <1>5, <1>6, RivalsKept DEF LossInv

LEMMA ApplyKeepsLossInv ==
  ASSUME LossInv, NEW tx \in pool, Apply(tx)
  PROVE  Counted' /\ Rivals'
  <1>1. /\ tx.nonce = nonce /\ nonce' = nonce + 1 /\ nonce \in Nat
        /\ applied' = applied \cup {tx} /\ pool' \subseteq pool /\ UNCHANGED <<req, beside>>
        /\ \A x \in pool \cup applied : x.nonce \in Nat
        /\ \A r \in Requests : At(r, "send") => req[r].nonce \in Nat
    BY SentIsTransaction DEF Apply, LossInv, Inv, TypeOK, Transaction
  <1>2. \A p \in Requests, n \in Nat : Holds(p, n)' => Holds(p, n)
    BY <1>1 DEF Holds, At
  <1>3. Counted'
    <2>1. \A n \in Nat : n < nonce' => \E x \in applied' : x.nonce = n
      <3> SUFFICES ASSUME NEW n \in Nat, n < nonce' PROVE \E x \in applied' : x.nonce = n
        OBVIOUS
      <3>1. n < nonce \/ n = nonce
        BY <1>1
      <3> QED
        BY <1>1, <3>1 DEF LossInv, Counted
    <2>2. \A x \in applied' : x.nonce < nonce'
      BY <1>1 DEF LossInv, Counted
    <2>3. \A x \in pool' : x.nonce <= nonce'
      BY <1>1 DEF LossInv, Counted
    <2>4. \A r \in Requests : At(r, "send")' => req'[r].nonce <= nonce'
      BY <1>1 DEF LossInv, Counted, At
    <2> QED
      BY <2>1, <2>2, <2>3, <2>4 DEF Counted
  <1> QED
    BY <1>1, <1>2, <1>3, RivalsKept DEF LossInv

LEMMA OthersKeepLossInv ==
  ASSUME LossInv,
         \/ \E r \in Requests : ReadUser(r) \/ OnRejection(r)
         \/ \E r \in Requests, o \in Payment \cup Deployment : Receive(r, o)
         \/ \E tx \in pool : Drop(tx)
         \/ \E w \in Wallets : Appears(w) \/ Disappears(w)
         \/ Restart
         \/ UNCHANGED vars
  PROVE  Counted' /\ Rivals'
  <1>1. UNCHANGED <<nonce, applied, beside>> /\ pool' \subseteq pool
    BY DEF ReadUser, OnRejection, Receive, Drop, Appears, Disappears, Restart, vars, network
  <1>2. \A p \in Requests : At(p, "send")' => req'[p] = req[p]
    BY DEF ReadUser, OnRejection, Receive, Drop, Appears, Disappears, Restart, vars, At, Goes,
           Ends, LossInv, Inv, TypeOK, Ended
  <1>3. \A p \in Requests, n \in Nat : Holds(p, n)' => Holds(p, n)
    BY <1>1, <1>2 DEF Holds, At
  <1>4. Counted'
    BY <1>1, <1>2 DEF LossInv, Counted, At
  <1> QED
    BY <1>1, <1>3, <1>4, RivalsKept DEF LossInv

\* A transaction the network holds and can no longer apply was beaten to its nonce
\* by one it overlapped with, for any number of requests: what was built while no
\* other transaction was under way, and had none built beside it, is not lost that
\* way (onchain.service.ts:125-143, 227).
THEOREM LossesNeedOverlap == Spec => []LossNeedsOverlap
  <1>1. Init => LossInv
    BY InitInv DEF Init, LossInv, Counted, Rivals, Holds, At
  <1>2. LossInv /\ [Next]_vars => LossInv'
    BY NextInv, BuildKeepsLossInv, SendKeepsLossInv, ApplyKeepsLossInv, OthersKeepLossInv
    DEF Next, Advance, LossInv
  <1> QED
    BY <1>1, <1>2, LossesExplained, PTL DEF Spec

-----------------------------------------------------------------------------
(* The refinement: the steps *)

PayeeOf(r) == IF Pays(r) /\ order[r].amount > 0 THEN order[r].to ELSE "none"
FateOf(r) == IF At(r, "declined") THEN "declined" ELSE "open"
payees == [r \in Requests |-> PayeeOf(r)]
fates == [r \in Requests |-> FateOf(r)]
moves == [r \in Requests |-> Moves(r)]

\* The names above are what the INSTANCE substitutes.
LEMMA MapInit ==
  ASSUME payees = [r \in Requests |-> "none"], known \in SUBSET Wallets,
         fates = [r \in Requests |-> "open"], moves = [r \in Requests |-> 0]
  PROVE  Promised!Init
  BY DEF Promised!Init, payees, fates, moves, PayeeOf, FateOf

LEMMA MapAsk ==
  ASSUME NEW r \in Requests, NEW w \in Wallets, payees[r] = "none", fates[r] = "open",
         payees' = [payees EXCEPT ![r] = w], UNCHANGED <<known, fates, moves>>
  PROVE  Promised!Next
  BY DEF Promised!Next, Promised!Ask, payees, fates, moves, PayeeOf, FateOf

LEMMA MapKnow ==
  ASSUME NEW w \in Wallets, known' = known \cup {w}, UNCHANGED <<payees, fates, moves>>
  PROVE  Promised!Next
  BY DEF Promised!Next, Promised!Know, payees, fates, moves, PayeeOf, FateOf

LEMMA MapDecline ==
  ASSUME NEW r \in Requests, moves[r] = 0, fates' = [fates EXCEPT ![r] = "declined"],
         UNCHANGED <<payees, known, moves>>
  PROVE  Promised!Next
  BY DEF Promised!Next, Promised!Decline, payees, fates, moves, PayeeOf, FateOf

LEMMA MapMove ==
  ASSUME NEW r \in Requests, payees[r] \in known, fates[r] = "open", moves[r] = 0,
         moves' = [moves EXCEPT ![r] = 1], UNCHANGED <<payees, known, fates>>
  PROVE  Promised!Next
  BY DEF Promised!Next, Promised!Move, payees, fates, moves, PayeeOf, FateOf

LEMMA MapVars ==
  /\ Promised!vars = <<payees, known, fates, moves>>
  /\ (Promised!vars)' = <<payees, known, fates, moves>>'
  BY DEF Promised!vars, payees, fates, moves, PayeeOf, FateOf

\* A request that has not sent moved nothing.
LEMMA NothingMoved ==
  ASSUME NEW r \in Requests, ~HasSent(r)
  PROVE  Moves(r) = 0
  <1>1. {tx \in applied : tx.by = r} = {}
    BY DEF HasSent
  <1> QED
    BY <1>1, FS_EmptySet DEF Moves

LEMMA SameMoves ==
  ASSUME UNCHANGED <<order, applied>>
  PROVE  UNCHANGED moves
  BY DEF moves, Moves, Pays

LEMMA SamePayees ==
  ASSUME UNCHANGED order
  PROVE  UNCHANGED payees
  BY DEF payees, PayeeOf, Pays

TransferStep == Promised!Next \/ UNCHANGED <<payees, known, fates, moves>>

LEMMA ReceiveMaps ==
  ASSUME Inv, NEW r \in Requests, NEW o \in Payment \cup Deployment, Receive(r, o)
  PROVE  TransferStep
  <1>1. /\ order' = [order EXCEPT ![r] = o] /\ req[r].at = "new"
        /\ UNCHANGED <<pool, nonce, applied, holders, known>>
        /\ \E label \in {"read", "build"} : req' = [req EXCEPT ![r] = [at |-> label]]
    BY DEF Receive, Goes, network, table, At
  <1>2. \A p \in Requests \ {r} : order'[p] = order[p] /\ req'[p] = req[p]
    BY <1>1 DEF Inv, TypeOK
  <1>3. order'[r] = o /\ req'[r].at \in {"read", "build"}
    BY <1>1 DEF Inv, TypeOK
  <1>4. order[r] = NoOrder /\ ~HasSent(r)
    BY <1>1 DEF Inv, Early, At, SentOnce, Unsent
  <1>5. UNCHANGED fates
    BY <1>1, <1>2, <1>3 DEF fates, FateOf, At
  <1>6. UNCHANGED moves
    <2>1. \A p \in Requests \ {r} : Moves(p)' = Moves(p)
      BY <1>1, <1>2 DEF Moves, Pays
    <2>2. Moves(r) = 0
      BY <1>4, NothingMoved
    <2>3. Moves(r)' = 0
      <3>1. {tx \in applied' : tx.by = r} = {}
        BY <1>1, <1>4 DEF HasSent
      <3> QED
        BY <3>1, FS_EmptySet DEF Moves
    <2> QED
      BY <2>1, <2>2, <2>3 DEF moves
  <1>7. PayeeOf(r) = "none" /\ FateOf(r) = "open"
    BY <1>1, <1>4 DEF PayeeOf, Pays, NoOrder, FateOf, At
  <1>8. \A p \in Requests \ {r} : PayeeOf(p)' = PayeeOf(p)
    BY <1>2 DEF PayeeOf, Pays
  <1>9. PayeeOf(r)' \in Wallets \cup {"none"}
    <2>1. Pays(r)' => o.to \in Wallets
      BY <1>3, RouteKinds DEF Pays, Payment
    <2> QED
      BY <1>3, <2>1 DEF PayeeOf
  <1>10. payees' = [payees EXCEPT ![r] = PayeeOf(r)']
    BY <1>8 DEF payees
  <1>11. CASE PayeeOf(r)' = "none"
    <2>1. UNCHANGED payees
      BY <1>7, <1>10, <1>11 DEF payees
    <2> QED
      BY <1>1, <1>5, <1>6, <2>1 DEF TransferStep
  <1>12. CASE PayeeOf(r)' # "none"
    <2>1. PICK w \in Wallets : w = PayeeOf(r)'
      BY <1>9, <1>12
    <2>2. payees[r] = "none" /\ fates[r] = "open" /\ payees' = [payees EXCEPT ![r] = w]
      BY <1>7, <1>10, <2>1 DEF payees, fates
    <2> QED
      BY <1>1, <1>5, <1>6, <2>2, MapAsk DEF TransferStep
  <1> QED
    BY <1>11, <1>12

LEMMA AdvanceMaps ==
  ASSUME Inv, NEW r \in Requests, Advance(r)
  PROVE  TransferStep
  <1>1. UNCHANGED <<order, nonce, applied, holders, known>>
    BY DEF Advance, ReadUser, Build, Send, Rejects, OnRejection, network, table
  <1>2. UNCHANGED <<payees, moves>>
    BY <1>1, SameMoves, SamePayees
  <1>3. \A p \in Requests \ {r} : FateOf(p)' = FateOf(p)
    BY DEF Advance, ReadUser, Build, Send, Rejects, OnRejection, Goes, Ends, Inv, TypeOK,
           FateOf, At
  <1>4. CASE ReadUser(r) /\ req'[r].at = "declined"
    <2>1. fates' = [fates EXCEPT ![r] = "declined"]
      BY <1>3, <1>4 DEF fates, FateOf, At
    <2>2. moves[r] = 0
      BY <1>4, NothingMoved DEF ReadUser, At, Inv, SentOnce, Unsent, moves
    <2> QED
      BY <1>1, <1>2, <2>1, <2>2, MapDecline DEF TransferStep
  <1>5. CASE ~(ReadUser(r) /\ req'[r].at = "declined")
    <2>1. req[r].at # "declined" /\ req'[r].at # "declined"
      BY <1>5 DEF Advance, ReadUser, Build, Send, Rejects, OnRejection, Goes, Ends, Inv,
                  TypeOK, At
    <2>2. UNCHANGED fates
      BY <1>3, <2>1 DEF fates, FateOf, At
    <2> QED
      BY <1>1, <1>2, <2>2 DEF TransferStep
  <1> QED
    BY <1>4, <1>5

LEMMA ApplyMaps ==
  ASSUME Inv, NEW tx \in pool, Apply(tx)
  PROVE  TransferStep
  <1>1. /\ applied' = applied \cup {tx} /\ UNCHANGED <<order, req, holders, known>>
    BY DEF Apply, table
  <1>2. UNCHANGED <<payees, fates>>
    BY <1>1, SamePayees DEF fates, FateOf, At
  <1>3. PICK r \in Requests : r = tx.by
    BY DEF Inv, TypeOK, Transaction
  <1>4. \A p \in Requests \ {r} : Moves(p)' = Moves(p)
    <2>1. ASSUME NEW p \in Requests \ {r}
          PROVE  {x \in applied' : x.by = p} = {x \in applied : x.by = p}
      BY <1>1, <1>3
    <2> QED
      BY <1>1, <2>1 DEF Moves, Pays
  <1>5. HasSent(r) /\ req[r].at \notin Unsent
    BY <1>3 DEF HasSent, Inv, SentOnce
  <1>6. {x \in applied : x.by = r} = {}
    BY <1>3 DEF Inv, SentOnce
  <1>7. {x \in applied' : x.by = r} = {tx}
    BY <1>1, <1>3, <1>6
  <1>8. CASE Pays(r)
    <2>1. Moves(r) = 0 /\ Moves(r)' = 1
      <3>1. Cardinality({x \in applied : x.by = r}) = 0
        BY <1>6, FS_EmptySet
      <3>2. Cardinality({x \in applied' : x.by = r}) = 1
        BY <1>7, FS_Singleton
      <3> QED
        BY <1>1, <1>8, <3>1, <3>2 DEF Moves, Pays
    <2>2. moves[r] = 0 /\ moves' = [moves EXCEPT ![r] = 1]
      BY <1>4, <2>1 DEF moves
    <2>3. payees[r] \in known /\ fates[r] = "open"
      BY <1>5, <1>8 DEF Inv, Approved, Deserves, payees, PayeeOf, fates, FateOf, At, Unsent
    <2> QED
      BY <1>1, <1>2, <2>2, <2>3, MapMove DEF TransferStep
  <1>9. CASE ~Pays(r)
    <2>1. Moves(r)' = Moves(r)
      BY <1>1, <1>9 DEF Moves, Pays
    <2>2. UNCHANGED moves
      BY <1>4, <2>1 DEF moves
    <2> QED
      BY <1>1, <1>2, <2>2 DEF TransferStep
  <1> QED
    BY <1>8, <1>9

LEMMA OthersMap ==
  ASSUME Inv,
         \/ Restart
         \/ \E tx \in pool : Drop(tx)
         \/ \E w \in Wallets : Appears(w) \/ Disappears(w)
         \/ UNCHANGED vars
  PROVE  TransferStep
  <1>1. UNCHANGED <<order, applied>>
    BY DEF Restart, Drop, Appears, Disappears, vars, network
  <1>2. UNCHANGED <<payees, moves>>
    BY <1>1, SameMoves, SamePayees
  <1>3. \A r \in Requests : req'[r].at = "declined" <=> req[r].at = "declined"
    BY DEF Restart, Drop, Appears, Disappears, vars, Ended
  <1>4. UNCHANGED fates
    BY <1>3 DEF fates, FateOf, At
  <1>5. UNCHANGED known \/ \E w \in Wallets : known' = known \cup {w}
    BY DEF Restart, Drop, Appears, Disappears, vars, table
  <1> QED
    BY <1>2, <1>4, <1>5, MapKnow DEF TransferStep

\* sendMina keeps the promises of Transfers: overlaps, lost answers, refusals and
\* restarts never move an amount twice, after it was declined, or to a wallet
\* nobody had (onchain.service.ts:105-116, 143).
THEOREM TransfersImplemented == Spec => ImplementsTransfers
  <1>1. Init => Inv /\ Promised!Init
    <2> SUFFICES ASSUME Init PROVE Promised!Init
      BY InitInv
    <2>1. \A r \in Requests : Moves(r) = 0
      BY NothingMoved DEF Init, HasSent
    <2>2. /\ payees = [r \in Requests |-> "none"] /\ moves = [r \in Requests |-> 0]
          /\ fates = [r \in Requests |-> "open"] /\ known \in SUBSET Wallets
      BY <2>1 DEF Init, payees, PayeeOf, Pays, NoOrder, moves, fates, FateOf, At
    <2> QED
      BY <2>2, MapInit
  <1>2. Inv /\ [Next]_vars => [Promised!Next]_(Promised!vars)
    <2> SUFFICES ASSUME Inv, [Next]_vars PROVE TransferStep
      BY MapVars DEF TransferStep
    <2> QED
      BY ReceiveMaps, AdvanceMaps, ApplyMaps, OthersMap DEF Next
  <1> QED
    BY <1>1, <1>2, NextInv, PTL DEF Spec, ImplementsTransfers, Promised!Spec

-----------------------------------------------------------------------------
(* What follows for a payment *)

\* A request to topup or onchain/sendMina has one transaction on the chain or
\* none, and none unless its amount is positive, some user had the wallet by then
\* and it was not declined, however it was answered (onchain.service.ts:103-146).
PaymentsAreDue ==
  \A r \in Requests : Pays(r) =>
    /\ \A a, b \in applied : a.by = r /\ b.by = r => a = b
    /\ (\E tx \in applied : tx.by = r) =>
         order[r].amount > 0 /\ order[r].to \in known /\ ~At(r, "declined")

THEOREM EveryPaymentIsDue == Spec => []PaymentsAreDue
  <1>1. Init => Inv
    BY InitInv
  <1>2. Inv => PaymentsAreDue
    BY DEF Inv, SentOnce, Approved, PaymentsAreDue, HasSent, Deserves, Unsent, At
  <1> QED
    BY <1>1, <1>2, NextInv, PTL DEF Spec
=============================================================================
