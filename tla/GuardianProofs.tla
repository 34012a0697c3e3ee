--------------------------- MODULE GuardianProofs ---------------------------
(***************************************************************************)
(* Proofs about GuardianRegistration for every set of numbers, wallets and *)
(* requests and every capacity of the tree.  The invariant has four parts: *)
(*   Rows     a number past the insertion of its row, in a handler, the    *)
(*            tree, a root or the chain, has a row;                        *)
(*   Tickets  two requests past insertion have different numbers, and none *)
(*            of them was answered (the unique constraint gives a number   *)
(*            to one request for ever);                                    *)
(*   Counted  the counter counts answers of this process, and an answered  *)
(*            number's leaf is below it;                                   *)
(*   Alone    a registration on its way that met no other is the only one  *)
(*            there, has the leaf at the counter, and sends the tree's own  *)
(*            root.                                                        *)
(***************************************************************************)
EXTENDS GuardianRegistration, TLAPS, FiniteSetTheorems

\* A request whose guardian row was inserted by it.
Holding == {"leaf", "build", "send", "count"}

Rows ==
  /\ EveryLeafHasARow
  /\ acked \subseteq {n \in Numbers : Inserted(n)}
  /\ \A r \in Requests :
       /\ req[r].at \in Holding \cup {"admin.patch"} => Inserted(req[r].number)
       /\ req[r].at \in {"send", "count"} =>
            \A i \in Leaves : req[r].root[i] # Empty => Inserted(req[r].root[i])

Tickets ==
  \A r \in Requests : req[r].at \in Holding =>
    /\ req[r].number \notin acked
    /\ \A q \in Requests \ {r} :
         req[q].at \in Holding => req[q].number # req[r].number

\* setLeaf never jumps: the leaves beyond the counter are free.
NothingBeyondCounter ==
  \A i \in Leaves : i > counter => tree[i] = Empty

Counted ==
  /\ counter \in Nat /\ counter <= Cardinality(acked)
  /\ NothingBeyondCounter
  /\ \A i \in Leaves : tree[i] \in acked => i < counter

Alone ==
  \A r \in Requests : OnItsWay(r) /\ req[r].number \notin crowded =>
    /\ counter \in Leaves /\ tree[counter] = req[r].number
    /\ req[r].at \in {"send", "count"} => req[r].root = tree
    /\ \A q \in Requests \ {r} : ~OnItsWay(q)

IInv ==
  /\ TypeOK /\ Rows /\ Tickets /\ Counted
  /\ Alone /\ AnsweredAloneHasALeaf /\ SequentialRegistrationsAreSound /\ ChainLagsBehind

-----------------------------------------------------------------------------
(* Facts about the data *)

\* What the fields of a request record are, label by label.
LEMMA RequestFields ==
  ASSUME NEW x \in InFlight \cup {Idle}
  PROVE  /\ x.at \in {"user.insert", "user.mail", "guardian.insert"} => x.form \in Form
         /\ x.at \in Holding \cup {"admin.insert", "admin.patch"} => x.number \in Numbers
         /\ x.at \in {"admin.insert", "admin.patch"} => x.wallet \in Wallets
         /\ x.at \in {"send", "count"} => x.root \in Trees
BY DEF InFlight, Idle, Holding

\* A row is inserted or is the missing row.
LEMMA RowOrNone ==
  ASSUME NEW row \in Row \cup {NoRow}
  PROVE  row.state # "none" <=> row \in Row
BY DEF Row, NoRow

\* Answering more registrations never uncounts one.
LEMMA AckedIsFinite ==
  ASSUME acked \subseteq Numbers
  PROVE  IsFiniteSet(acked) /\ Cardinality(acked) \in Nat
           /\ Cardinality(acked) <= Cardinality(Numbers)
BY NumbersAssumption, FS_Subset, FS_CardinalityType

LEMMA OneMoreAnswer ==
  ASSUME acked \subseteq Numbers, NEW n \in Numbers \ acked
  PROVE  Cardinality(acked \cup {n}) = Cardinality(acked) + 1
BY AckedIsFinite, FS_AddElement

LEMMA NumbersCount == Cardinality(Numbers) \in Nat
BY NumbersAssumption, FS_CardinalityType

-----------------------------------------------------------------------------
(* Initial states *)

LEMMA Initially == Init => IInv
<1> SUFFICES ASSUME Init PROVE IInv
  OBVIOUS
<1>1. TypeOK
  <2>1. counter \in 0 .. Cardinality(Numbers)
    BY NumbersCount DEF Init
  <2>2. EmptyTree \in Trees
    BY DEF EmptyTree, Trees
  <2> QED BY <2>1, <2>2 DEF Init, TypeOK
<1>2. Rows /\ Tickets
  BY DEF Init, Rows, Tickets, EveryLeafHasARow, Idle, Holding, EmptyTree
<1>3. Counted
  BY FS_EmptySet DEF Init, Counted, NothingBeyondCounter, EmptyTree
<1>4. Alone /\ AnsweredAloneHasALeaf /\ SequentialRegistrationsAreSound /\ ChainLagsBehind
  BY CapacityAssumption DEF Init, Alone, AnsweredAloneHasALeaf, SequentialRegistrationsAreSound,
       ChainLagsBehind,
       OnItsWay, Idle, EmptyTree, Leaves
<1> QED BY <1>1, <1>2, <1>3, <1>4 DEF IInv

-----------------------------------------------------------------------------
(* Types *)

LEMMA TypeOfReceive ==
  ASSUME TypeOK, NEW r \in Requests, NEW rec \in InFlight \cup {Idle},
         Becomes(r, rec)
  PROVE  req' \in [Requests -> InFlight \cup {Idle}]
BY DEF TypeOK, Becomes

LEMMA TypeOfInsertRow ==
  ASSUME TypeOK, NEW r \in Requests, NEW n \in Numbers, NEW w \in Wallets,
         NEW next \in InFlight \cup {Idle}, InsertRow(r, n, w, next)
  PROVE  /\ req' \in [Requests -> InFlight \cup {Idle}]
         /\ guardians' \in [Numbers -> Row \cup {NoRow}]
<1>1. Idle \in InFlight \cup {Idle}
  OBVIOUS
<1>2. CASE ~Inserted(n)
  <2>1. [state |-> "live", wallet |-> w] \in Row
    BY DEF Row
  <2>2. Becomes(r, next) /\ guardians' = [guardians EXCEPT ![n] = [state |-> "live", wallet |-> w]]
    BY <1>2 DEF InsertRow
  <2> QED BY <2>1, <2>2, TypeOfReceive DEF TypeOK
<1>3. CASE Inserted(n)
  BY <1>1, <1>3, TypeOfReceive DEF InsertRow, Answered, TypeOK
<1> QED BY <1>2, <1>3

\* The counter stays within the numbers because it counts answers.
LEMMA TypeOfCount ==
  ASSUME TypeOK, Tickets, Counted, NEW r \in Requests, CountGuardian(r)
  PROVE  /\ req[r].number \in Numbers /\ req[r].number \notin acked
         /\ counter + 1 <= Cardinality(acked')
         /\ counter' \in 0 .. Cardinality(Numbers)
<1>1. req[r].number \in Numbers /\ req[r].number \notin acked
  BY RequestFields DEF CountGuardian, At, TypeOK, Tickets, Holding
<1>2. /\ Cardinality(acked') = Cardinality(acked) + 1
      /\ acked' \subseteq Numbers /\ IsFiniteSet(acked)
  BY <1>1, OneMoreAnswer, AckedIsFinite DEF CountGuardian, TypeOK
<1>3. Cardinality(acked') <= Cardinality(Numbers) /\ Cardinality(acked) \in Nat
  BY <1>2, AckedIsFinite, NumbersAssumption, FS_Subset DEF TypeOK
<1> QED BY <1>1, <1>2, <1>3, NumbersCount DEF CountGuardian, Counted

LEMMA CrowdIsNumbers ==
  ASSUME TypeOK, NEW r \in Requests, At(r, "leaf")
  PROVE  Crowd(r) \subseteq Numbers
<1>1. \A q \in Requests : OnItsWay(q) \/ q = r => req[q].number \in Numbers
  BY RequestFields DEF TypeOK, OnItsWay, At, Holding
<1> QED BY <1>1 DEF Crowd

LEMMA TypeOfNext ==
  ASSUME TypeOK, Tickets, Counted, [Next]_vars
  PROVE  TypeOK'
<1>0. Idle \in InFlight \cup {Idle} /\ req \in [Requests -> InFlight \cup {Idle}]
  BY DEF TypeOK
<1>1. ASSUME NEW r \in Requests, NEW form \in Form, RegisterGuardian(r, form)
      PROVE  TypeOK'
  <2> DEFINE rec == [at |-> IF form.password THEN "user.insert" ELSE "guardian.insert",
                     form |-> form]
  <2>1. rec \in InFlight
    BY DEF InFlight
  <2> QED BY <1>1, <2>1, TypeOfReceive DEF RegisterGuardian, TypeOK
<1>2. ASSUME NEW r \in Requests, NEW n \in Numbers, NEW w \in Wallets,
             AdminCreates(r, n, w) \/ AdminPatches(r, n, w)
      PROVE  TypeOK'
  <2>1. /\ [at |-> "admin.insert", number |-> n, wallet |-> w] \in InFlight
        /\ [at |-> "admin.patch", number |-> n, wallet |-> w] \in InFlight
    BY DEF InFlight
  <2> QED BY <1>2, <2>1, TypeOfReceive DEF AdminCreates, AdminPatches, TypeOK
<1>3. ASSUME NEW r \in Requests, InsertUser(r) \/ MailPin(r)
      PROVE  TypeOK'
  <2>1. req[r].form \in Form /\ req[r].form.email \in Emails
    BY <1>0, <1>3, RequestFields DEF InsertUser, MailPin, At, Form
  <2>2. /\ [at |-> "user.mail", form |-> req[r].form] \in InFlight
        /\ [at |-> "guardian.insert", form |-> req[r].form] \in InFlight
    BY <2>1 DEF InFlight
  <2>3. req' \in [Requests -> InFlight \cup {Idle}]
    BY <1>0, <1>3, <2>2, TypeOfReceive DEF InsertUser, MailPin, Answered
  <2> QED BY <1>3, <2>1, <2>3 DEF InsertUser, MailPin, RegisteredRole, TypeOK
<1>4. ASSUME NEW r \in Requests, InsertGuardian(r)
      PROVE  TypeOK'
  <2>1. req[r].form.number \in Numbers /\ req[r].form.wallet \in Wallets
    BY <1>0, <1>4, RequestFields DEF InsertGuardian, At, Form
  <2>2. [at |-> "leaf", number |-> req[r].form.number] \in InFlight
    BY <2>1 DEF InFlight
  <2> QED BY <1>4, <2>1, <2>2, TypeOfInsertRow DEF InsertGuardian, TypeOK
<1>5. ASSUME NEW r \in Requests, AdminInserts(r)
      PROVE  TypeOK'
  <2>1. req[r].number \in Numbers /\ req[r].wallet \in Wallets
    BY <1>0, <1>5, RequestFields DEF AdminInserts, At
  <2> QED BY <1>0, <1>5, <2>1, TypeOfInsertRow DEF AdminInserts, TypeOK
<1>6. ASSUME NEW r \in Requests, AdminSaves(r)
      PROVE  TypeOK'
  <2>1. req[r].number \in Numbers /\ req[r].wallet \in Wallets
    BY <1>0, <1>6, RequestFields DEF AdminSaves, At
  <2>2. [guardians[req[r].number] EXCEPT !.wallet = req[r].wallet] \in Row \cup {NoRow}
    BY <2>1 DEF TypeOK, Row, NoRow
  <2> QED BY <1>0, <1>6, <2>1, <2>2, TypeOfReceive DEF AdminSaves, Answered, TypeOK
<1>7. ASSUME NEW r \in Requests, SetLeaf(r)
      PROVE  TypeOK'
  <2>1. req[r].number \in Numbers
    BY <1>0, <1>7, RequestFields DEF SetLeaf, At, Holding
  <2>2. [at |-> "build", number |-> req[r].number] \in InFlight
    BY <2>1 DEF InFlight
  <2>3. tree' \in Trees
    BY <1>7, <2>1 DEF SetLeaf, TypeOK, Trees
  <2>4. crowded' \subseteq Numbers
    BY <1>0, <1>7, CrowdIsNumbers DEF SetLeaf, TypeOK
  <2> QED BY <1>7, <2>2, <2>3, <2>4, TypeOfReceive DEF SetLeaf, TypeOK
<1>8. ASSUME NEW r \in Requests, BuildTransaction(r)
      PROVE  TypeOK'
  <2>1. req[r].number \in Numbers
    BY <1>0, <1>8, RequestFields DEF BuildTransaction, At, Holding
  <2>2. [at |-> "send", number |-> req[r].number, root |-> tree] \in InFlight
    BY <2>1 DEF InFlight, TypeOK
  <2> QED BY <1>8, <2>2, TypeOfReceive DEF BuildTransaction, TypeOK
<1>9. ASSUME NEW r \in Requests, SendTransaction(r)
      PROVE  TypeOK'
  <2>1. req[r].root \in Trees
    BY <1>0, <1>9, RequestFields DEF SendTransaction, At
  <2>2. [req[r] EXCEPT !.at = "count"] \in InFlight
    BY <1>0, <1>9 DEF SendTransaction, At, InFlight, Idle
  <2> QED BY <1>9, <2>1, <2>2, TypeOfReceive DEF SendTransaction, TypeOK
<1>10. ASSUME NEW r \in Requests, CountGuardian(r)
      PROVE  TypeOK'
  <2>1. req[r].number \in Numbers /\ counter' \in 0 .. Cardinality(Numbers)
    BY <1>10, TypeOfCount
  <2> QED BY <1>0, <1>10, <2>1, TypeOfReceive DEF CountGuardian, Answered, TypeOK
<1>11. ASSUME NEW r \in Requests, Fail(r)
      PROVE  TypeOK'
  BY <1>0, <1>11, TypeOfReceive DEF Fail, Answered, TypeOK
<1>12. ASSUME NEW n \in Numbers, AdminRemoves(n)
      PROVE  TypeOK'
  <2>1. [guardians[n] EXCEPT !.state = "deleted"] \in Row
    BY <1>12 DEF AdminRemoves, LiveGuardian, TypeOK, Row, NoRow
  <2> QED BY <1>12, <2>1 DEF AdminRemoves, TypeOK
<1>13. CASE Restart
  <2>1. EmptyTree \in Trees /\ 0 \in 0 .. Cardinality(Numbers)
    BY NumbersCount DEF EmptyTree, Trees
  <2> QED BY <1>0, <1>13, <2>1 DEF Restart, TypeOK
<1>14. CASE UNCHANGED vars
  BY <1>14 DEF vars, TypeOK
<1> QED BY <1>1, <1>2, <1>3, <1>4, <1>5, <1>6, <1>7, <1>8, <1>9, <1>10, <1>11,
        <1>12, <1>13, <1>14 DEF Next

-----------------------------------------------------------------------------
(* The rest of the invariant *)

Quiet == UNCHANGED <<tree, counter, committed, acked, crowded>>

\* Rows are never taken away.
RowsGrow == \A n \in Numbers : Inserted(n) => Inserted(n)'

\* A record that carries no row past its insertion.
Early(x) == x.at \notin Holding \cup {"admin.patch"}

\* All but the types survives a step that leaves process and chain alone,
\* keeps the rows, and changes at most one request, to one that is early or
\* patches a row that is there.
LEMMA QuietStep ==
  ASSUME IInv, Quiet, RowsGrow, NEW r \in Requests,
         \A q \in Requests \ {r} : req'[q] = req[q],
         \/ Early(req'[r])
         \/ req'[r].at = "admin.patch" /\ Inserted(req[r].number)'
         \/ req'[r] = req[r]
  PROVE  /\ Rows' /\ Tickets' /\ Counted'
         /\ Alone' /\ AnsweredAloneHasALeaf' /\ SequentialRegistrationsAreSound' /\ ChainLagsBehind'
<1>0. /\ tree' = tree /\ counter' = counter /\ committed' = committed
      /\ acked' = acked /\ crowded' = crowded
  BY DEF Quiet
<1>1. /\ tree \in [Leaves -> Numbers \cup {Empty}]
      /\ committed \in [Leaves -> Numbers \cup {Empty}]
      /\ \A q \in Requests : req[q] \in InFlight \cup {Idle}
  BY DEF IInv, TypeOK, Trees
<1>2. \A q \in Requests : req'[q].at \in Holding => req'[q] = req[q]
  BY DEF Early, Holding
<1>3. Rows'
  <2>1. EveryLeafHasARow'
    BY <1>0, <1>1 DEF IInv, Rows, EveryLeafHasARow, RowsGrow
  <2>2. (acked \subseteq {n \in Numbers : Inserted(n)})'
    BY <1>0 DEF IInv, Rows, RowsGrow
  <2>3. ASSUME NEW q \in Requests, req'[q].at \in Holding \cup {"admin.patch"}
        PROVE  Inserted(req[q].number)'
    <3>1. CASE req'[q] = req[q]
      BY <1>1, <2>3, <3>1, RequestFields DEF IInv, Rows, RowsGrow
    <3>2. CASE req'[q] # req[q]
      BY <2>3, <3>2 DEF Early
    <3> QED BY <3>1, <3>2
  <2>4. ASSUME NEW q \in Requests, req'[q].at \in {"send", "count"}, NEW i \in Leaves,
               req'[q].root[i] # Empty
        PROVE  Inserted(req[q].root[i])'
    <3>1. req'[q] = req[q]
      BY <1>2, <2>4 DEF Holding
    <3>2. req[q].root \in [Leaves -> Numbers \cup {Empty}]
      BY <1>1, <2>4, <3>1, RequestFields DEF Trees
    <3> QED BY <2>4, <3>1, <3>2 DEF IInv, Rows, RowsGrow
  <2> QED BY <2>1, <2>2, <2>3, <2>4 DEF Rows
<1>4. Tickets'
  BY <1>0, <1>2 DEF IInv, Tickets
<1>5. Counted'
  BY <1>0 DEF IInv, Counted, NothingBeyondCounter
<1>6. Alone'
  BY <1>0, <1>2 DEF IInv, Alone, OnItsWay, Holding
<1>7. AnsweredAloneHasALeaf' /\ SequentialRegistrationsAreSound' /\ ChainLagsBehind'
  BY <1>0 DEF IInv, AnsweredAloneHasALeaf, SequentialRegistrationsAreSound, ChainLagsBehind
<1> QED BY <1>3, <1>4, <1>5, <1>6, <1>7

\* Which steps are quiet.
LEMMA QuietSteps ==
  ASSUME IInv, NEW r \in Requests,
         \/ \E form \in Form : RegisterGuardian(r, form)
         \/ \E n \in Numbers, w \in Wallets : AdminCreates(r, n, w) \/ AdminPatches(r, n, w)
         \/ InsertUser(r) \/ MailPin(r) \/ AdminInserts(r) \/ AdminSaves(r) \/ Fail(r)
         \/ \E n \in Numbers : AdminRemoves(n)
  PROVE  /\ Rows' /\ Tickets' /\ Counted'
         /\ Alone' /\ AnsweredAloneHasALeaf' /\ SequentialRegistrationsAreSound' /\ ChainLagsBehind'
<1>0. /\ req \in [Requests -> InFlight \cup {Idle}]
      /\ guardians \in [Numbers -> Row \cup {NoRow}]
  BY DEF IInv, TypeOK
<1>1. CASE \E form \in Form : RegisterGuardian(r, form)
  BY <1>0, <1>1, QuietStep DEF RegisterGuardian, Becomes, Quiet, RowsGrow, Inserted,
       Early, Holding
<1>2. ASSUME NEW n \in Numbers, NEW w \in Wallets, AdminCreates(r, n, w) \/ AdminPatches(r, n, w)
      PROVE  /\ Rows' /\ Tickets' /\ Counted'
             /\ Alone' /\ AnsweredAloneHasALeaf' /\ SequentialRegistrationsAreSound'
             /\ ChainLagsBehind'
  BY <1>0, <1>2, QuietStep DEF AdminCreates, AdminPatches, Becomes, Quiet, RowsGrow,
       Inserted, LiveGuardian, Early, Holding
<1>3. CASE InsertUser(r) \/ MailPin(r) \/ Fail(r)
  BY <1>0, <1>3, QuietStep DEF InsertUser, MailPin, Fail, Answered, Idle, Becomes, Quiet,
       RowsGrow, Inserted, Early, Holding
<1>4. CASE AdminInserts(r)
  <2>1. req[r].number \in Numbers /\ req[r].wallet \in Wallets
    BY <1>0, <1>4, RequestFields DEF AdminInserts, At
  <2>2. RowsGrow /\ req' = [req EXCEPT ![r] = Idle] /\ Quiet
    BY <1>0, <1>4, <2>1 DEF AdminInserts, InsertRow, Answered, Becomes, RowsGrow, Inserted, Quiet
  <2> QED BY <1>0, <2>2, QuietStep DEF Idle, Early, Holding
<1>5. CASE AdminSaves(r)
  <2>1. req[r].number \in Numbers
    BY <1>0, <1>5, RequestFields DEF AdminSaves, At
  <2>2. RowsGrow
    BY <1>0, <1>5, <2>1 DEF AdminSaves, RowsGrow, Inserted, Row, NoRow
  <2> QED BY <1>0, <1>5, <2>2, QuietStep DEF AdminSaves, Answered, Becomes, Idle, Quiet,
            Early, Holding
<1>6. ASSUME NEW n \in Numbers, AdminRemoves(n)
      PROVE  /\ Rows' /\ Tickets' /\ Counted'
             /\ Alone' /\ AnsweredAloneHasALeaf' /\ SequentialRegistrationsAreSound'
             /\ ChainLagsBehind'
  <2>1. RowsGrow
    BY <1>0, <1>6 DEF AdminRemoves, RowsGrow, Inserted, LiveGuardian, Row, NoRow
  <2> QED BY <1>6, <2>1, QuietStep DEF AdminRemoves, Quiet
<1> QED BY <1>1, <1>2, <1>3, <1>4, <1>5, <1>6

Rest ==
  /\ Rows /\ Tickets /\ Counted
  /\ Alone /\ AnsweredAloneHasALeaf /\ SequentialRegistrationsAreSound /\ ChainLagsBehind

\* The unique constraint makes a new ticket: a number that had no row is in no
\* handler past its insertion and was never answered.
LEMMA InsertGuardianStep ==
  ASSUME IInv, NEW r \in Requests, InsertGuardian(r)
  PROVE  Rest'
<1>0. /\ req \in [Requests -> InFlight \cup {Idle}]
      /\ guardians \in [Numbers -> Row \cup {NoRow}]
      /\ tree \in Trees /\ committed \in Trees
  BY DEF IInv, TypeOK
<1> PICK n \in Numbers : n = req[r].form.number
  BY <1>0, RequestFields DEF InsertGuardian, At, Form
<1>1. Quiet
  BY DEF InsertGuardian, Quiet
<1>2. CASE Inserted(n)
  <2>1. Becomes(r, Idle) /\ UNCHANGED guardians
    BY <1>2 DEF InsertGuardian, InsertRow, Answered
  <2> QED BY <1>0, <1>1, <2>1, QuietStep DEF Becomes, Idle, Early, Holding, RowsGrow,
            Inserted, Rest
<1>3. CASE ~Inserted(n)
  <2>1. /\ guardians' = [guardians EXCEPT ![n] = [state |-> "live", wallet |-> req[r].form.wallet]]
        /\ req' = [req EXCEPT ![r] = [at |-> "leaf", number |-> n]]
    BY <1>3 DEF InsertGuardian, InsertRow, Becomes
  <2>2. RowsGrow /\ Inserted(n)'
    <3>1. guardians'[n].state = "live"
      BY <1>0, <2>1
    <3>2. \A m \in Numbers \ {n} : guardians'[m] = guardians[m]
      BY <1>0, <2>1
    <3> QED BY <3>1, <3>2 DEF RowsGrow, Inserted
  <2>3. /\ \A q \in Requests \ {r} : req'[q] = req[q]
        /\ req'[r].at = "leaf" /\ req'[r].number = n
    BY <1>0, <2>1
  <2>4. Rows'
    <3>1. EveryLeafHasARow'
      BY <1>0, <1>1, <2>2 DEF IInv, Rows, EveryLeafHasARow, RowsGrow, Quiet, Trees
    <3>2. (acked \subseteq {m \in Numbers : Inserted(m)})'
      BY <1>1, <2>2 DEF IInv, Rows, RowsGrow, Quiet
    <3>3. ASSUME NEW q \in Requests, req'[q].at \in Holding \cup {"admin.patch"}
          PROVE  Inserted(req[q].number)'
      <4>1. CASE q = r
        BY <2>2, <2>3, <4>1
      <4>2. CASE q # r
        BY <1>0, <2>2, <2>3, <3>3, <4>2, RequestFields DEF IInv, Rows, RowsGrow
      <4> QED BY <4>1, <4>2
    <3>4. ASSUME NEW q \in Requests, req'[q].at \in {"send", "count"}, NEW i \in Leaves,
                 req'[q].root[i] # Empty
          PROVE  Inserted(req[q].root[i])'
      <4>1. req'[q] = req[q] /\ req[q].root \in Trees
        BY <1>0, <2>3, <3>4, RequestFields
      <4> QED BY <2>2, <3>4, <4>1 DEF IInv, Rows, RowsGrow, Trees
    <3> QED BY <3>1, <3>2, <3>3, <3>4 DEF Rows
  <2>5. Tickets'
    <3>1. n \notin acked
      BY <1>3 DEF IInv, Rows
    <3>2. \A q \in Requests : req[q].at \in Holding => req[q].number # n
      BY <1>3 DEF IInv, Rows
    <3> QED BY <1>1, <2>3, <3>1, <3>2 DEF IInv, Tickets, Quiet
  <2>6. /\ Counted' /\ AnsweredAloneHasALeaf'
        /\ SequentialRegistrationsAreSound' /\ ChainLagsBehind'
    BY <1>1 DEF IInv, Counted, NothingBeyondCounter, AnsweredAloneHasALeaf,
         SequentialRegistrationsAreSound, ChainLagsBehind, Quiet
  <2>7. Alone'
    BY <1>1, <2>3 DEF IInv, Alone, OnItsWay, Quiet
  <2> QED BY <2>4, <2>5, <2>6, <2>7 DEF Rest
<1> QED BY <1>2, <1>3

\* The leaf at the counter belongs to no answered number, so writing it loses
\* none; if nobody else is on the way, the writer now has it to itself.
LEMMA SetLeafStep ==
  ASSUME IInv, NEW r \in Requests, SetLeaf(r)
  PROVE  Rest'
<1> DEFINE n == req[r].number
<1>0. /\ req \in [Requests -> InFlight \cup {Idle}]
      /\ tree \in [Leaves -> Numbers \cup {Empty}] /\ committed \in Trees
      /\ n \in Numbers /\ n # Empty /\ req[r].at = "leaf"
      /\ counter \in Nat /\ counter \in Leaves
  BY RequestFields, EmptyAssumption, CapacityAssumption
  DEF SetLeaf, At, IInv, TypeOK, Counted, Holding, Leaves, Trees
<1>1. /\ tree' = [tree EXCEPT ![counter] = n]
      /\ req' = [req EXCEPT ![r] = [at |-> "build", number |-> n]]
      /\ crowded' = crowded \cup Crowd(r)
      /\ UNCHANGED <<accounts, guardians, counter, committed, acked>>
  BY DEF SetLeaf, Becomes
<1>2. /\ \A q \in Requests \ {r} : req'[q] = req[q]
      /\ req'[r].at = "build" /\ req'[r].number = n
      /\ \A i \in Leaves \ {counter} : tree'[i] = tree[i]
      /\ tree'[counter] = n
  BY <1>0, <1>1
<1>3. Inserted(n) /\ n \notin acked
  BY <1>0 DEF IInv, Rows, Tickets, Holding
<1>4. Rows'
  <2>1. EveryLeafHasARow'
    BY <1>0, <1>1, <1>2, <1>3 DEF IInv, Rows, EveryLeafHasARow, Inserted
  <2> QED BY <1>1, <1>2, <1>3, <2>1 DEF IInv, Rows, Inserted
<1>5. Tickets'
  BY <1>0, <1>1, <1>2 DEF IInv, Tickets, Holding
<1>6. Counted'
  <2>1. \A i \in Leaves : i > counter => tree'[i] = Empty
    BY <1>0, <1>2 DEF IInv, Counted, NothingBeyondCounter, Leaves
  <2>2. \A i \in Leaves : tree'[i] \in acked => i < counter
    BY <1>0, <1>2, <1>3 DEF IInv, Counted
  <2> QED BY <1>1, <2>1, <2>2 DEF IInv, Counted, NothingBeyondCounter
<1>7. /\ \A q \in Requests \ {r} : OnItsWay(q)' => req'[q].number \in crowded'
      /\ n \notin crowded' => \A q \in Requests \ {r} : ~OnItsWay(q)
      /\ crowded' = {} => crowded = {}
  <2>1. ASSUME NEW q \in Requests \ {r}, OnItsWay(q)
        PROVE  Crowd(r) = {req[p].number : p \in {p \in Requests : OnItsWay(p)} \cup {r}}
    BY <2>1 DEF Crowd
  <2> QED BY <1>1, <1>2, <2>1 DEF OnItsWay
<1>8. Alone'
  BY <1>0, <1>1, <1>2, <1>7 DEF Alone, OnItsWay
<1>11. AnsweredAloneHasALeaf'
  <2> SUFFICES ASSUME NEW m \in acked \ crowded
               PROVE  \E i \in Leaves : i < counter /\ tree'[i] = m
    BY <1>1 DEF AnsweredAloneHasALeaf
  <2>1. PICK i \in Leaves : i < counter /\ tree[i] = m
    BY DEF IInv, AnsweredAloneHasALeaf
  <2> QED BY <1>0, <1>2, <2>1 DEF Leaves
<1>9. SequentialRegistrationsAreSound'
  <2> SUFFICES ASSUME crowded' = {}
               PROVE  /\ \A m \in acked : \E i \in Leaves : i < counter /\ tree'[i] = m
                      /\ \A i \in Leaves : i < counter => tree'[i] \in acked
    BY <1>1 DEF SequentialRegistrationsAreSound
  <2>1. /\ \A m \in acked : \E i \in Leaves : i < counter /\ tree[i] = m
        /\ \A i \in Leaves : i < counter => tree[i] \in acked
    BY <1>7 DEF IInv, SequentialRegistrationsAreSound
  <2> QED BY <1>0, <1>2, <2>1 DEF Leaves
<1>10. ChainLagsBehind'
  <2> SUFFICES ASSUME crowded' = {}
               PROVE  \E k \in 0 .. counter :
                        /\ \A i \in Leaves : i < k => committed[i] = tree'[i]
                        /\ \A i \in Leaves : i > k => committed[i] = Empty
    BY <1>1 DEF ChainLagsBehind
  <2>1. PICK k \in 0 .. counter : /\ \A i \in Leaves : i < k => committed[i] = tree[i]
                                  /\ \A i \in Leaves : i > k => committed[i] = Empty
    BY <1>7 DEF IInv, ChainLagsBehind
  <2>2. \A i \in Leaves : i < k => committed[i] = tree'[i]
    BY <1>0, <1>2, <2>1 DEF Leaves
  <2> QED BY <2>1, <2>2
<1> QED BY <1>4, <1>5, <1>6, <1>8, <1>9, <1>10, <1>11 DEF Rest

LEMMA BuildStep ==
  ASSUME IInv, NEW r \in Requests, BuildTransaction(r)
  PROVE  Rest'
<1> DEFINE n == req[r].number
<1>0. /\ req \in [Requests -> InFlight \cup {Idle}] /\ req[r].at = "build"
  BY DEF BuildTransaction, At, IInv, TypeOK
<1>1. /\ req' = [req EXCEPT ![r] = [at |-> "send", number |-> n, root |-> tree]]
      /\ UNCHANGED <<accounts, guardians, tree, counter, committed, acked, crowded>>
  BY DEF BuildTransaction, Becomes
<1>2. /\ \A q \in Requests \ {r} : req'[q] = req[q]
      /\ req'[r].at = "send" /\ req'[r].number = n /\ req'[r].root = tree
  BY <1>0, <1>1
<1>3. Rows'
  <2>1. \A i \in Leaves : tree[i] # Empty => Inserted(tree[i])
    BY DEF IInv, Rows, EveryLeafHasARow
  <2>2. Inserted(n)
    BY <1>0 DEF IInv, Rows, Holding
  <2> QED BY <1>1, <1>2, <2>1, <2>2 DEF IInv, Rows, EveryLeafHasARow, Inserted
<1>4. Tickets'
  BY <1>0, <1>1, <1>2 DEF IInv, Tickets, Holding
<1>5. /\ Counted' /\ AnsweredAloneHasALeaf'
      /\ SequentialRegistrationsAreSound' /\ ChainLagsBehind'
  BY <1>1 DEF IInv, Counted, NothingBeyondCounter, AnsweredAloneHasALeaf,
       SequentialRegistrationsAreSound, ChainLagsBehind
<1>6. Alone'
  BY <1>0, <1>1, <1>2 DEF IInv, Alone, OnItsWay
<1> QED BY <1>3, <1>4, <1>5, <1>6 DEF Rest

\* The root that is sent is the tree's own while nobody met, and the
\* tree is empty beyond the counter.
LEMMA SendStep ==
  ASSUME IInv, NEW r \in Requests, SendTransaction(r)
  PROVE  Rest'
<1>0. /\ req \in [Requests -> InFlight \cup {Idle}] /\ req[r].at = "send"
      /\ [req[r] EXCEPT !.at = "count"] = [at |-> "count", number |-> req[r].number,
                                           root |-> req[r].root]
  BY DEF SendTransaction, At, IInv, TypeOK, InFlight, Idle
<1>1. /\ committed' \in {committed, req[r].root}
      /\ req' = [req EXCEPT ![r] = [req[r] EXCEPT !.at = "count"]]
      /\ UNCHANGED <<accounts, guardians, tree, counter, acked, crowded>>
  BY DEF SendTransaction, Becomes
<1>2. /\ \A q \in Requests \ {r} : req'[q] = req[q]
      /\ req'[r].at = "count" /\ req'[r].number = req[r].number
      /\ req'[r].root = req[r].root
  BY <1>0, <1>1
<1>3. Rows'
  <2>1. \A i \in Leaves : req[r].root[i] # Empty => Inserted(req[r].root[i])
    BY <1>0 DEF IInv, Rows
  <2>2. EveryLeafHasARow'
    BY <1>1, <2>1 DEF IInv, Rows, EveryLeafHasARow, Inserted
  <2>3. Inserted(req[r].number)
    BY <1>0 DEF IInv, Rows, Holding
  <2> QED BY <1>0, <1>1, <1>2, <2>1, <2>2, <2>3 DEF IInv, Rows, Inserted
<1>4. Tickets'
  <2>1. \A q \in Requests : req'[q].at \in Holding =>
          req[q].at \in Holding /\ req'[q].number = req[q].number
    BY <1>0, <1>2 DEF Holding
  <2> QED BY <1>1, <2>1 DEF IInv, Tickets
<1>5. Counted' /\ AnsweredAloneHasALeaf' /\ SequentialRegistrationsAreSound'
  BY <1>1 DEF IInv, Counted, NothingBeyondCounter, AnsweredAloneHasALeaf,
       SequentialRegistrationsAreSound
<1>6. Alone'
  <2>1. ASSUME NEW q \in Requests
        PROVE  /\ OnItsWay(q)' <=> OnItsWay(q)
               /\ req'[q].number = req[q].number
               /\ req'[q].at \in {"send", "count"} <=> req[q].at \in {"send", "count"}
               /\ req[q].at \in {"send", "count"} => req'[q].root = req[q].root
    BY <1>0, <1>2 DEF OnItsWay
  <2> QED BY <1>1, <2>1 DEF IInv, Alone
<1>7. ChainLagsBehind'
  <2>1. CASE committed' = committed
    BY <1>1, <2>1 DEF IInv, ChainLagsBehind
  <2>2. CASE committed' = req[r].root
    <3> SUFFICES ASSUME crowded = {}
                 PROVE  \E k \in 0 .. counter :
                          /\ \A i \in Leaves : i < k => committed'[i] = tree[i]
                          /\ \A i \in Leaves : i > k => committed'[i] = Empty
      BY <1>1 DEF ChainLagsBehind
    <3>1. committed' = tree
      BY <1>0, <2>2 DEF IInv, Alone, OnItsWay
    <3>2. \A i \in Leaves : i > counter => tree[i] = Empty
      BY DEF IInv, Counted, NothingBeyondCounter
    <3>3. counter \in 0 .. counter
      BY DEF IInv, Counted
    <3> QED BY <3>1, <3>2, <3>3
  <2> QED BY <1>1, <2>1, <2>2
<1> QED BY <1>3, <1>4, <1>5, <1>6, <1>7 DEF Rest

\* The answered number's leaf is at or below the counter, hence below the new
\* counter; if it met nobody it is exactly at the counter.
LEMMA CountStep ==
  ASSUME IInv, NEW r \in Requests, CountGuardian(r)
  PROVE  Rest'
<1>0. /\ req \in [Requests -> InFlight \cup {Idle}] /\ req[r].at = "count"
      /\ acked \subseteq Numbers /\ counter \in Nat
      /\ tree \in [Leaves -> Numbers \cup {Empty}]
  BY DEF CountGuardian, At, IInv, TypeOK, Counted, Trees
<1> PICK n \in Numbers : n = req[r].number
  BY <1>0, RequestFields DEF Holding
<1>1. /\ counter' = counter + 1
      /\ acked' = acked \cup {n}
      /\ req' = [req EXCEPT ![r] = Idle]
      /\ UNCHANGED <<accounts, guardians, tree, committed, crowded>>
  BY DEF CountGuardian, Answered, Becomes
<1>2. /\ \A q \in Requests \ {r} : req'[q] = req[q]
      /\ req'[r].at = "idle"
  BY <1>0, <1>1 DEF Idle
<1>3. n \notin acked /\ Inserted(n) /\ n # Empty
  BY <1>0, EmptyAssumption DEF IInv, Tickets, Rows, Holding
<1>4. Rows'
  <2>1. EveryLeafHasARow'
    BY <1>1 DEF IInv, Rows, EveryLeafHasARow, Inserted
  <2> QED BY <1>1, <1>2, <1>3, <2>1 DEF IInv, Rows, Inserted, Holding
<1>5. Tickets'
  <2>1. \A q \in Requests : req'[q].at \in Holding =>
          q # r /\ req'[q] = req[q] /\ req[q].number # n
    BY <1>0, <1>2 DEF IInv, Tickets, Holding
  <2> QED BY <1>1, <2>1 DEF IInv, Tickets
<1>6. Counted'
  <2>1. counter + 1 <= Cardinality(acked')
    BY TypeOfCount DEF IInv
  <2>2. \A i \in Leaves : i > counter + 1 => tree[i] = Empty
    BY <1>0, CapacityAssumption DEF IInv, Counted, NothingBeyondCounter, Leaves
  <2>3. \A i \in Leaves : tree[i] = n => i < counter + 1
    BY <1>0, <1>3, CapacityAssumption DEF IInv, Counted, NothingBeyondCounter, Leaves
  <2>4. \A i \in Leaves : tree[i] \in acked => i < counter + 1
    BY <1>0, CapacityAssumption DEF IInv, Counted, Leaves
  <2> QED BY <1>0, <1>1, <2>1, <2>2, <2>3, <2>4 DEF Counted, NothingBeyondCounter
<1>7. ASSUME n \notin crowded
      PROVE  /\ counter \in Leaves /\ tree[counter] = n
             /\ \A q \in Requests \ {r} : ~OnItsWay(q)
  BY <1>0, <1>7 DEF IInv, Alone, OnItsWay
\* Whoever else was on its way has met r, or r would be alone.
<1>8. Alone'
  <2> SUFFICES ASSUME NEW q \in Requests \ {r}, OnItsWay(q), req[q].number \notin crowded
               PROVE  FALSE
    BY <1>1, <1>2 DEF Alone, OnItsWay
  <2>1. ~OnItsWay(r)
    BY DEF IInv, Alone
  <2> QED BY <1>0, <2>1 DEF OnItsWay
<1>11. AnsweredAloneHasALeaf'
  <2> SUFFICES ASSUME NEW m \in (acked \cup {n}) \ crowded
               PROVE  \E i \in Leaves : i < counter + 1 /\ tree[i] = m
    BY <1>1 DEF AnsweredAloneHasALeaf
  <2>1. CASE m = n
    BY <1>0, <1>7, <2>1
  <2>2. CASE m \in acked
    <3>1. PICK i \in Leaves : i < counter /\ tree[i] = m
      BY <2>2 DEF IInv, AnsweredAloneHasALeaf
    <3> QED BY <1>0, <3>1, CapacityAssumption DEF Leaves
  <2> QED BY <2>1, <2>2
<1>9. SequentialRegistrationsAreSound'
  <2> SUFFICES ASSUME crowded = {}
               PROVE  /\ \A m \in acked \cup {n} : \E i \in Leaves : i < counter + 1 /\ tree[i] = m
                      /\ \A i \in Leaves : i < counter + 1 => tree[i] \in acked \cup {n}
    BY <1>1 DEF SequentialRegistrationsAreSound
  <2>1. /\ \A m \in acked : \E i \in Leaves : i < counter /\ tree[i] = m
        /\ \A i \in Leaves : i < counter => tree[i] \in acked
    BY DEF IInv, SequentialRegistrationsAreSound
  <2>2. \A i \in Leaves : i < counter + 1 => i < counter \/ i = counter
    BY <1>0, CapacityAssumption DEF Leaves
  <2>3. \A i \in Leaves : i < counter => i < counter + 1
    BY <1>0, CapacityAssumption DEF Leaves
  <2>4. counter < counter + 1
    BY <1>0
  <2> QED BY <1>7, <2>1, <2>2, <2>3, <2>4
<1>10. ChainLagsBehind'
  <2>1. 0 .. counter \subseteq 0 .. counter + 1
    BY <1>0
  <2> QED BY <1>1, <2>1 DEF IInv, ChainLagsBehind
<1> QED BY <1>4, <1>5, <1>6, <1>8, <1>9, <1>10, <1>11 DEF Rest

\* A restart forgets tree and counter: what is left to say concerns rows,
\* answers and the chain.
LEMMA RestartStep ==
  ASSUME IInv, Restart
  PROVE  Rest'
<1>1. /\ tree' = EmptyTree /\ counter' = 0 /\ crowded' = crowded \cup acked
      /\ \A r \in Requests : req'[r].at = "idle"
      /\ UNCHANGED <<accounts, guardians, committed, acked>>
  BY DEF Restart, Idle
<1>2. Rows'
  BY <1>1 DEF IInv, Rows, EveryLeafHasARow, EmptyTree, Inserted, Holding
<1>3. Tickets'
  BY <1>1 DEF Tickets, Holding
<1>4. Counted'
  <2>1. \A i \in Leaves : tree'[i] = Empty
    BY <1>1 DEF EmptyTree
  <2>2. Empty \notin acked /\ 0 <= Cardinality(acked)
    BY EmptyAssumption, AckedIsFinite DEF IInv, TypeOK
  <2> QED BY <1>1, <2>1, <2>2 DEF Counted, NothingBeyondCounter
<1>5. Alone' /\ AnsweredAloneHasALeaf' /\ SequentialRegistrationsAreSound'
  BY <1>1, CapacityAssumption
  DEF Alone, OnItsWay, AnsweredAloneHasALeaf, SequentialRegistrationsAreSound, Leaves
\* While nothing was answered the counter was at the first leaf, and the chain has
\* nothing beyond it.
<1>6. ChainLagsBehind'
  <2> SUFFICES ASSUME crowded = {}, acked = {}
               PROVE  \A i \in Leaves : i > 0 => committed[i] = Empty
    BY <1>1, CapacityAssumption DEF ChainLagsBehind, Leaves
  <2>1. counter = 0
    BY FS_EmptySet DEF IInv, Counted
  <2> QED BY <2>1 DEF IInv, ChainLagsBehind
<1> QED BY <1>1, <1>2, <1>3, <1>4, <1>5, <1>6 DEF Rest

LEMMA IInvNext ==
  ASSUME IInv, [Next]_vars
  PROVE  IInv'
<1>1. TypeOK'
  BY TypeOfNext DEF IInv
<1>2. Rest'
  <2>1. ASSUME NEW r \in Requests, NEW form \in Form, RegisterGuardian(r, form)
        PROVE  Rest'
    BY <2>1, QuietSteps DEF Rest
  <2>2. ASSUME NEW r \in Requests, NEW n \in Numbers, NEW w \in Wallets,
               AdminCreates(r, n, w) \/ AdminPatches(r, n, w)
        PROVE  Rest'
    BY <2>2, QuietSteps DEF Rest
  <2>3. ASSUME NEW r \in Requests,
               InsertUser(r) \/ MailPin(r) \/ AdminInserts(r) \/ AdminSaves(r) \/ Fail(r)
        PROVE  Rest'
    BY <2>3, QuietSteps DEF Rest
  <2>4. ASSUME NEW r \in Requests,
               InsertGuardian(r) \/ SetLeaf(r) \/ BuildTransaction(r)
                 \/ SendTransaction(r) \/ CountGuardian(r)
        PROVE  Rest'
    BY <2>4, InsertGuardianStep, SetLeafStep, BuildStep, SendStep, CountStep
  <2>5. ASSUME NEW n \in Numbers, AdminRemoves(n)
        PROVE  Rest'
    <3>1. CASE Requests = {}
      <4>1. RowsGrow /\ Quiet
        BY <2>5 DEF AdminRemoves, LiveGuardian, RowsGrow, Inserted, Quiet, IInv, TypeOK
      <4>2. Rows'
        BY <3>1, <4>1 DEF IInv, TypeOK, Trees, Rows, EveryLeafHasARow, RowsGrow, Quiet
      <4> QED BY <3>1, <4>1, <4>2 DEF Rest, IInv, Tickets, Counted, NothingBeyondCounter,
                Alone, AnsweredAloneHasALeaf, SequentialRegistrationsAreSound, ChainLagsBehind,
                Quiet
    <3>2. CASE Requests # {}
      BY <2>5, <3>2, QuietSteps DEF Rest
    <3> QED BY <3>1, <3>2
  <2>6. CASE Restart
    BY <2>6, RestartStep
  <2>7. CASE UNCHANGED vars
    BY <2>7 DEF vars, Rest, IInv, Rows, EveryLeafHasARow, Inserted, Tickets, Counted,
       NothingBeyondCounter, Alone, AnsweredAloneHasALeaf,
       OnItsWay, SequentialRegistrationsAreSound, ChainLagsBehind
  <2> QED BY <2>1, <2>2, <2>3, <2>4, <2>5, <2>6, <2>7 DEF Next
<1> QED BY <1>1, <1>2 DEF Rest, IInv

LEMMA Invariance == Spec => []IInv
<1>1. Init => IInv
  BY Initially
<1>2. IInv /\ [Next]_vars => IInv'
  BY IInvNext
<1> QED BY <1>1, <1>2, PTL DEF Spec

-----------------------------------------------------------------------------
(* Theorems *)

\* Every reachable state is well typed; the counter never passes the number of
\* registrations that exist.
THEOREM TypeCorrect == Spec => []TypeOK
<1>1. IInv => TypeOK
  BY DEF IInv
<1> QED BY <1>1, Invariance, PTL

\* Nothing is in the tree or on chain without a guardian row.
THEOREM LeavesHaveRows == Spec => []EveryLeafHasARow
<1>1. IInv => EveryLeafHasARow
  BY DEF IInv, Rows
<1> QED BY <1>1, Invariance, PTL

\* An answered registration that met no other on its way has a leaf below the
\* counter, whatever the others of this process do.
THEOREM AnsweredAloneHaveALeaf == Spec => []AnsweredAloneHasALeaf
<1>1. IInv => AnsweredAloneHasALeaf
  BY DEF IInv
<1> QED BY <1>1, Invariance, PTL

\* Without overlap and restart, answered registrations fill the tree from the
\* left without a hole.
THEOREM SequentialIsSound == Spec => []SequentialRegistrationsAreSound
<1>1. IInv => SequentialRegistrationsAreSound
  BY DEF IInv
<1> QED BY <1>1, Invariance, PTL

\* Without overlap and restart, the chain is an earlier state of the tree.
THEOREM ChainOnlyLags == Spec => []ChainLagsBehind
<1>1. IInv => ChainLagsBehind
  BY DEF IInv
<1> QED BY <1>1, Invariance, PTL

\* Only SetLeaf writes one leaf, the one at the counter, which no answered
\* number has; a restart empties the tree.
LEMMA AckedStep ==
  ASSUME IInv, [Next]_vars, NEW i \in Leaves, tree[i] \in acked
  PROVE  tree'[i] = tree[i] \/ tree' = EmptyTree
<1>1. i < counter /\ counter \in Nat
  BY DEF IInv, Counted
<1>2. ASSUME NEW r \in Requests, SetLeaf(r) PROVE tree'[i] = tree[i]
  BY <1>1, <1>2, CapacityAssumption DEF SetLeaf, IInv, TypeOK, Trees, Leaves
<1>3. CASE tree' = tree
  BY <1>3
<1>4. CASE Restart
  BY <1>4 DEF Restart
<1> QED BY <1>2, <1>3, <1>4 DEF Next, vars, RegisterGuardian, AdminCreates, AdminPatches,
          InsertUser, MailPin, InsertGuardian, AdminInserts, AdminSaves, BuildTransaction,
          SendTransaction, CountGuardian, Fail, AdminRemoves

\* An answered guardian keeps its leaf while the process lives.
THEOREM AnsweredKeepTheirLeaf == Spec => AckedLeafStays
<1>1. IInv /\ [Next]_vars =>
        [\A i \in Leaves : tree[i] \in acked => tree'[i] = tree[i] \/ tree' = EmptyTree]_vars
  BY AckedStep
<1> QED BY <1>1, Invariance, PTL DEF Spec, AckedLeafStays
=============================================================================
