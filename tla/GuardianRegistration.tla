------------------------ MODULE GuardianRegistration ------------------------
(***************************************************************************)
(* How a guardian comes to exist: AuthService.registerGuardian, the rows it *)
(* writes, and OnchainService.registerGuardian, which keeps a Merkle tree   *)
(* and a counter in the memory of the process and commits the tree's root  *)
(* on chain.  The administrator's POST, PATCH and DELETE of src/guardian   *)
(* write the same table.                                                   *)
(*                                                                         *)
(* Columns are abstracted by how the database treats them: "number" stands *)
(* for registrationNumber and companyName (validator and UNIQUE), "wallet" *)
(* for walletAddress and website (validator only).  A leaf, the hash of a  *)
(* guardian, is known by the number of the registration that made it.      *)
(* Between two awaits the code is atomic; the chain accepts a transaction  *)
(* before the handler hears about it, and the handler does not look at     *)
(* what it hears.                                                          *)
(***************************************************************************)
EXTENDS Naturals, FiniteSets

CONSTANTS Emails, Numbers, Wallets,
          Requests,   \* registrations that may be in flight at once (bound)
          Capacity,   \* leaves of MerkleTree(64); setLeaf throws beyond them
          Empty       \* the leaf nothing was written to

ASSUME CapacityAssumption == Capacity \in Nat
ASSUME EmptyAssumption == Empty \notin Numbers
ASSUME NumbersAssumption == IsFiniteSet(Numbers)

VARIABLES
  accounts,    \* e-mail -> role of the user row register() inserted, or "none"
  guardians,   \* number -> guardian row, or NoRow
  tree,        \* OnchainService.guardianTree
  counter,     \* OnchainService.counter
  committed,   \* the tree whose root the chain holds
  req,         \* what each in-flight request holds at its await
  acked,       \* history: numbers whose registration was answered with 204
  crowded      \* history: numbers that were on their way to the chain together
               \* with another one, or were answered by a process that stopped

vars == <<accounts, guardians, tree, counter, committed, req, acked, crowded>>

Leaves == 0 .. Capacity - 1
Trees == [Leaves -> Numbers \cup {Empty}]
EmptyTree == [i \in Leaves |-> Empty]

Form == [email : Emails, number : Numbers, wallet : Wallets, password : BOOLEAN]
Row == [state : {"live", "deleted"}, wallet : Wallets]
NoRow == [state |-> "none"]
Idle == [at |-> "idle"]

InFlight ==
  [at : {"user.insert", "user.mail", "guardian.insert"}, form : Form]
  \cup [at : {"admin.insert", "admin.patch"}, number : Numbers, wallet : Wallets]
  \cup [at : {"leaf", "build"}, number : Numbers]
  \cup [at : {"send", "count"}, number : Numbers, root : Trees]

TypeOK ==
  /\ accounts \in [Emails -> {"none", "user", "guardian"}]
  /\ guardians \in [Numbers -> Row \cup {NoRow}]
  /\ tree \in Trees
  /\ counter \in 0 .. Cardinality(Numbers)
  /\ committed \in Trees
  /\ req \in [Requests -> InFlight \cup {Idle}]
  /\ acked \subseteq Numbers
  /\ crowded \subseteq Numbers

Init ==
  /\ accounts = [e \in Emails |-> "none"]
  /\ guardians = [n \in Numbers |-> NoRow]
  /\ tree = EmptyTree
  /\ counter = 0
  /\ committed = EmptyTree
  /\ req = [r \in Requests |-> Idle]
  /\ acked = {}
  /\ crowded = {}

At(r, label) == req[r].at = label
Becomes(r, rec) == req' = [req EXCEPT ![r] = rec]
Answered(r) == Becomes(r, Idle)

\* findOne hides soft-deleted rows; a UNIQUE constraint does not.
LiveGuardian(n) == guardians[n].state = "live"
Inserted(n) == guardians[n].state # "none"

\* IsNotExist on every decorated field of the two DTOs.
GuardianFieldsAreFree(number, wallet) ==
  /\ ~LiveGuardian(number)
  /\ \A n \in Numbers : LiveGuardian(n) => guardians[n].wallet # wallet

OnItsWay(r) == req[r].at \in {"build", "send", "count"}

\* The numbers that meet when r sets out.
Crowd(r) ==
  LET others == {q \in Requests : OnItsWay(q)} IN
    IF others = {} THEN {} ELSE {req[q].number : q \in others \cup {r}}

-----------------------------------------------------------------------------
\* POST auth/guardian/email/register: the validators, then the choice whether
\* a user is registered as well.
RegisterGuardian(r, form) ==
  /\ At(r, "idle")
  /\ GuardianFieldsAreFree(form.number, form.wallet)
  /\ accounts[form.email] = "none"
  /\ Becomes(r, [at |-> IF form.password THEN "user.insert" ELSE "guardian.insert",
                 form |-> form])
  /\ UNCHANGED <<accounts, guardians, tree, counter, committed, acked, crowded>>

\* Mutant of RegisteredRole: the column is left to its default.
RoleLeftOut == "null"

\* register(): whatever role the caller passed, the row gets the role user.
RegisteredRole == "user"

InsertUser(r) ==
  /\ At(r, "user.insert")
  /\ LET e == req[r].form.email IN
       \/ /\ accounts[e] = "none"
          /\ accounts' = [accounts EXCEPT ![e] = RegisteredRole]
          /\ Becomes(r, [at |-> "user.mail", form |-> req[r].form])
       \/ /\ accounts[e] # "none"
          /\ Answered(r)
          /\ UNCHANGED accounts
  /\ UNCHANGED <<guardians, tree, counter, committed, acked, crowded>>

MailPin(r) ==
  /\ At(r, "user.mail")
  /\ Becomes(r, [at |-> "guardian.insert", form |-> req[r].form])
  /\ UNCHANGED <<accounts, guardians, tree, counter, committed, acked, crowded>>

\* guardianService.create.  A number inserted before, deleted or not, is a
\* unique violation, and the request is refused; otherwise it goes on to next.
InsertRow(r, number, wallet, next) ==
  \/ /\ ~Inserted(number)
     /\ guardians' = [guardians EXCEPT ![number] = [state |-> "live", wallet |-> wallet]]
     /\ Becomes(r, next)
  \/ /\ Inserted(number)
     /\ Answered(r)
     /\ UNCHANGED guardians

InsertGuardian(r) ==
  /\ At(r, "guardian.insert")
  /\ LET form == req[r].form IN
       InsertRow(r, form.number, form.wallet, [at |-> "leaf", number |-> form.number])
  /\ UNCHANGED <<accounts, tree, counter, committed, acked, crowded>>

\* Mutants of SetLeaf: the counter is advanced at once; one leaf too far.
SetLeafAndCount(r) ==
  /\ At(r, "leaf")
  /\ counter < Capacity
  /\ tree' = [tree EXCEPT ![counter] = req[r].number]
  /\ counter' = counter + 1
  /\ Becomes(r, [at |-> "build", number |-> req[r].number])
  /\ crowded' = crowded \cup Crowd(r)
  /\ UNCHANGED <<accounts, guardians, committed, acked>>
SetNextLeaf(r) ==
  /\ At(r, "leaf")
  /\ counter + 1 < Capacity
  /\ tree' = [tree EXCEPT ![counter + 1] = req[r].number]
  /\ Becomes(r, [at |-> "build", number |-> req[r].number])
  /\ crowded' = crowded \cup Crowd(r)
  /\ UNCHANGED <<accounts, guardians, counter, committed, acked>>

\* onchainService.registerGuardian up to its first await.
SetLeaf(r) ==
  /\ At(r, "leaf")
  /\ counter < Capacity
  /\ tree' = [tree EXCEPT ![counter] = req[r].number]
  /\ Becomes(r, [at |-> "build", number |-> req[r].number])
  /\ crowded' = crowded \cup Crowd(r)
  /\ UNCHANGED <<accounts, guardians, counter, committed, acked>>

\* The callback of Mina.transaction reads the root once the accounts it needs
\* were fetched; proving follows.
BuildTransaction(r) ==
  /\ At(r, "build")
  /\ Becomes(r, [at |-> "send", number |-> req[r].number, root |-> tree])
  /\ UNCHANGED <<accounts, guardians, tree, counter, committed, acked, crowded>>

\* addGuardian(..., root) takes effect on chain, or the network refuses it: the
\* promise of send() resolves in both cases and its value is dropped.
SendTransaction(r) ==
  /\ At(r, "send")
  /\ committed' \in {committed, req[r].root}
  /\ Becomes(r, [req[r] EXCEPT !.at = "count"])
  /\ UNCHANGED <<accounts, guardians, tree, counter, acked, crowded>>

\* Mutant of CountGuardian: the counter is not advanced.
CountNothing(r) ==
  /\ At(r, "count")
  /\ acked' = acked \cup {req[r].number}
  /\ Answered(r)
  /\ UNCHANGED <<accounts, guardians, tree, counter, committed, crowded>>

\* send() resolves: counter += 1 and the 204 answer.
CountGuardian(r) ==
  /\ At(r, "count")
  /\ counter' = counter + 1
  /\ acked' = acked \cup {req[r].number}
  /\ Answered(r)
  /\ UNCHANGED <<accounts, guardians, tree, committed, crowded>>

\* POST guardians: the same validators and row, nothing on chain.
AdminCreates(r, number, wallet) ==
  /\ At(r, "idle")
  /\ GuardianFieldsAreFree(number, wallet)
  /\ Becomes(r, [at |-> "admin.insert", number |-> number, wallet |-> wallet])
  /\ UNCHANGED <<accounts, guardians, tree, counter, committed, acked, crowded>>

AdminInserts(r) ==
  /\ At(r, "admin.insert")
  /\ InsertRow(r, req[r].number, req[r].wallet, Idle)
  /\ UNCHANGED <<accounts, tree, counter, committed, acked, crowded>>

\* PATCH guardians/:id.  The payload must carry a registration number of a live
\* row, and any but the row's own is a unique violation; its wallet address is
\* not looked for.
AdminPatches(r, number, wallet) ==
  /\ At(r, "idle")
  /\ LiveGuardian(number)
  /\ Becomes(r, [at |-> "admin.patch", number |-> number, wallet |-> wallet])
  /\ UNCHANGED <<accounts, guardians, tree, counter, committed, acked, crowded>>

\* save(create({id, ...})) reaches a row that was hidden since as well.
AdminSaves(r) ==
  /\ At(r, "admin.patch")
  /\ guardians' = [guardians EXCEPT ![req[r].number].wallet = req[r].wallet]
  /\ Answered(r)
  /\ UNCHANGED <<accounts, tree, counter, committed, acked, crowded>>

\* Mutant of AdminRemoves: delete instead of softDelete.
AdminDeletes(n) ==
  /\ LiveGuardian(n)
  /\ guardians' = [guardians EXCEPT ![n] = NoRow]
  /\ UNCHANGED <<accounts, tree, counter, committed, req, acked, crowded>>

\* DELETE guardians/:id: the row is hidden, its leaf stays.
AdminRemoves(n) ==
  /\ LiveGuardian(n)
  /\ guardians' = [guardians EXCEPT ![n].state = "deleted"]
  /\ UNCHANGED <<accounts, tree, counter, committed, req, acked, crowded>>

\* The awaited call rejects, Field(password) throws, or the tree is full.
Fail(r) ==
  /\ ~At(r, "idle")
  /\ Answered(r)
  /\ UNCHANGED <<accounts, guardians, tree, counter, committed, acked, crowded>>

\* The process restarts: its constructor starts from an empty tree, while the
\* tables and the chain keep what they have.
Restart ==
  /\ tree' = EmptyTree
  /\ counter' = 0
  /\ req' = [r \in Requests |-> Idle]
  /\ crowded' = crowded \cup acked
  /\ UNCHANGED <<accounts, guardians, committed, acked>>

Next ==
  \/ \E r \in Requests, form \in Form : RegisterGuardian(r, form)
  \/ \E r \in Requests, n \in Numbers, w \in Wallets :
       AdminCreates(r, n, w) \/ AdminPatches(r, n, w)
  \/ \E r \in Requests :
       \/ InsertUser(r) \/ MailPin(r) \/ InsertGuardian(r)
       \/ AdminInserts(r) \/ AdminSaves(r)
       \/ SetLeaf(r) \/ BuildTransaction(r) \/ SendTransaction(r) \/ CountGuardian(r)
       \/ Fail(r)
  \/ \E n \in Numbers : AdminRemoves(n)
  \/ Restart

Spec == Init /\ [][Next]_vars

-----------------------------------------------------------------------------
(* Properties *)

\* Nothing is in the tree, in a transaction or on chain that has no guardian
\* row (the row is written first, auth.service.ts:254-255), across failures,
\* overlaps, deletions and restarts.
EveryLeafHasARow ==
  /\ \A i \in Leaves : tree[i] # Empty => Inserted(tree[i])
  /\ \A i \in Leaves : committed[i] # Empty => Inserted(committed[i])

\* A registration that was answered, and met no other on its way to the chain,
\* has a leaf below the counter, whoever overlapped before it and whoever
\* overlaps or fails after it (onchain.service.ts:87-99).  Two that meet write one
\* leaf, and the one that loses it may be answered all the same.
AnsweredAloneHasALeaf ==
  \A n \in acked \ crowded : \E i \in Leaves : i < counter /\ tree[i] = n

\* A guardian whose registration was answered keeps its leaf while the process
\* lives: a later registration, overlapping or failing, never overwrites it
\* (it may overwrite the leaf of one that is still on its way).
AckedLeafStays ==
  [][\A i \in Leaves : tree[i] \in acked => tree'[i] = tree[i] \/ tree' = EmptyTree]_vars

\* As long as registrations do not overlap and no process that answered one has
\* stopped, failures and refused transactions included, every answered
\* registration has a leaf below the counter and there is no hole below it.
SequentialRegistrationsAreSound ==
  crowded = {} =>
    /\ \A n \in acked : \E i \in Leaves : i < counter /\ tree[i] = n
    /\ \A i \in Leaves : i < counter => tree[i] \in acked

\* Then the chain may lag behind the tree but never holds another history: it
\* agrees with the tree up to some leaf k and has nothing beyond k (leaf k may
\* be that of a registration which failed after its transaction was sent).
ChainLagsBehind ==
  crowded = {} =>
    \E k \in 0 .. counter :
      /\ \A i \in Leaves : i < k => committed[i] = tree[i]
      /\ \A i \in Leaves : i > k => committed[i] = Empty

\* 'walletAddressAlreadyExists' (auth-register-guardian-login.dto.ts:91-93): no
\* two guardians have one wallet address.
WalletUnique ==
  \A m, n \in Numbers : LiveGuardian(m) /\ LiveGuardian(n) /\ m # n
    => guardians[m].wallet # guardians[n].wallet
=============================================================================
