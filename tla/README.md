# Verification of the wallet user service

This directory holds TLA+ models of the user service of this repository (a
NestJS application over PostgreSQL, with a Mina zkApp behind it), the TLC runs
that check them on small instances, and proofs checked by TLAPS. Paths below
are relative to the repository; line numbers refer to the files as they are.

## 1. The system

| component | state it keeps | operations | interacts with |
|---|---|---|---|
| auth (`src/auth`) | none of its own; what a handler holds across an await; the tokens it has signed | login, adminLogin, register, registerGuardian, confirmEmail, forgotPassword, resetPassword, me, refresh, logout, update, delete; validateSocialLogin | users, session, forgot, mail, guardian, onchain |
| users (`src/users`) | table `user`, soft-deleted by `deletedAt`; entity hooks that hash password and pin | create, findOne, list, update (partial save), softDelete | auth, validators, onchain |
| session (`src/session`) | table `session` | create, findOne, softDelete by id, by user, by user but one | auth |
| forgot (`src/forgot`) | table `forgot`: reset hashes | create, findOne, softDelete | auth |
| guardian (`src/guardian`) | table `guardian` | create, list, findOne, update, softDelete | auth, onchain |
| onchain (`src/onchain`) | in memory: Merkle tree of guardians and a counter; on chain: the committed root | registerGuardian, sendMina, getBalance, accountIsNew, wallet creation | auth, topup, the Mina network |
| topup, stripe | none | one call each | onchain, the payment service |
| mail, mailer | none | userSignUp, forgotPassword | a mail server |
| social providers (`src/auth-*`) | none | getProfileByToken | auth |
| seeds, migrations (`src/database`) | roles, statuses, first users, one guardian | run-seed at every deploy | all tables |
| files, home, i18n, config, roles, statuses, utils | files on disk or S3, otherwise constants | | |

Every handler is an async function of one Node.js process: between two awaits
it runs alone, at an await every other handler may run. There are no
transactions around a handler and no locks; the database gives one atomic
statement at a time and unique constraints.

What is hard here:

* **Interleavings at awaits.** A handler reads a row, awaits (bcrypt, mail,
  another statement) and writes what it read. `user.save()` writes the row back
  *as it was read*, `usersService.update` writes only the given columns; both
  kinds meet on one table.
* **Hooks that run on save.** `setPassword` and `setPin` look alike and behave
  differently: `previousPassword` is loaded, `previousPin` is not.
* **Sessions against passwords.** A password change closes sessions in one
  statement and writes the password in another; a login checks the password in
  one and inserts a session in another; tokens are not looked up at all.
* **Failure in the middle.** Nothing undoes what a handler wrote before it threw.
* **Soft deletion.** `findOne` hides a deleted row, a unique constraint does
  not, and an eager join yields `null`.
* **Process memory that mirrors the chain**, used across awaits and lost at a
  restart.
* **One account that signs everything.** Whatever the service puts on the chain
  carries the nonce the chain had when it was built; proving takes long, and
  what the network does with a transaction is not looked at.
* **Copies that age.** A token keeps the role of its row, a page the offset of
  its rows, a login the row it found by address or by identity.

What makes each component correct:

* auth and users: a stored password is one hash of what was typed; a used pin
  does not work again unless an administrator writes one; deleting is final; the pin that was mailed works.
* auth and session: an open session belongs to whoever knows the password now;
  a closed session stays closed and its tokens die out; a refresh answers for
  the session it was given.
* seeds: killed anywhere and run again, they leave a database a server can work
  with, and a run repeats.
* guardian and onchain: every leaf has a row; an answered registration keeps
  its leaf and is in the committed root; registrations do not clash.
* social login: one person keeps one account; a login is answered for an account
  that fits the profile; what it saves spoils no password.
* administration: the role of administrator comes from administrators only and
  goes when it is taken; a valid creation is carried out.
* sendMina and top-up: an order moves its amount once or never, to a wallet that
  some user has; every request is answered.
* smart wallet: each moment has one one-time password, the authenticator's.
* lists: a walk through the pages ends and shows every row that stayed.

## 2. Modules

| module | models | state |
|---|---|---|
| `UserEntity` | `user.entity.ts`, and the two ways `UsersService` and `BaseEntity` save a row | none (operators) |
| `AuthService` | the e-mail routes of `auth.service.ts` with session, forgot, users, mail, strategies, and the administrator's POST, PATCH and DELETE of a user | `users`, `sessions`, `forgots` are the tables; `mail` what reached a mailbox; `access`, `refresh` the tokens in the world; `req` what each in-flight request holds; `excused` a history variable |
| `SessionLedger` | the abstract promise of the session table | `ledger`, `owner`, `granting`, `access` |
| `AuthServiceProofs` | theorems about `AuthService` | |
| `GuardianRegistration` | `registerGuardian` of auth and onchain, the guardian table, the administrator's create and delete | `accounts`, `guardians` are the tables; `tree`, `counter` the process; `committed` the chain; `req` the requests; `acked`, `crowded` history variables |
| `AuthRefinementProofs` | the proof that `AuthService` implements `SessionLedger` | |
| `Seeding` | `run-seed.ts` and the four seed services, run once per deployment beside the serving release | `roles`, `statuses`, `accounts`, `guardian` the rows; `step` the place in the script; `outcome`, `server`; `meddled` a history variable |
| `SocialLogin` | `validateSocialLogin` and who else writes the rows it reads, the whole-row saves of `confirmEmail` and `resetPassword` included; reuses `UserEntity` for the hooks | `rows`; `req`; `presented`, `signedIn`, `readdressed`, `disturbed`, `overtaken` are history variables |
| `Administration` | `roles.guard.ts`, the administrators' routes of `users`, where a token gets its role, ids and their sequence, late whole-row saves | `rows`, `nextId`, `sessions`, `tokens`, `req` |
| `FeePayer` | `sendMina` from its two routes, `createSmartWallet`, the network in front of the chain | `holders` the wallets in table `user`; `order`, `req` the requests; `pool`, `nonce`, `applied` the network; `known`, `beside` history variables |
| `Transfers` | the abstract promise of a payment | `payee`, `known`, `fate`, `moved` |
| `Pagination` | the two lists, `infinity-pagination.ts`, and a table that changes during a walk | `byId` which of the lists, `table`; `limit`, `page`, `more` the walk; `changes`; `seen`, `stayed`, `pulled`, `pushed` history variables |
| `OtpSchedule` | the one-time passwords of a smart wallet, `onchain.service.ts:192-207` | none: `Otp(created, i)` is a leaf; `FeePayer` extends it and states of the wallets on the chain that they have their codes |
| `GuardianProofs`, `SeedingProofs`, `SocialProofs`, `AdministrationProofs`, `FeePayerProofs`, `PaginationProofs` | theorems about the module in their name | |
| `MCAuthService`, `MCGuardianRegistration`, `MCSocialLogin`, `MCAdministration` | symmetry sets, the profiles and commands of the instances | |

`AuthService`, `SocialLogin` and `Administration` look at one table from three
sides. `AuthService` keys a row by its address and follows its secrets and its
sessions; in `SocialLogin` the address changes and the identity counts; in
`Administration` the id and the role do. What one of them leaves to another is
present in it as an action of that other's row: registrations, password and
address changes, deletions, and in `SocialLogin` also the saves of whole rows
that `confirmEmail` and `resetPassword` read before.

**How a handler becomes actions.** One action is the code from one database
statement (or mail, signature, chain call) to the next. The first read is
joined with the checks that follow it, since what they compute depends only on
that read (`LoginRead`, `ConfirmRead`, `ResetRead`, `UpdateRead`); a request
refused there changes nothing and has no action. `req[r].at` names the
statement a request is about to run and the other fields are the values the
code holds in local variables. `Fail(r)` is every rejection of the awaited
call, and a restart of the process for that request.

| route | actions |
|---|---|
| POST auth/email/register | `RegisterValidate`, `RegisterInsert`, `RegisterMail` |
| POST auth/email/confirm | `ConfirmRead`, `ConfirmSave` |
| POST auth/email/login, auth/admin/email/login | `LoginRead`, `LoginCreate`, `SignTokens` |
| POST auth/refresh | `RefreshRead`, `SignTokens` |
| POST auth/forgot/password | `ForgotRead`, `ForgotCreate`, `ForgotMail` |
| POST auth/reset/password | `ResetRead`, `ResetRevoke`, `ResetSave`, `ResetConsume` |
| PATCH auth/me (password) | `UpdateRead`, `UpdateRevoke`, `UpdateSave` |
| POST auth/logout, DELETE auth/me | `Logout`, `DeleteMe` |
| POST users; PATCH users/:id (password, status or pin); DELETE users/:id | `AdminCreates`; `AdminSetsPassword`, `AdminSetsStatus`, `AdminSetsPin`; `AdminRemoves` |
| POST auth/guardian/email/register | `RegisterGuardian`, `InsertUser`, `MailPin`, `InsertGuardian`, `SetLeaf`, `BuildTransaction`, `SendTransaction`, `CountGuardian` |
| POST guardians, PATCH and DELETE guardians/:id | `AdminCreates`, `AdminInserts`, `AdminPatches`, `AdminSaves`, `AdminRemoves` |
| POST auth/apple, facebook, google, twitter login | `ReadByEmail`, `ReadByIdentity`, `SaveUser` or `CreateUser` and `ReadCreated`, `CreateSession` |
| auth/email/confirm, auth/reset/password, as `SocialLogin` meets them | `ReadEntity`, `SaveEntity` |
| POST users, PATCH and DELETE users/:id | `AdminCommand`, `Validate`, `Insert`, `Update`, `Remove` |
| GET users, GET guardians | `Start`, `FindAll` |
| POST topup, POST onchain/sendMina | `Receive`, `ReadUser`, `Build`, `Send`, `Rejects`, `OnRejection` |
| POST onchain/createSmartWallet | `Receive`, `Build`, `Send`, `Rejects`, `OnRejection`; its passwords in `OtpSchedule` |
| `npm run seed:run` | `StartRun`, `SeedRole`, `SeedStatuses`, `CountUsers`, `SeedUser`, `SeedGuardian`, `Kill` |

**What is assumed of the libraries** (modelled from how the code uses them):
TypeORM's `findOne` hides soft-deleted rows and ignores a `where` field that is
undefined; an eager relation to a soft-deleted row loads as null; `save()` of a
loaded entity writes every column that differs from the stored row, `deletedAt`
included, and runs the update hooks only then; its SELECT and UPDATE count as
one statement; `save(create({id, ...}))` writes the given columns only, into a
soft-deleted row as well; a unique constraint counts soft-deleted rows. bcrypt
accepts a text against exactly one hash of it; salts are ignored. A signed
token is unforgeable and carries a session id and a user id. The callback of
`Mina.transaction` runs for the last time after the accounts it needs were
fetched, and `addGuardian` commits the root it is given.

The networks of `FeePayer` and `GuardianRegistration` may refuse and drop
whatever they like; `FeePayer`'s applies a transaction only at the account's
nonce, which it then advances. A query with `skip` and `take` over joined
relations is ordered by the id, one over a single table is not ordered; `Pagination` takes
the order of the latter, the list of guardians, to stay the same from one page to
the next, which PostgreSQL does without promising it. A `findOne` without a key
is left free to find any row that fits, also where the database would return
the first.

**What is left out** of these modules: profile columns and the part of
`update` that changes only them; an administrator who clears a password or a pin
with null; in `AuthService` and `GuardianRegistration`
the role checks, which are in `Administration`; the status `pending`, which no
handler tells from `inactive`; guardian rows of the seeds (they are in
`Seeding`); in `FeePayer` fees, balances and the account updates themselves; in
`SocialLogin` the answer of a provider that fails, and tokens.

The models take the tables to have the columns of the entities. The one
migration does not create `user.profileUrl` (`user.entity.ts:113`), so this
needs `DATABASE_SYNCHRONIZE=true`; with the `false` of `env-example:16` every
query of a user fails.

## 3. Runs

Most safety runs use two requests in flight, because each hazard found in
section 1 is a race of one handler with another, and one administrator,
deletions, expiry and failures at any moment. The ids a table may hand out are
finite (`Sessions`, `Hashes`, `Numbers`), so the system stops once they are
used up and its requests are answered: deadlock is not checked there. A walk through
pages and requests that were all answered end as well. `Seeding` never stops and is checked for deadlock.

| run | instance | shows |
|---|---|---|
| `auth_accounts` | one address, not registered; two passwords; one session, one reset hash | `TypeOK`, `StaleSessionExcused`, `SecretsHashed`, `PinIsSingleUse`, `ResurrectionNeedsStaleImage` over the whole life of an account, with an administrator who may create it and write its pin, password and status |
| `auth_liveness` | one seeded address, two sessions, fairness, no symmetry | `RevokedSessionFadesOut`, and `AuthService` implements `SessionLedger` |
| `refresh_other` | two seeded addresses, two sessions | a violation: see the findings |
| `reset_before_confirm` | as `auth_accounts` | a violation |
| `guardian_safety` | one address, three numbers, two wallets, two leaves | `TypeOK`, `EveryLeafHasARow`, `AckedLeafStays`; `AnsweredAloneHasALeaf` for registrations that met no other; `SequentialRegistrationsAreSound`, `ChainLagsBehind` while none met; three numbers for two leaves reach the full tree |
| `wallet_race` | the same, with two addresses | a violation |
| `seeding` | the five seeded addresses, four roles, three statuses: nothing is cut down | `TypeOK`, `ReferencesPresent`, `UserSeedsRerun`, `EachRoleHasAnAccount` |
| `seeding_rerun` | the same | a violation |
| `social_accounts` | one person whose provider gives an address or none, a second address for others, two ids, two logins | `TypeOK`, `SpoiledPasswordExcused`, `RevivalNeedsStaleImage`: what the whole-row saves of a login, of `confirmEmail` and of `resetPassword` do to passwords and deleted rows; `StableProfileHasOneAccount`, `AnswerFitsTheProfile` while logins race for one account |
| `administration` | an administrator, one free id, two requests; commands that give and take the role; fairness, no symmetry | `TypeOK`, `NoAdminFromNowhere`, `DemotionTakesEffect` |
| `fee_payer` | two requests on three routes, amounts 0 and 1, one wallet; a smart wallet created in the first or the last second of a half minute; fairness, no symmetry | `TypeOK`, `LossNeedsOverlap`, `ImplementsTransfers`, `EveryRequestIsAnswered`, `DeployedWalletHasItsCodes` |
| `paging` | five rows in any order, or in that of their ids; limits 1 to 3 with a cap of 2, two changes | `TypeOK`, `MissesOnlyWhatMoved`, `RepeatsOnlyWhatMoved`, `WalkIsShort` |

**Fairness** (in `auth_liveness`, `administration` and `fee_payer`): an
awaited promise settles, so a request at an await takes its next step or fails
(`WF` of that for each request), and an access token reaches its `exp` (`WF` of
`AccessExpires`, of `Expire`). Nothing is assumed about people: no request is
ever obliged to arrive. Nothing is assumed about the Mina network either: a
request is answered although its transaction may never be applied. A refresh
that found its session open, or its user an administrator, before that changed
may still answer; that is why these properties are eventual.

**Findings.** (1) `auth.controller.ts:119` passes the session id where
`refreshToken` reads an object, so the lookup is by `undefined` and a refresh
answers for some open session (`RefreshKeepsSession`). (2) A reset before
confirmation hashes the stored pin again and the mailed pin never confirms the
account (`MailedPinConfirms`). (3) Wallet addresses are
unique by validator only, and two registrations can pass it together
(`WalletUnique`). (4) The guardian seed inserts without the count its template
has, and every run of the script after the first is rejected (`RerunSucceeds`).

Three more disagreements are part of the models and have no run of their own.
The account registered with a guardian is an inactive user, where
`auth.service.ts:226` says "also register as user with guardian role"
(`RegisteredRole`). A profile without an address is first looked up by an
undefined one, which finds any account (`FoundByEmail` of `SocialLogin`). A
PATCH of an id nobody has inserts a row past the sequence of ids, and a later
valid creation is rejected (`Patched` and `Insert` of `Administration`).

**Bounds.** Two requests are enough for every hazard of section 1: each needs
one handler suspended at an await and one that runs past it. Three guardian
numbers over two leaves let the counter reach the end of the tree. Two
passwords tell the old from the new one; a third would only repeat a change. In
`fee_payer` two requests are what it takes for two transactions with one nonce,
or for one that is built after the other was applied. In `paging` the cap is
below the largest limit and five rows make three pages, so that walks with full
and with partial last pages, and limits that are cut, all happen; the number of
changes is what the properties count. `administration` has a second id for a
row to be promoted, and two requests for a save that began before the
administrator lost the role. One session is enough in `auth_accounts` for a
session to outlive its password; that "all sessions" and "all but my own" are
told apart comes up in `auth_liveness`, and for any number of sessions in
`StaleSessionsAreExcused`. In `social_accounts` the provider's address is one
of two that the table may hold, so an account is found by it, has another one,
or none; a provider that changes from one address to another, and a second
person, are left to the theorems.
What the bounds cannot show (more requests, more users, longer histories) is
what the theorems of section 4 are for.

`StaleSessionExcused` is stated with a history variable because the plain
statement (an open session stands for the current password) is not what the
code does: `excused` collects a session in exactly four places, each named in
the comment of the property, and the invariant says there is no fifth.
The other history variables are of the same kind, each as narrow as the code
allows:

* `disturbed` and `readdressed` of `SocialLogin`: the rows a login was about to
  save when something else wrote them, or gave them an address.
* `overtaken` of `SocialLogin`: the requests whose row another statement wrote
  since they last read or saved it. `AnswerFitsTheProfile` is about all others,
  and `RevivalNeedsStaleImage` says that only these bring a row back.
* `crowded` of `GuardianRegistration`: the numbers that were on their way to the
  chain together with another one, and those whose leaf a restart took.
  Two that meet take one leaf and advance the counter twice, so one of them is
  answered without a leaf; `AnsweredAloneHasALeaf` is about all others, also
  when earlier ones had met and the counter had passed a leaf.
* `beside` of `FeePayer`: the transactions that were under way when another was
  built. Two with one nonce are what the code does; `LossNeedsOverlap` says that
  a transaction is lost to such a rival only, and never to one that was over when
  it was built.

`NoAdminFromNowhere` is about the states in which nobody has the power left; it
is not vacuous, since the runs reach them by demoting and deleting the last
administrator and letting the tokens expire.

## 4. Proofs

All theorems hold for every value of the constants that meets the assumptions
of the module; TLC evaluates these in the module's runs. The assumptions say
which values are different from which (an address is no reset hash and not the
value for "no address"), that `Numbers` of `GuardianRegistration` is finite,
that ids are a range of numbers, that amounts are integers, that the
rows of a list are finitely many numbers, and that a wallet is created a minute
after the epoch or later and watched for a quarter of an hour at most.

| module | theorem | says |
|---|---|---|
| `AuthServiceProofs` | `TypeCorrect` | `TypeOK` is invariant |
| | `SecretsStayHashed` | a stored password is one hash of what was typed; no pin is stored as mailed |
| | `StaleSessionsAreExcused` | an open session stands for the current password, but for the four listed exceptions |
| | `PinsAreSingleUse` | a pin that does not match never matches again until an administrator writes one |
| | `ResurrectionsAreStale` | a deleted account comes back only by a save that read it before |
| `AuthRefinementProofs` | `LedgerImplemented` | `AuthService` implements `SessionLedger` |
| | `SessionsAge` | a session keeps its user, and one that was closed is never open again |
| | `FadedSessionsStayFaded` | a closed session that no token and no request about to sign names gets no token again |
| `GuardianProofs` | `TypeCorrect` | `TypeOK`; the counter never passes the number of registrations |
| | `LeavesHaveRows` | every leaf has a row |
| | `AnsweredAloneHaveALeaf` | an answered registration that met no other has a leaf below the counter |
| | `SequentialIsSound`, `ChainOnlyLags` | without overlap and restart, no holes below the counter, and the chain has an earlier state of the tree |
| | `AnsweredKeepTheirLeaf` | an answered registration keeps its leaf while the process lives |
| `SeedingProofs` | `TypeCorrect`, `ReferencesAreThere`, `UserSeedsRepeat`, `RolesHaveAccounts` | the four invariants of `seeding` |
| `SocialProofs` | `TypeCorrect` | `TypeOK` |
| | `StableProfilesAreNotSplit`, `AnswersFit` | one account per profile with one address; an account that was not written since the login read it is live and fits the profile |
| | `SpoiledPasswordsAreExcused`, `RevivalsAreStale` | a password is hashed once unless its row was disturbed; a deleted row comes back only by the save of one that was read before the deletion |
| `AdministrationProofs` | `TypeCorrect`, `NobodyBecomesAdmin` | `TypeOK`, `NoAdminFromNowhere` |
| | `DemotedAccountsStayOut` | an account without the role that no token and no request about to sign names an administrator gets no such token before its row has the role |
| `FeePayerProofs` | `TypeCorrect` | `TypeOK` |
| | `LossesNeedOverlap` | a transaction the network cannot apply any more lost its nonce to one that overlapped with it |
| | `TransfersImplemented` | `FeePayer` implements `Transfers` |
| | `EveryPaymentIsDue` | one transaction at most for a request, of a positive amount, to a wallet some user had |
| | `CodesAreComplete`, `DeployedWalletsHaveTheirCodes` | every moment has one leaf, with its code; so has every wallet on the chain |
| `PaginationProofs` | `TypeCorrect` | `TypeOK` |
| | `WalkMissesOnlyWhatMoved`, `WalkRepeatsOnlyWhatMoved`, `WalkFillsItsPages` | `MissesOnlyWhatMoved`, `RepeatsOnlyWhatMoved`, `WalkIsShort` |
| | `UndisturbedWalks` | a walk whose place nothing crossed shows each row that stayed, and none twice |

**AuthService.** None of these formulas is inductive: each speaks of the
tables, and what a table becomes depends on what a suspended handler holds. The
invariant `IInv` is built in three layers, each preserved by every action.

1. `Base` is `TypeOK` with `References`: every id that a token or a suspended
   handler holds names a row that exists, and the session an update keeps is
   one of its user. Rows are only ever marked as deleted, which keeps this true.
2. `Hashing` says of each stored row *and of each image a handler will save*
   that its password is hashed and its pin is not plain. An image can be saved
   at any later moment, so the statement about the table alone is not inductive.
3. `Staleness` adds to `StaleSessionExcused` what holds between the statement
   that closes sessions and the one that writes the password (`Windows`): a
   session of the user that is open then has been excused, or is the one an
   update keeps.

`PinIsSingleUse` follows from `Base` and `Hashing`: a save that finds a changed
row hashes the pin of its image again, and that image's pin was hashed already
(`SavesSpoilPins`). The one step that writes a pin from outside is the
administrator's, which the property names. `ResurrectionNeedsStaleImage` needs `Base` only.

For `LedgerImplemented`, a session row maps to open, closed or free, its owner
to its `user`, and "granting" to the sessions some request is about to sign
for. The lemmas `Map...` turn a step of the tables into a ledger step, one for
each of open, close, pick, grant, drop and expire; `LedgerReceive`,
`LedgerAdvance` and `LedgerOther` show which one each action of `AuthService`
takes, and that the rest are stutters. `Base` supplies that a request about to
sign holds a session that exists.

**GuardianRegistration.** The counter alone says little, because overlapping
registrations advance it twice for one leaf. The invariant says who owns what:
a number past the insertion of its row has a row (`Rows`); the unique column
gives it to one request, which nobody was answered for (`Tickets`); the counter
counts at most the answers there were, no leaf beyond it is taken, and an
answered number's leaf is below it (`Counted`); and a registration on its way
that met no other is the only one there, has the leaf at the counter and sends
the tree's own root (`Alone`). From `Counted` and `Tickets`, `SetLeaf` never
meets the leaf of an answered number; from `Alone`, a registration that met no
other is answered with its leaf just below the counter, which is
`AnsweredAloneHasALeaf`.

**Seeding.** `References` says which roles and statuses a given step of the
script may rely on; `Untouched`, while nobody meddled, that each account is
missing or as the seeds made it, that those a step is about to insert are
missing, and which roles have an account by then. A run that was killed starts
over at step 1, where nothing is claimed but what is in the tables.

**SocialLogin.** `Addressed` is the unique constraint, kept by each statement
that writes an address. `Held` and `Fits` say that what a login holds by id is
the profile's row, or was at the time; `Fresh` that a request which was not
overtaken still sees the row it read, live and fit for the profile, which is
`AnswerFitsTheProfile` at the last await and leaves only overtaken requests to
revive a row. `Images` says that a login about to save an undisturbed row holds
exactly what is stored, so that its save writes nothing, and that every image
was live; `RowHomes` and `AnswerHomes` that the rows of an identity, and the
accounts a profile with an address was answered for, have one of the addresses
it presented. Two such accounts then have one address, and are one.

**Administration.** `~AdminPower` is inductive with `TypeOK`: rows, tokens and
suspended requests together hold all there is of the role.

**FeePayer.** `SentOnce` (a request has at most one transaction, and none before
it has sent) and `Approved` (a payment that was built is of a positive amount,
to a wallet that was known by then) carry the refinement: applying a
transaction is `Move`, declining is `Decline`, a request for a positive amount
`Ask`, a new user `Know`, and all the rest stutters. That a request moves its
amount at most once counts the transactions in `applied`, a finite set because
each request has one.

For `LossNeedsOverlap`, `Counted` says that the chain has a transaction for each
nonce below its own and that nothing is ahead of it, so a transaction which can
no longer be applied has a rival that was; `Rivals` that two of one nonce, in
whatever state, were built beside each other. Nothing here rests on how the
network chooses between them.

`CodesAreComplete` is a matter of remainders: a start on a half minute makes the
leaves half minutes, 32 of them reach from one before the creation to a quarter
of an hour after it, and the two halves of a minute have one code. A deployment
on the chain was asked for at such a moment, which its order keeps.

**Pagination.** The properties count the elements of sets, so the invariant
does too, and each part holds at every moment, not only when the walk ended.
`Paced` says where the walk is: it was shown as many rows as lie before its
place while there is more, and the table ends before its place once there is
not. `FewOverlooked` bounds the rows behind the place that stayed and were not
shown by `pulled`; `FewShownAgain` the repetitions so far, together with the
shown rows that are ahead and will be repeated, by `pushed`; `FewNewcomers` the
rows that were not there all the time by `changes`. A page moves the place over
exactly the rows it shows (`PageOf`), so it adds nothing to the first and moves
rows within the second; removing, inserting or moving one row shifts the rows
between two places by one, so at most one crosses the place (`RemoveRow`,
`InsertRow`, `MoveRow`), and only in the direction that is counted. Without the
rows that *will* be repeated, the bound on the repetitions is not inductive: the
page that shows them again is no change.

**Only model-checked.** The liveness properties `RevokedSessionFadesOut`,
`DemotionTakesEffect` and `EveryRequestIsAnswered`: liveness under fairness is
beyond the prover. What it can show of the first two is that their end is one
(`FadedSessionsStayFaded`, `DemotedAccountsStayOut`): once reached, no step of
the code leaves it. That it is reached is what TLC checks.

## 5. Not modelled, and why

* Stripe: one sum in doubles and one call; what could go wrong is the rounding
  of binary fractions, which TLC does not have.
* files: a file is stored, then one row, which nothing changes.
* `getBalance`, `accountIsNew`, `createNewWallet`: they keep no state.
  `smartWalletTransfer` has an empty body.
* The calls of the social providers. A provider's error is taken for a profile
  without an id (`auth-facebook.service.ts:30`); `SocialLogin` takes every
  profile to have one.
* A limit or page of 0 in a list, which TypeORM takes for no limit and the
  database rejects as an offset.
* home, i18n and configuration (constants), migrations (generated; their unique
  constraints are guards of the inserts), and the zkApps themselves, whose
  submodule is empty here.
* An address whose registration mail failed, and one whose guardian was refused
  after the account was inserted, cannot be registered again. The models have
  these steps; nothing in the repository says what should hold after them, so no
  property does.

## 6. How the project grew, and what could follow

In this order: `UserEntity` and `AuthService` with `SessionLedger`;
`GuardianRegistration`; `Seeding`; the proofs about `AuthService`;
`GuardianProofs`; `SocialLogin`; `Administration`; `FeePayer` with `Transfers`;
`Pagination` and `OtpSchedule`; their proofs and `SeedingProofs`;
`PaginationProofs`. What could follow:

1. One nonce for `GuardianRegistration` and `FeePayer`: registrations are signed
   by the account that pays, so a payment may displace a registration's
   transaction. Today the network of `GuardianRegistration` may refuse any
   transaction, which includes that one.
2. Profiles without an identity in `SocialLogin`.
