----------------------------- MODULE Pagination -----------------------------
(***************************************************************************)
(* An administrator walks through the pages of GET users or of GET         *)
(* guardians (src/users/users.controller.ts:50-70, src/guardian/           *)
(* guardians.controller.ts:53-68) while the table changes.                 *)
(*                                                                         *)
(* A page is an offset and a length, counted anew for each request, in the *)
(* order in which the query returns the rows.  For users that is the id:   *)
(* the relations of a user are joined, and TypeORM orders the ids it takes *)
(* a page of.  The query for guardians has no order, so rows come as the   *)
(* table has them, and one that is updated moves.                          *)
(***************************************************************************)
EXTENDS Integers, SequencesExt

CONSTANTS Rows,         \* rows there may be, numbered by their id
          Limits,       \* limits an administrator asks for
          MaxLimit,     \* 50 in the code
          MaxChanges    \* changes during a walk (bound)

\* An id is an integer column.
ASSUME RowsAssumption == Rows \subseteq Nat /\ IsFiniteSet(Rows)
ASSUME LimitsAssumption == Limits \subseteq Nat \ {0} /\ MaxLimit \in Nat \ {0}

VARIABLES
  byId,       \* whether the query orders the rows: users, not guardians
  table,      \* the live rows in the order of the query
  limit,      \* what the walk asks for, 0 when none was started
  page,       \* the page it asks for next
  more,       \* hasNextPage of its last answer
  seen,       \* history: the rows it was given, in order
  stayed,     \* history: the rows that were there all the time
  pulled,     \* history: how many changes pulled a row that was not shown to the
              \* pages already shown
  pushed,     \* history: how many pushed one that was shown to the pages ahead
  changes     \* changes so far

vars == <<byId, table, limit, page, more, seen, stayed, pulled, pushed, changes>>

Sorted(s) == \A p, q \in DOMAIN s : p < q => s[p] < s[q]

\* What the query may return the rows as.
InOrder(s) == byId => Sorted(s)

TypeOK ==
  /\ byId \in BOOLEAN
  /\ table \in Seq(Rows) /\ IsInjective(table) /\ InOrder(table)
  /\ limit \in Limits \cup {0} /\ page \in Nat \ {0} /\ more \in BOOLEAN
  /\ seen \in Seq(Rows) /\ stayed \subseteq ToSet(table)
  /\ pulled \in Nat /\ pushed \in Nat /\ changes \in Nat

Init ==
  /\ byId \in BOOLEAN
  /\ table \in UNION {SetToSeqs(S) : S \in SUBSET Rows} /\ InOrder(table)
  /\ limit = 0 /\ page = 1 /\ more = TRUE
  /\ seen = <<>> /\ stayed = {}
  /\ pulled = 0 /\ pushed = 0 /\ changes = 0

-----------------------------------------------------------------------------
\* if (limit > 50) limit = 50
Capped(n) == IF n > MaxLimit THEN MaxLimit ELSE n

Skip(p, n) == (p - 1) * n

Upto(k) == IF k > Len(table) THEN Len(table) ELSE k

\* Mutant of Find: a page begins with the last row of the one before.
FindOverlapping(p, n) ==
  SubSeq(table, IF p = 1 THEN 1 ELSE Skip(p, n), Upto(Skip(p, n) + n))

\* find({skip, take})
Find(p, n) == SubSeq(table, Skip(p, n) + 1, Upto(Skip(p, n) + n))

\* Mutant of HasNextPage: the limit that was asked for.
HasNextPageAsked(data) == Len(data) = limit
\* Mutant of HasNextPage: a page that is not too long.
HasNextPageAnyway(data) == Len(data) <= Capped(limit)

\* infinityPagination
HasNextPage(data) == Len(data) = Capped(limit)

\* Mutant of Start: the first page is page 0.
StartAtZero(n) ==
  /\ limit = 0
  /\ limit' = n
  /\ page' = 0
  /\ stayed' = ToSet(table)
  /\ UNCHANGED <<byId, table, more, seen, pulled, pushed, changes>>

\* The defaults of the query: page 1.
Start(n) ==
  /\ limit = 0
  /\ limit' = n
  /\ stayed' = ToSet(table)
  /\ UNCHANGED <<byId, table, page, more, seen, pulled, pushed, changes>>

FindAll ==
  /\ limit # 0 /\ more
  /\ LET data == Find(page, Capped(limit)) IN
       /\ seen' = seen \o data
       /\ more' = HasNextPage(data)
  /\ page' = page + 1
  /\ UNCHANGED <<byId, table, limit, stayed, pulled, pushed, changes>>

(* the table changes during the walk ---------------------------------------*)

\* The rows before it are on the pages already shown.
Place == Skip(page, Capped(limit))

Change ==
  /\ limit # 0 /\ more
  /\ changes < MaxChanges /\ changes' = changes + 1
  /\ UNCHANGED <<byId, limit, page, more, seen>>

\* n, or one more when the condition holds.
Counted(n, condition) == IF condition THEN n + 1 ELSE n

Removed(p) ==
  /\ Change
  /\ table' = RemoveAt(table, p)
  /\ stayed' = stayed \ {table[p]}
  /\ pulled' = Counted(pulled, p <= Place)
  /\ UNCHANGED pushed

\* A new row; with a small id when a PATCH names an id nobody has, or when a
\* deleted row is saved once more.
Added(i) ==
  /\ Change
  /\ i \notin ToSet(table)
  /\ \E q \in 1 .. Len(table) + 1 :
       /\ table' = InsertAt(table, q, i)
       /\ pushed' = Counted(pushed, q <= Place \/ i \in ToSet(seen))
  /\ InOrder(table')
  /\ UNCHANGED <<stayed, pulled>>

\* An update writes a new version of the row, in some other place.
Updated(p) ==
  /\ Change /\ ~byId
  /\ \E q \in 1 .. Len(table) :
       LET crosses == (p <= Place) # (q <= Place) IN
         /\ table' = InsertAt(RemoveAt(table, p), q, table[p])
         /\ pulled' = Counted(pulled, crosses)
         /\ pushed' = Counted(pushed, crosses)
  /\ UNCHANGED stayed

Next ==
  \/ \E n \in Limits : Start(n)
  \/ FindAll
  \/ \E p \in DOMAIN table : Removed(p) \/ Updated(p)
  \/ \E i \in Rows : Added(i)

Spec == Init /\ [][Next]_vars

-----------------------------------------------------------------------------
(* Properties *)

\* A walk that ended has shown every row that was there all the time, but for
\* at most one for each row that was removed from the pages already shown, or
\* moved across the place the walk had reached: no change ahead of it hides a row
\* (users.service.ts:27, infinity-pagination.ts:10).
MissesOnlyWhatMoved ==
  limit # 0 /\ ~more => Cardinality(stayed \ ToSet(seen)) <= pulled

\* A walk shows a row twice only when some row came into the pages already shown,
\* moved across the place of the walk, or came back, and not more often than
\* that: a row that is appended disturbs nobody (users.service.ts:27).
RepeatsOnlyWhatMoved == Len(seen) - Cardinality(ToSet(seen)) <= pushed

\* hasNextPage is false in the end: all pages but the last are full, so a walk
\* takes as many as the rows that were there or came in between fill, and one
\* (infinity-pagination.ts:10).
WalkIsShort ==
  limit # 0 => (page - 2) * Capped(limit) <= Cardinality(stayed) + changes + pushed
=============================================================================
