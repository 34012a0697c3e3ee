-------------------------- MODULE PaginationProofs --------------------------
(***************************************************************************)
(* Proofs about Pagination, for all sets of rows and of limits, every cap  *)
(* and any number of changes.  Each property counts the elements of a set; *)
(* the invariant behind it counts a set that grows by one row at most with *)
(* each change that is counted, and with no page:                          *)
(*   Paced          all pages are full while there is more, and the walk   *)
(*                  ends past the end of the table;                        *)
(*   FewOverlooked  the rows behind the walk that were there all the time  *)
(*                  and were not shown are at most as many as were pulled  *)
(*                  there;                                                 *)
(*   FewShownAgain  those that were shown twice, and those that were shown *)
(*                  and are ahead once more, are at most as many as were   *)
(*                  pushed there;                                          *)
(*   FewNewcomers   the rows that are there, or were shown, and were not   *)
(*                  there all the time are at most as many as the changes. *)
(***************************************************************************)
EXTENDS Pagination, FiniteSetTheorems, SequenceTheorems, TLAPS

RowsUpto(s, k) == {s[q] : q \in {x \in DOMAIN s : x <= k}}
RowsAfter(s, k) == {s[q] : q \in {x \in DOMAIN s : x > k}}

Paced ==
  /\ limit = 0 => page = 1 /\ more /\ seen = <<>>
  /\ more => Len(seen) = Place
  /\ ~more => Len(table) <= Place
  /\ (page - 2) * Capped(limit) <= Len(seen)

Overlooked == (RowsUpto(table, Place) \cap stayed) \ ToSet(seen)
ShownAndAhead == RowsAfter(table, Place) \cap ToSet(seen)
Newcomers == (ToSet(seen) \cup ToSet(table)) \ stayed

FewOverlooked == Cardinality(Overlooked) <= pulled
FewShownAgain ==
  Len(seen) - Cardinality(ToSet(seen)) + Cardinality(ShownAndAhead) <= pushed
FewNewcomers == limit # 0 => Cardinality(Newcomers) <= changes

Inv == TypeOK /\ Paced /\ FewOverlooked /\ FewShownAgain /\ FewNewcomers

-----------------------------------------------------------------------------
(* Sequences *)

\* What is left when the row at p goes.
LEMMA RemoveAtIs ==
  ASSUME NEW S, NEW s \in Seq(S), NEW p \in 1 .. Len(s)
  PROVE  /\ RemoveAt(s, p) \in Seq(S)
         /\ Len(RemoveAt(s, p)) = Len(s) - 1
         /\ \A x \in 1 .. Len(s) - 1 :
              RemoveAt(s, p)[x] = IF x < p THEN s[x] ELSE s[x + 1]
  <1> DEFINE a == SubSeq(s, 1, p - 1)
             b == SubSeq(s, p + 1, Len(s))
  <1>1. /\ a \in Seq(S) /\ Len(a) = p - 1
        /\ \A x \in 1 .. p - 1 : a[x] = s[x]
    OBVIOUS
  <1>2. /\ b \in Seq(S) /\ Len(b) = Len(s) - p
        /\ \A x \in 1 .. Len(s) - p : b[x] = s[x + p]
    OBVIOUS
  <1>3. RemoveAt(s, p) = a \o b
    BY DEF RemoveAt
  <1> HIDE DEF a, b
  <1>4. /\ a \o b \in Seq(S) /\ Len(a \o b) = Len(a) + Len(b)
        /\ \A x \in 1 .. Len(a) + Len(b) :
             (a \o b)[x] = IF x <= Len(a) THEN a[x] ELSE b[x - Len(a)]
    BY <1>1, <1>2, ConcatProperties
  <1>5. ASSUME NEW x \in 1 .. Len(s) - 1
        PROVE  RemoveAt(s, p)[x] = IF x < p THEN s[x] ELSE s[x + 1]
    <2>1. CASE x < p
      BY <1>1, <1>2, <1>3, <1>4, <2>1
    <2>2. CASE x >= p
      <3>1. RemoveAt(s, p)[x] = b[x - (p - 1)]
        BY <1>1, <1>2, <1>3, <1>4, <2>2
      <3>2. b[x - (p - 1)] = s[x - (p - 1) + p]
        BY <1>2, <2>2
      <3> QED
        BY <2>2, <3>1, <3>2
    <2> QED
      BY <2>1, <2>2
  <1> QED
    BY <1>1, <1>2, <1>3, <1>4, <1>5

\* What there is when i is put at q.
LEMMA InsertAtIs ==
  ASSUME NEW s \in Seq(Rows), NEW q \in 1 .. Len(s) + 1, NEW i \in Rows,
         NEW t, t = InsertAt(s, q, i)
  PROVE  /\ t \in Seq(Rows) /\ Len(t) = Len(s) + 1
         /\ \A x \in 1 .. Len(s) + 1 :
              t[x] = IF x < q THEN s[x] ELSE IF x = q THEN i ELSE s[x - 1]
  <1> DEFINE a == SubSeq(s, 1, q - 1)
             b == SubSeq(s, q, Len(s))
             c == a \o <<i>>
  <1>1. /\ a \in Seq(Rows) /\ Len(a) = q - 1
        /\ \A x \in 1 .. q - 1 : a[x] = s[x]
    OBVIOUS
  <1>2. /\ b \in Seq(Rows) /\ Len(b) = Len(s) - q + 1
        /\ \A x \in 1 .. Len(s) - q + 1 : b[x] = s[x + q - 1]
    OBVIOUS
  <1>3. t = c \o b
    BY DEF InsertAt
  <1> HIDE DEF a, b
  <1>4. /\ c \in Seq(Rows) /\ Len(c) = q
        /\ \A x \in 1 .. q : c[x] = IF x < q THEN s[x] ELSE i
    BY <1>1, SMTT(30)
  <1> HIDE DEF c
  <1>5. /\ c \o b \in Seq(Rows) /\ Len(c \o b) = Len(c) + Len(b)
        /\ \A x \in 1 .. Len(c) + Len(b) :
             (c \o b)[x] = IF x <= Len(c) THEN c[x] ELSE b[x - Len(c)]
    BY <1>2, <1>4, ConcatProperties
  <1>6. ASSUME NEW x \in 1 .. Len(s) + 1
        PROVE  t[x] = IF x < q THEN s[x] ELSE IF x = q THEN i ELSE s[x - 1]
    <2>1. CASE x <= q
      BY <1>2, <1>3, <1>4, <1>5, <2>1
    <2>2. CASE x > q
      <3>1. t[x] = b[x - q]
        BY <1>2, <1>3, <1>4, <1>5, <2>2
      <3>2. b[x - q] = s[x - q + q - 1]
        BY <1>2, <2>2
      <3> QED
        BY <2>2, <3>1, <3>2
    <2> QED
      BY <2>1, <2>2
  <1> QED
    BY <1>2, <1>3, <1>4, <1>5, <1>6

LEMMA DomainOfSeq ==
  ASSUME NEW S, NEW s \in Seq(S)
  PROVE  /\ DOMAIN s = 1 .. Len(s) /\ Len(s) \in Nat
         /\ \A x \in 1 .. Len(s) : s[x] \in S
  OBVIOUS

LEMMA RowsOf ==
  ASSUME NEW s \in Seq(Rows)
  PROVE  ToSet(s) = {s[x] : x \in 1 .. Len(s)} /\ ToSet(s) \subseteq Rows
  BY DomainOfSeq DEF ToSet

LEMMA RowSets ==
  ASSUME NEW s \in Seq(Rows), NEW k \in Nat
  PROVE  /\ ToSet(s) = {s[x] : x \in 1 .. Len(s)} /\ ToSet(s) \subseteq Rows
         /\ RowsUpto(s, k) \subseteq ToSet(s) /\ RowsAfter(s, k) \subseteq ToSet(s)
         /\ \A r : r \in RowsUpto(s, k) <=> \E x \in 1 .. Len(s) : x <= k /\ r = s[x]
         /\ \A r : r \in RowsAfter(s, k) <=> \E x \in 1 .. Len(s) : x > k /\ r = s[x]
  BY DomainOfSeq DEF ToSet, RowsUpto, RowsAfter

\* How a bound on such a set is shown, place by place.
LEMMA Within ==
  ASSUME NEW s \in Seq(Rows), NEW k \in Nat, NEW A
  PROVE  /\ (\A x \in 1 .. Len(s) : x <= k => s[x] \in A) => RowsUpto(s, k) \subseteq A
         /\ (\A x \in 1 .. Len(s) : x > k => s[x] \in A) => RowsAfter(s, k) \subseteq A
  BY RowSets

\* A row that goes.  One row at most moves up to the first k, the one that came
\* next, and only when the row that goes was one of them.
LEMMA RemoveRow ==
  ASSUME NEW s \in Seq(Rows), IsInjective(s), NEW p \in 1 .. Len(s), NEW k \in Nat,
         NEW t, t = RemoveAt(s, p)
  PROVE  /\ t \in Seq(Rows) /\ IsInjective(t) /\ (Sorted(s) => Sorted(t))
         /\ ToSet(t) = ToSet(s) \ {s[p]}
         /\ RowsUpto(t, k) \subseteq RowsUpto(s, k) \cup {s[k + 1]}
         /\ p > k => RowsUpto(t, k) \subseteq RowsUpto(s, k)
         /\ RowsAfter(t, k) \subseteq RowsAfter(s, k)
  <1> DEFINE at(x) == IF x < p THEN x ELSE x + 1
  <1>1. /\ t \in Seq(Rows) /\ Len(t) = Len(s) - 1 /\ Len(s) \in Nat
        /\ \A x \in 1 .. Len(t) : t[x] = s[at(x)] /\ at(x) \in 1 .. Len(s) /\ at(x) # p
    <2>1. /\ t \in Seq(Rows) /\ Len(t) = Len(s) - 1 /\ Len(s) \in Nat
          /\ \A x \in 1 .. Len(s) - 1 : t[x] = IF x < p THEN s[x] ELSE s[x + 1]
      BY RemoveAtIs, DomainOfSeq
    <2> SUFFICES ASSUME NEW x \in 1 .. Len(t)
                 PROVE  t[x] = s[at(x)] /\ at(x) \in 1 .. Len(s) /\ at(x) # p
      BY <2>1
    <2>2. at(x) \in 1 .. Len(s) /\ at(x) # p
      BY <2>1
    <2> QED
      BY <2>1, <2>2
  <1>2. IsInjective(t)
    <2> SUFFICES ASSUME NEW x \in 1 .. Len(t), NEW y \in 1 .. Len(t), t[x] = t[y]
                 PROVE  x = y
      BY <1>1, DomainOfSeq DEF IsInjective
    <2>1. at(x) = at(y)
      <3> HIDE DEF at
      <3> QED
        BY <1>1, DomainOfSeq DEF IsInjective
    <2> QED
      BY <1>1, <2>1
  <1>3. ASSUME Sorted(s) PROVE Sorted(t)
    <2> SUFFICES ASSUME NEW x \in 1 .. Len(t), NEW y \in 1 .. Len(t), x < y
                 PROVE  t[x] < t[y]
      BY <1>1, DomainOfSeq DEF Sorted
    <2>1. at(x) < at(y)
      BY <1>1
    <2> QED
      BY <1>1, <1>3, <2>1, DomainOfSeq DEF Sorted
  <1>4. ToSet(t) = ToSet(s) \ {s[p]}
    <2>1. \A x \in 1 .. Len(t) : s[at(x)] # s[p]
      <3> HIDE DEF at
      <3> SUFFICES ASSUME NEW x \in 1 .. Len(t) PROVE s[at(x)] # s[p]
        OBVIOUS
      <3> QED
        BY <1>1, DomainOfSeq DEF IsInjective
    <2>2. \A x \in 1 .. Len(s) : x # p => \E y \in 1 .. Len(t) : at(y) = x
      <3> SUFFICES ASSUME NEW x \in 1 .. Len(s), x # p
                   PROVE  \E y \in 1 .. Len(t) : at(y) = x
        OBVIOUS
      <3>1. CASE x < p
        <4>1. x \in 1 .. Len(t) /\ at(x) = x
          BY <1>1, <3>1
        <4> QED
          BY <4>1
      <3>2. CASE x > p
        <4>1. x - 1 \in 1 .. Len(t) /\ at(x - 1) = x
          BY <1>1, <3>2
        <4> QED
          BY <4>1
      <3> QED
        BY <3>1, <3>2
    <2> HIDE DEF at
    <2>3. ToSet(t) \subseteq ToSet(s) \ {s[p]}
      BY <1>1, <2>1, RowSets
    <2>4. ToSet(s) \ {s[p]} \subseteq ToSet(t)
      <3> SUFFICES ASSUME NEW x \in 1 .. Len(s), x # p PROVE s[x] \in ToSet(t)
        BY RowSets
      <3>1. PICK y \in 1 .. Len(t) : at(y) = x
        BY <2>2
      <3>2. t[y] = s[x]
        BY <1>1, <3>1
      <3>3. t[y] \in ToSet(t)
        BY <1>1, RowSets
      <3> QED
        BY <3>2, <3>3
    <2> QED
      BY <2>3, <2>4
  <1>5. RowsUpto(t, k) \subseteq RowsUpto(s, k) \cup {s[k + 1]}
    <2> HIDE DEF at
    <2> SUFFICES ASSUME NEW x \in 1 .. Len(t), x <= k
                 PROVE  t[x] \in RowsUpto(s, k) \cup {s[k + 1]}
      <3>1. \A x \in 1 .. Len(t) : x <= k => t[x] \in RowsUpto(s, k) \cup {s[k + 1]}
        OBVIOUS
      <3> QED
        BY <1>1, <3>1, Within, ZenonT(30)
    <2>1. at(x) <= k \/ at(x) = k + 1
      BY <1>1 DEF at
    <2> QED
      BY <1>1, <2>1, RowSets
  <1>6. ASSUME p > k PROVE RowsUpto(t, k) \subseteq RowsUpto(s, k)
    <2> HIDE DEF at
    <2> SUFFICES ASSUME NEW x \in 1 .. Len(t), x <= k
                 PROVE  t[x] \in RowsUpto(s, k)
      BY <1>1, Within
    <2>1. at(x) <= k
      BY <1>1, <1>6 DEF at
    <2> QED
      BY <1>1, <2>1, RowSets
  <1>7. RowsAfter(t, k) \subseteq RowsAfter(s, k)
    <2> HIDE DEF at
    <2> SUFFICES ASSUME NEW x \in 1 .. Len(t), x > k
                 PROVE  t[x] \in RowsAfter(s, k)
      BY <1>1, Within
    <2>1. at(x) > k
      BY <1>1 DEF at
    <2> QED
      BY <1>1, <2>1, RowSets
  <1> QED
    BY <1>1, <1>2, <1>3, <1>4, <1>5, <1>6, <1>7

\* A row that comes to q.  It is the only one that is new; one row at most moves
\* down from the first k, when it comes to be one of them.
LEMMA InsertRow ==
  ASSUME NEW s \in Seq(Rows), IsInjective(s), NEW q \in 1 .. Len(s) + 1,
         NEW i \in Rows, i \notin ToSet(s), NEW k \in Nat, NEW t, t = InsertAt(s, q, i)
  PROVE  /\ t \in Seq(Rows) /\ IsInjective(t)
         /\ ToSet(t) = ToSet(s) \cup {i}
         /\ RowsUpto(t, k) \subseteq RowsUpto(s, k) \cup {i}
         /\ q <= k => RowsAfter(t, k) \subseteq RowsAfter(s, k) \cup {s[k]}
         /\ q > k => RowsAfter(t, k) \subseteq RowsAfter(s, k) \cup {i}
  <1> DEFINE at(x) == IF x < q THEN x ELSE x - 1
  <1>1. /\ t \in Seq(Rows) /\ Len(t) = Len(s) + 1 /\ Len(s) \in Nat /\ q \in 1 .. Len(t)
        /\ t[q] = i
        /\ \A x \in 1 .. Len(t) \ {q} : t[x] = s[at(x)] /\ at(x) \in 1 .. Len(s)
    <2>1. /\ t \in Seq(Rows) /\ Len(t) = Len(s) + 1 /\ Len(s) \in Nat
          /\ \A x \in 1 .. Len(s) + 1 :
               t[x] = IF x < q THEN s[x] ELSE IF x = q THEN i ELSE s[x - 1]
      BY InsertAtIs, DomainOfSeq, SMTT(30)
    <2>2. ASSUME NEW x \in 1 .. Len(t) \ {q}
          PROVE  t[x] = s[at(x)] /\ at(x) \in 1 .. Len(s)
      <3>1. at(x) \in 1 .. Len(s)
        BY <2>1
      <3> QED
        BY <2>1, <3>1
    <2> HIDE DEF at
    <2> QED
      BY <2>1, <2>2
  <1>2. \A x, y \in 1 .. Len(t) \ {q} : at(x) = at(y) => x = y
    BY <1>1
  <1>3. \A x \in 1 .. Len(t) \ {q} : t[x] # i
    <2> HIDE DEF at
    <2> QED
      BY <1>1, RowSets
  <1>4. IsInjective(t)
    <2> HIDE DEF at
    <2> SUFFICES ASSUME NEW x \in 1 .. Len(t), NEW y \in 1 .. Len(t), t[x] = t[y]
                 PROVE  x = y
      BY <1>1, DomainOfSeq DEF IsInjective
    <2>1. CASE x = q \/ y = q
      BY <1>1, <1>3, <2>1
    <2>2. CASE x # q /\ y # q
      <3>1. at(x) = at(y)
        BY <1>1, <2>2, DomainOfSeq DEF IsInjective
      <3> QED
        BY <1>2, <2>2, <3>1
    <2> QED
      BY <2>1, <2>2
  <1>5. ToSet(t) = ToSet(s) \cup {i}
    <2>1. ToSet(t) \subseteq ToSet(s) \cup {i}
      <3> HIDE DEF at
      <3> QED
        BY <1>1, RowSets
    <2>2. ASSUME NEW x \in 1 .. Len(s) PROVE s[x] \in ToSet(t)
      <3>1. CASE x < q
        <4>1. x \in 1 .. Len(t) \ {q} /\ at(x) = x
          BY <1>1, <3>1
        <4> QED
          BY <1>1, <4>1, RowSets
      <3>2. CASE x >= q
        <4>1. x + 1 \in 1 .. Len(t) \ {q} /\ at(x + 1) = x
          BY <1>1, <3>2
        <4> HIDE DEF at
        <4>2. t[x + 1] = s[x]
          BY <1>1, <4>1
        <4>3. t[x + 1] \in ToSet(t)
          BY <1>1, <4>1, RowsOf
        <4> QED
          BY <4>2, <4>3
      <3> QED
        BY <3>1, <3>2
    <2>3. i \in ToSet(t)
      BY <1>1, RowSets
    <2> QED
      BY <2>1, <2>2, <2>3, RowSets
  <1>6. RowsUpto(t, k) \subseteq RowsUpto(s, k) \cup {i}
    <2> HIDE DEF at
    <2> SUFFICES ASSUME NEW x \in 1 .. Len(t) \ {q}, x <= k
                 PROVE  t[x] \in RowsUpto(s, k)
      <3>1. \A x \in 1 .. Len(t) : x <= k => t[x] \in RowsUpto(s, k) \cup {i}
        BY <1>1
      <3> QED
        BY <1>1, <3>1, Within
    <2>1. at(x) <= k
      BY <1>1 DEF at
    <2> QED
      BY <1>1, <2>1, RowSets
  <1>7. ASSUME q <= k PROVE RowsAfter(t, k) \subseteq RowsAfter(s, k) \cup {s[k]}
    <2> HIDE DEF at
    <2> SUFFICES ASSUME NEW x \in 1 .. Len(t) \ {q}, x > k
                 PROVE  t[x] \in RowsAfter(s, k) \cup {s[k]}
      <3>1. \A x \in 1 .. Len(t) : x > k => t[x] \in RowsAfter(s, k) \cup {s[k]}
        BY <1>1, <1>7
      <3> QED
        BY <1>1, <3>1, Within
    <2>1. at(x) = k \/ at(x) > k
      BY <1>1 DEF at
    <2> QED
      BY <1>1, <2>1, RowSets
  <1>8. ASSUME q > k PROVE RowsAfter(t, k) \subseteq RowsAfter(s, k) \cup {i}
    <2> HIDE DEF at
    <2> SUFFICES ASSUME NEW x \in 1 .. Len(t) \ {q}, x > k
                 PROVE  t[x] \in RowsAfter(s, k)
      <3>1. \A x \in 1 .. Len(t) : x > k => t[x] \in RowsAfter(s, k) \cup {i}
        BY <1>1
      <3> QED
        BY <1>1, <3>1, Within
    <2>1. at(x) > k
      BY <1>1, <1>8 DEF at
    <2> QED
      BY <1>1, <2>1, RowSets
  <1> QED
    BY <1>1, <1>4, <1>5, <1>6, <1>7, <1>8

\* A row that goes from p to q.  When both are among the first k rows, or neither
\* is, those are the same rows as before; else one changes sides each way.
LEMMA MoveRow ==
  ASSUME NEW s \in Seq(Rows), IsInjective(s), NEW p \in 1 .. Len(s), NEW q \in 1 .. Len(s),
         NEW k \in Nat, NEW t, t = InsertAt(RemoveAt(s, p), q, s[p])
  PROVE  /\ t \in Seq(Rows) /\ IsInjective(t) /\ ToSet(t) = ToSet(s)
         /\ p <= k /\ q > k => /\ RowsUpto(t, k) \subseteq RowsUpto(s, k) \cup {s[k + 1]}
                              /\ RowsAfter(t, k) \subseteq RowsAfter(s, k) \cup {s[p]}
         /\ p > k /\ q <= k => /\ RowsUpto(t, k) \subseteq RowsUpto(s, k) \cup {s[p]}
                              /\ RowsAfter(t, k) \subseteq RowsAfter(s, k) \cup {s[k]}
         /\ (p <= k) = (q <= k) => /\ RowsUpto(t, k) \subseteq RowsUpto(s, k)
                                  /\ RowsAfter(t, k) \subseteq RowsAfter(s, k)
  <1> DEFINE u == RemoveAt(s, p)
             i == s[p]
  <1>1. /\ u \in Seq(Rows) /\ IsInjective(u) /\ Len(u) = Len(s) - 1 /\ Len(s) \in Nat
        /\ ToSet(u) = ToSet(s) \ {i} /\ i \in ToSet(s) /\ i \in Rows
    <2>1. u \in Seq(Rows) /\ IsInjective(u) /\ ToSet(u) = ToSet(s) \ {i}
      BY RemoveRow
    <2>2. Len(u) = Len(s) - 1
      BY RemoveAtIs
    <2>3. Len(s) \in Nat /\ i \in ToSet(s) /\ i \in Rows
      BY RowsOf, DomainOfSeq
    <2> QED
      BY <2>1, <2>2, <2>3
  <1>2. /\ RowsUpto(u, k) \subseteq RowsUpto(s, k) \cup {s[k + 1]}
        /\ p > k => RowsUpto(u, k) \subseteq RowsUpto(s, k)
        /\ RowsAfter(u, k) \subseteq RowsAfter(s, k)
    BY RemoveRow
  <1>3. \A x \in 1 .. Len(u) : u[x] = IF x < p THEN s[x] ELSE s[x + 1]
    BY <1>1, RemoveAtIs
  <1>4. /\ p <= k => i \in RowsUpto(s, k)
        /\ p > k => i \in RowsAfter(s, k)
    BY RowSets
  <1> HIDE DEF u
  <1>5. t = InsertAt(u, q, i) /\ q \in 1 .. Len(u) + 1 /\ i \notin ToSet(u)
    BY <1>1 DEF u
  <1> HIDE DEF i
  <1>6. /\ t \in Seq(Rows) /\ IsInjective(t) /\ ToSet(t) = ToSet(u) \cup {i}
        /\ RowsUpto(t, k) \subseteq RowsUpto(u, k) \cup {i}
        /\ q <= k => RowsAfter(t, k) \subseteq RowsAfter(u, k) \cup {u[k]}
        /\ q > k => RowsAfter(t, k) \subseteq RowsAfter(u, k) \cup {i}
    BY <1>1, <1>5, InsertRow
  <1>7. /\ ToSet(t) = ToSet(s) /\ Len(t) = Len(s)
        /\ \A x \in 1 .. Len(s) :
             t[x] = IF x < q THEN u[x] ELSE IF x = q THEN i ELSE u[x - 1]
    <2>1. /\ Len(t) = Len(u) + 1
          /\ \A x \in 1 .. Len(u) + 1 :
               t[x] = IF x < q THEN u[x] ELSE IF x = q THEN i ELSE u[x - 1]
      <3> DEFINE v == InsertAt(u, q, i)
      <3>1. /\ Len(v) = Len(u) + 1
            /\ \A x \in 1 .. Len(u) + 1 :
                 v[x] = IF x < q THEN u[x] ELSE IF x = q THEN i ELSE u[x - 1]
        <4>1. u \in Seq(Rows) /\ i \in Rows /\ q \in 1 .. Len(u) + 1
          BY <1>1, <1>5
        <4> QED
          BY <4>1, InsertAtIs
      <3> HIDE DEF v
      <3>2. t = v
        BY <1>5 DEF v
      <3> QED
        BY <3>1, <3>2, Zenon
    <2>2. Len(u) + 1 = Len(s)
      BY <1>1
    <2>3. ToSet(t) = ToSet(s)
      BY <1>1, <1>6
    <2> QED
      BY <2>1, <2>2, <2>3, Zenon
  <1>8. ASSUME p <= k, q > k
        PROVE  /\ RowsUpto(t, k) \subseteq RowsUpto(s, k) \cup {s[k + 1]}
               /\ RowsAfter(t, k) \subseteq RowsAfter(s, k) \cup {i}
    BY <1>2, <1>4, <1>6, <1>8
  <1>9. ASSUME p > k, q <= k
        PROVE  /\ RowsUpto(t, k) \subseteq RowsUpto(s, k) \cup {i}
               /\ RowsAfter(t, k) \subseteq RowsAfter(s, k) \cup {s[k]}
    <2>1. u[k] = s[k]
      BY <1>1, <1>3, <1>9
    <2> QED
      BY <1>2, <1>6, <1>9, <2>1
  <1>10. ASSUME p > k, q > k
         PROVE  /\ RowsUpto(t, k) \subseteq RowsUpto(s, k)
                /\ RowsAfter(t, k) \subseteq RowsAfter(s, k)
    <2>1. \A x \in 1 .. Len(t) : x <= k => t[x] = s[x]
      <3>1. \A x \in 1 .. Len(t) : x <= k => t[x] = u[x] /\ x \in 1 .. Len(u) /\ x < p
        BY <1>1, <1>7, <1>10
      <3> QED
        BY <1>3, <3>1
    <2>2. RowsUpto(t, k) \subseteq RowsUpto(s, k)
      <3>1. \A x \in 1 .. Len(t) : x <= k => x \in 1 .. Len(s)
        BY <1>10
      <3> QED
        BY <1>6, <2>1, <3>1, RowSets
    <2> QED
      BY <1>2, <1>4, <1>6, <1>10, <2>2
  <1>11. ASSUME p <= k, q <= k
         PROVE  /\ RowsUpto(t, k) \subseteq RowsUpto(s, k)
                /\ RowsAfter(t, k) \subseteq RowsAfter(s, k)
    <2>1. /\ Len(t) = Len(s)
          /\ \A x \in 1 .. Len(t) :
               t[x] = IF x < q THEN u[x] ELSE IF x = q THEN i ELSE u[x - 1]
      BY <1>7
    <2>2. ASSUME NEW x \in 1 .. Len(t), x <= k PROVE t[x] \in RowsUpto(s, k)
      <3>1. CASE x < q
        <4>1. x \in 1 .. Len(u) /\ x + 1 <= k /\ x + 1 \in 1 .. Len(s)
          BY <1>1, <1>11, <3>1
        <4>2. t[x] = s[x] \/ t[x] = s[x + 1]
          BY <1>3, <2>1, <3>1, <4>1
        <4> QED
          BY <1>1, <2>1, <2>2, <4>1, <4>2, RowSets
      <3>2. CASE x = q
        BY <1>4, <1>11, <2>1, <3>2
      <3>3. CASE x > q
        <4>1. x - 1 \in 1 .. Len(u) /\ x - 1 <= k /\ x - 1 \in 1 .. Len(s) /\ x - 1 + 1 = x
          BY <1>1, <2>1, <2>2, <3>3
        <4>2. t[x] = s[x - 1] \/ t[x] = s[x]
          BY <1>3, <2>1, <3>3, <4>1
        <4> QED
          BY <1>1, <2>1, <2>2, <4>1, <4>2, RowSets
      <3> QED
        BY <3>1, <3>2, <3>3
    <2>3. ASSUME NEW x \in 1 .. Len(t), x > k PROVE t[x] \in RowsAfter(s, k)
      <3>1. x - 1 \in 1 .. Len(u) /\ x > q /\ x - 1 >= p /\ x - 1 + 1 = x
        BY <1>1, <1>11, <2>1, <2>3
      <3>2. t[x] = s[x]
        BY <1>3, <2>1, <3>1
      <3> QED
        BY <2>1, <2>3, <3>2, RowSets
    <2>4. RowsUpto(t, k) \subseteq RowsUpto(s, k)
      BY <1>6, <2>2, RowSets
    <2>5. RowsAfter(t, k) \subseteq RowsAfter(s, k)
      BY <1>6, <2>3, RowSets
    <2> QED
      BY <2>4, <2>5
  <1> QED
    BY <1>6, <1>7, <1>8, <1>9, <1>10, <1>11 DEF i

LEMMA CountOfSeq ==
  ASSUME NEW d \in Seq(Rows), IsInjective(d)
  PROVE  Cardinality(ToSet(d)) = Len(d)
  <1>1. d \in Bijection(1 .. Len(d), ToSet(d))
    BY DomainOfSeq DEF Bijection, Injection, Surjection, IsInjective, ToSet
  <1> QED
    BY <1>1, DomainOfSeq, FS_CountingElements DEF ExistsBijection

LEMMA CountTo ==
  ASSUME NEW n \in Nat
  PROVE  IsFiniteSet(1 .. n) /\ Cardinality(1 .. n) = n
  <1>1. IsFiniteSet(1 .. n) /\ Cardinality(1 .. n) = IF 1 > n THEN 0 ELSE n - 1 + 1
    BY FS_Interval
  <1> QED
    BY <1>1

LEMMA FewerThanPlaces ==
  ASSUME NEW d \in Seq(Rows)
  PROVE  Cardinality(ToSet(d)) <= Len(d)
  <1>1. d \in Surjection(1 .. Len(d), ToSet(d)) /\ Len(d) \in Nat
    BY DomainOfSeq DEF Surjection, ToSet
  <1> QED
    BY <1>1, CountTo, FS_Surjection

\* The converse: no row is there twice when there are as many rows as places.
LEMMA ShownOnce ==
  ASSUME NEW d \in Seq(Rows), Cardinality(ToSet(d)) = Len(d)
  PROVE  IsInjective(d)
  <1>1. d \in Surjection(1 .. Len(d), ToSet(d)) /\ Len(d) \in Nat
    BY DomainOfSeq DEF Surjection, ToSet
  <1>4. d \in Injection(1 .. Len(d), ToSet(d))
    BY <1>1, CountTo, FS_Surjection
  <1> QED
    BY <1>4 DEF Injection

\* d has the n rows after the first k, or those of them that there are.
IsPage(s, k, n, d) ==
  /\ d \in Seq(Rows) /\ Cardinality(ToSet(d)) = Len(d) /\ Len(d) <= n
  /\ ToSet(d) \subseteq RowsAfter(s, k)
  /\ RowsUpto(s, k + n) \subseteq RowsUpto(s, k) \cup ToSet(d)
  /\ RowsAfter(s, k + n) \subseteq RowsAfter(s, k) \ ToSet(d)
  /\ Len(d) # n => Len(s) <= k + n

LEMMA PageOf ==
  ASSUME NEW s \in Seq(Rows), IsInjective(s), NEW k \in Nat, NEW n \in Nat,
         NEW m, m = IF k + n > Len(s) THEN Len(s) ELSE k + n,
         NEW d, d = SubSeq(s, k + 1, m)
  PROVE  IsPage(s, k, n, d)
  <1>1. m \in Nat /\ Len(s) \in Nat /\ m <= Len(s) /\ m <= k + n
    BY DomainOfSeq
  <1>2. \A x \in 1 .. Len(s) : x <= k + n <=> x <= m
    BY <1>1
  <1>3. m < k + n => m = Len(s)
    BY <1>1
  <1>4. /\ d \in Seq(Rows)
        /\ Len(d) = IF k + 1 <= m THEN m - k ELSE 0
        /\ \A x \in 1 .. Len(d) : d[x] = s[x + k] /\ x + k \in 1 .. m
    <2>1. \A x \in k + 1 .. m : s[x] \in Rows
      BY <1>1, DomainOfSeq
    <2>2. /\ d \in Seq(Rows) /\ Len(d) = IF k + 1 <= m THEN m - (k + 1) + 1 ELSE 0
          /\ \A x \in 1 .. m - (k + 1) + 1 : d[x] = s[k + 1 + x - 1]
      BY <1>1, <2>1, SubSeqProperties
    <2> QED
      BY <1>1, <2>2
  <1>5. ToSet(d) = {s[y] : y \in k + 1 .. m}
    <2>1. ASSUME NEW y \in k + 1 .. m PROVE s[y] \in ToSet(d)
      <3>1. y - k \in 1 .. Len(d) /\ y - k + k = y
        BY <1>1, <1>4
      <3>2. d[y - k] = s[y]
        BY <1>4, <3>1
      <3>3. d[y - k] \in ToSet(d)
        <4>1. DOMAIN d = 1 .. Len(d)
          BY <1>4, DomainOfSeq
        <4> QED
          BY <3>1, <4>1 DEF ToSet
      <3> QED
        BY <3>2, <3>3
    <2>2. ASSUME NEW x \in 1 .. Len(d) PROVE d[x] \in {s[y] : y \in k + 1 .. m}
      <3>1. x + k \in k + 1 .. m /\ d[x] = s[x + k]
        BY <1>1, <1>4
      <3> QED
        BY <3>1
    <2>3. ASSUME NEW r \in ToSet(d) PROVE r \in {s[y] : y \in k + 1 .. m}
      <3>1. ToSet(d) = {d[x] : x \in 1 .. Len(d)}
        BY <1>4, RowsOf
      <3>2. PICK x \in 1 .. Len(d) : r = d[x]
        BY <3>1
      <3> QED
        BY <2>2, <3>2
    <2> QED
      BY <2>1, <2>3
  <1>6. IsInjective(d)
    <2> SUFFICES ASSUME NEW x \in 1 .. Len(d), NEW y \in 1 .. Len(d), d[x] = d[y]
                 PROVE  x = y
      <3>1. DOMAIN d = 1 .. Len(d)
        BY <1>4, DomainOfSeq
      <3> QED
        BY <3>1, SMTT(30) DEF IsInjective
    <2>1. x + k = y + k
      <3>1. x + k \in DOMAIN s /\ y + k \in DOMAIN s /\ s[x + k] = s[y + k]
        BY <1>1, <1>4, DomainOfSeq
      <3> QED
        BY <3>1 DEF IsInjective
    <2> QED
      BY <2>1
  <1>7. ToSet(d) \subseteq RowsAfter(s, k)
    <2>1. \A y \in k + 1 .. m : y \in 1 .. Len(s) /\ y > k
      BY <1>1
    <2> QED
      BY <1>5, <2>1, RowSets
  <1>8. RowsUpto(s, k + n) \subseteq RowsUpto(s, k) \cup ToSet(d)
    <2> SUFFICES ASSUME NEW y \in 1 .. Len(s), y <= k + n
                 PROVE  s[y] \in RowsUpto(s, k) \cup ToSet(d)
      BY RowSets
    <2>1. y <= k \/ y \in k + 1 .. m
      BY <1>1, <1>2
    <2> QED
      BY <1>5, <2>1, RowSets
  <1>9. RowsAfter(s, k + n) \subseteq RowsAfter(s, k) \ ToSet(d)
    <2> SUFFICES ASSUME NEW y \in 1 .. Len(s), y > k + n
                 PROVE  s[y] \in RowsAfter(s, k) /\ s[y] \notin ToSet(d)
      BY RowSets
    <2>1. y > k /\ \A x \in k + 1 .. m : x \in 1 .. Len(s) /\ x # y
      BY <1>1
    <2>2. s[y] \notin ToSet(d)
      BY <1>5, <2>1, DomainOfSeq DEF IsInjective
    <2> QED
      BY <2>1, <2>2, RowSets
  <1>10. Len(d) <= n /\ (Len(d) # n => Len(s) <= k + n)
    BY <1>1, <1>3, <1>4
  <1> QED
    BY <1>4, <1>6, <1>7, <1>8, <1>9, <1>10, CountOfSeq DEF IsPage

-----------------------------------------------------------------------------
(* Counting *)

LEMMA RowsAreFew ==
  ASSUME NEW A, A \subseteq Rows
  PROVE  IsFiniteSet(A) /\ Cardinality(A) \in Nat
  BY RowsAssumption, FS_Subset, FS_CardinalityType

LEMMA NoMore ==
  ASSUME NEW A, A \subseteq Rows, NEW B, B \subseteq A
  PROVE  Cardinality(B) \in Nat /\ Cardinality(B) <= Cardinality(A)
  BY RowsAreFew, FS_Subset, FS_CardinalityType

LEMMA OneMore ==
  ASSUME NEW A, A \subseteq Rows, NEW r, NEW B, B \subseteq A \cup {r}
  PROVE  Cardinality(B) \in Nat /\ Cardinality(B) <= Cardinality(A) + 1
  <1>1. IsFiniteSet(A) /\ Cardinality(A) \in Nat
    BY RowsAreFew
  <1>2. IsFiniteSet(A \cup {r}) /\ Cardinality(A \cup {r}) <= Cardinality(A) + 1
    <2>1. /\ IsFiniteSet(A \cup {r})
          /\ \/ Cardinality(A \cup {r}) = Cardinality(A)
             \/ Cardinality(A \cup {r}) = Cardinality(A) + 1
      BY <1>1, FS_AddElement, Zenon
    <2> QED
      BY <1>1, <2>1
  <1>3. Cardinality(B) <= Cardinality(A \cup {r}) /\ IsFiniteSet(B)
    BY <1>2, FS_Subset
  <1>4. Cardinality(B) \in Nat /\ Cardinality(A \cup {r}) \in Nat
    BY <1>2, <1>3, FS_CardinalityType
  <1> QED
    BY <1>1, <1>2, <1>3, <1>4

LEMMA Places ==
  ASSUME TypeOK
  PROVE  /\ Capped(limit) \in Nat /\ (limit # 0 => Capped(limit) > 0)
         /\ Place \in Nat /\ Place = (page - 1) * Capped(limit)
  <1>1. Capped(limit) \in Nat /\ (limit # 0 => Capped(limit) > 0)
    BY LimitsAssumption DEF TypeOK, Capped
  <1>2. page - 1 \in Nat
    BY DEF TypeOK
  <1>3. \A a, b \in Nat : a * b \in Nat
    OBVIOUS
  <1> QED
    BY <1>1, <1>2, <1>3 DEF Place, Skip

\* The sets that are counted are sets of rows.
LEMMA CountedRows ==
  ASSUME TypeOK
  PROVE  /\ ToSet(table) \subseteq Rows /\ ToSet(seen) \subseteq Rows /\ stayed \subseteq Rows
         /\ Overlooked \subseteq Rows /\ ShownAndAhead \subseteq Rows /\ Newcomers \subseteq Rows
         /\ Len(seen) \in Nat /\ Len(table) \in Nat
         /\ Cardinality(ToSet(seen)) \in Nat /\ Cardinality(stayed) \in Nat
         /\ Cardinality(Overlooked) \in Nat /\ Cardinality(ShownAndAhead) \in Nat
         /\ Cardinality(Newcomers) \in Nat
  <1>1. /\ ToSet(table) \subseteq Rows /\ ToSet(seen) \subseteq Rows /\ stayed \subseteq Rows
        /\ Len(seen) \in Nat /\ Len(table) \in Nat
    BY RowsOf, DomainOfSeq DEF TypeOK
  <1>2. Overlooked \subseteq Rows /\ ShownAndAhead \subseteq Rows /\ Newcomers \subseteq Rows
    BY <1>1 DEF Overlooked, ShownAndAhead, Newcomers
  <1> QED
    BY <1>1, <1>2, RowsAreFew

-----------------------------------------------------------------------------
(* The invariant *)

LEMMA InitInv == Init => Inv
  <1> SUFFICES ASSUME Init PROVE Inv
    OBVIOUS
  <1>1. table \in Seq(Rows) /\ IsInjective(table)
    <2>1. PICK S \in SUBSET Rows : table \in SetToSeqs(S)
      BY DEF Init
    <2>2. Cardinality(S) \in Nat
      BY RowsAreFew
    <2>3. table \in [1 .. Cardinality(S) -> S]
      BY <2>1 DEF SetToSeqs
    <2>4. table \in Seq(Rows) /\ DOMAIN table = 1 .. Cardinality(S)
      BY <2>2, <2>3
    <2> QED
      BY <2>1, <2>4 DEF SetToSeqs, IsInjective
  <1>2. TypeOK
    BY <1>1 DEF Init, TypeOK
  <1>3. Len(seen) = 0 /\ ToSet(seen) = {} /\ Place = 0 /\ Capped(limit) = 0
    BY LimitsAssumption DEF Init, ToSet, Place, Skip, Capped
  <1>4. Paced
    BY <1>3 DEF Paced, Init
  <1>5. Overlooked = {} /\ ShownAndAhead = {} /\ Cardinality(ToSet(seen)) = 0
    BY <1>3, FS_EmptySet DEF Init, Overlooked, ShownAndAhead
  <1>6. FewOverlooked /\ FewShownAgain /\ FewNewcomers
    BY <1>3, <1>5, FS_EmptySet DEF Init, FewOverlooked, FewShownAgain, FewNewcomers
  <1> QED
    BY <1>2, <1>4, <1>6 DEF Inv

LEMMA StartKeepsInv ==
  ASSUME Inv, NEW n \in Limits, Start(n)
  PROVE  Inv'
  <1>1. /\ limit = 0 /\ page = 1 /\ more /\ seen = <<>> /\ limit' = n /\ n # 0
        /\ stayed' = ToSet(table) /\ TypeOK
        /\ UNCHANGED <<byId, table, page, more, seen, pulled, pushed, changes>>
    BY LimitsAssumption DEF Inv, Paced, Start
  <1>2. TypeOK'
    BY <1>1 DEF TypeOK, InOrder
  <1>3. Capped(limit)' \in Nat
    BY <1>2, LimitsAssumption DEF TypeOK, Capped
  <1>4. Place' = 0 /\ Len(seen') = 0 /\ ToSet(seen') = {}
    BY <1>1, <1>3 DEF Place, Skip, ToSet
  <1>5. Paced'
    BY <1>1, <1>3, <1>4 DEF Paced
  <1>6. RowsUpto(table', 0) = {}
    BY <1>2, DomainOfSeq DEF RowsUpto, TypeOK
  <1>7. Overlooked' = {} /\ ShownAndAhead' = {} /\ Newcomers' = {}
    BY <1>1, <1>4, <1>6 DEF Overlooked, ShownAndAhead, Newcomers
  <1>8. FewOverlooked' /\ FewShownAgain' /\ FewNewcomers'
    BY <1>2, <1>4, <1>7, FS_EmptySet DEF FewOverlooked, FewShownAgain, FewNewcomers, TypeOK
  <1> QED
    BY <1>2, <1>5, <1>8 DEF Inv

\* A page of e rows, g of which were shown before: the repetitions grow by what the
\* shown rows ahead, h of them, shrink by at least.
LEMMA SameRepeats ==
  ASSUME NEW l \in Nat, NEW a \in Nat, NEW e \in Nat, NEW g \in Nat,
         NEW h \in Nat, NEW h2 \in Nat, NEW p \in Nat,
         l - a + h <= p, h2 <= h - g
  PROVE  l + e - (a + e - g) + h2 <= p
  OBVIOUS

LEMMA FindAllKeepsInv ==
  ASSUME Inv, FindAll
  PROVE  Inv'
  <1> DEFINE n == Capped(limit)
             d == Find(page, n)
  <1>1. /\ TypeOK /\ limit # 0 /\ more /\ seen' = seen \o d /\ more' = (Len(d) = n)
        /\ page' = page + 1
        /\ UNCHANGED <<byId, table, limit, stayed, pulled, pushed, changes>>
    BY DEF Inv, FindAll, HasNextPage
  <1>2. n \in Nat /\ n > 0 /\ Place \in Nat /\ Place = (page - 1) * n /\ Len(seen) = Place
    BY <1>1, Places DEF Inv, Paced
  <1>3. Place' = Place + n /\ Capped(limit)' = n /\ (page' - 2) * n = Place
    <2>1. Capped(limit)' = n /\ page \in Nat
      BY <1>1 DEF Capped, TypeOK
    <2>2. Place' = page * n /\ (page' - 2) * n = (page - 1) * n
      BY <1>1, <2>1 DEF Place, Skip
    <2> HIDE DEF n
    <2>3. page * n = (page - 1) * n + n
      BY <1>2, <2>1
    <2> QED
      BY <1>2, <2>1, <2>2, <2>3
  <1> DEFINE m == Upto(Place + n)
  <1>4. /\ d = SubSeq(table, Place + 1, m)
        /\ m = IF Place + n > Len(table) THEN Len(table) ELSE Place + n
    BY DEF Find, Upto, Place
  <1> HIDE DEF n, d, m
  <1>5. /\ d \in Seq(Rows) /\ Cardinality(ToSet(d)) = Len(d) /\ Len(d) <= n
        /\ ToSet(d) \subseteq RowsAfter(table, Place)
        /\ RowsUpto(table, Place + n) \subseteq RowsUpto(table, Place) \cup ToSet(d)
        /\ RowsAfter(table, Place + n) \subseteq RowsAfter(table, Place) \ ToSet(d)
        /\ Len(d) # n => Len(table) <= Place + n
    <2>1. /\ table \in Seq(Rows) /\ IsInjective(table) /\ n \in Nat /\ Place \in Nat
      BY <1>1, <1>2 DEF TypeOK
    <2>2. IsPage(table, Place, n, d)
      BY <1>4, <2>1, PageOf
    <2> QED
      BY <2>2 DEF IsPage
  <1>6. /\ seen' \in Seq(Rows) /\ Len(seen') = Len(seen) + Len(d) /\ Len(d) \in Nat
        /\ ToSet(seen') = ToSet(seen) \cup ToSet(d)
    <2>1. seen \in Seq(Rows) /\ d \in Seq(Rows)
      BY <1>1, <1>5 DEF TypeOK
    <2>2. /\ seen' \in Seq(Rows) /\ Len(seen') = Len(seen) + Len(d) /\ Len(d) \in Nat
      BY <1>1, <2>1, ConcatProperties
    <2>3. Range(seen') = Range(seen) \cup Range(d)
      BY <1>1, <2>1, RangeConcatenation
    <2> QED
      BY <2>2, <2>3 DEF Range, ToSet
  <1>7. TypeOK'
    BY <1>1, <1>6 DEF TypeOK, InOrder
  <1>8. Paced'
    <2>1. more' => Len(seen') = Place'
      BY <1>1, <1>2, <1>3, <1>6
    <2>2. ~more' => Len(table') <= Place'
      BY <1>1, <1>3, <1>5
    <2>3. (page' - 2) * Capped(limit)' <= Len(seen')
      BY <1>2, <1>3, <1>6
    <2> QED
      BY <1>1, <2>1, <2>2, <2>3 DEF Paced
  <1>9. FewOverlooked'
    <2>1. Overlooked' \subseteq Overlooked
      BY <1>1, <1>3, <1>5, <1>6 DEF Overlooked
    <2> QED
      BY <1>1, <2>1, CountedRows, NoMore DEF Inv, FewOverlooked, TypeOK
  <1>10. FewShownAgain'
    <2> DEFINE A == ToSet(seen)
               D == ToSet(d)
               again == A \cap D
    <2>1. /\ A \subseteq Rows /\ D \subseteq Rows
      BY <1>1, <1>5, CountedRows, RowsOf
    <2>2. /\ again \subseteq ShownAndAhead
          /\ ShownAndAhead' \subseteq ShownAndAhead \ again
      BY <1>1, <1>3, <1>5, <1>6 DEF ShownAndAhead
    <2>3. /\ IsFiniteSet(A) /\ IsFiniteSet(D) /\ IsFiniteSet(ShownAndAhead)
          /\ Cardinality(A) \in Nat /\ Cardinality(D) \in Nat
          /\ Cardinality(again) \in Nat /\ IsFiniteSet(again)
      BY <1>1, <2>1, CountedRows, RowsAreFew
    <2> HIDE DEF A, D
    <2>4. Cardinality(ToSet(seen')) = Cardinality(A) + Cardinality(D) - Cardinality(again)
      BY <1>6, <2>3, FS_Union DEF A, D
    <2>5. Cardinality(ShownAndAhead') <= Cardinality(ShownAndAhead) - Cardinality(again)
      <3>1. Cardinality(ShownAndAhead \ again) = Cardinality(ShownAndAhead) - Cardinality(again)
        <4>1. ShownAndAhead \cap again = again
          BY <2>2
        <4>2. Cardinality(ShownAndAhead \ again)
                = Cardinality(ShownAndAhead) - Cardinality(ShownAndAhead \cap again)
          BY <2>3, FS_Difference, Zenon
        <4> QED
          BY <4>1, <4>2, Zenon
      <3>2. Cardinality(ShownAndAhead') <= Cardinality(ShownAndAhead \ again)
        BY <1>1, <2>2, CountedRows, NoMore
      <3> QED
        BY <3>1, <3>2
    <2>6. Cardinality(D) = Len(d) /\ Cardinality(ShownAndAhead) \in Nat
          /\ Cardinality(ShownAndAhead') \in Nat
      BY <1>1, <1>5, <2>2, CountedRows, NoMore DEF D
    <2>7. Len(seen) - Cardinality(A) + Cardinality(ShownAndAhead) <= pushed
      BY DEF Inv, FewShownAgain, A
    <2>8. pushed \in Nat /\ Len(seen) \in Nat /\ Len(d) \in Nat /\ pushed' = pushed
      BY <1>1, <1>6, CountedRows DEF TypeOK
    <2>9. Len(seen') - Cardinality(ToSet(seen')) + Cardinality(ShownAndAhead') <= pushed'
      <3>1. Len(seen') = Len(seen) + Len(d)
        BY <1>6
      <3>2. Cardinality(ToSet(seen')) = Cardinality(A) + Len(d) - Cardinality(again)
        BY <2>4, <2>6
      <3>3. Len(seen) + Len(d) - (Cardinality(A) + Len(d) - Cardinality(again))
              + Cardinality(ShownAndAhead') <= pushed
        BY <2>3, <2>5, <2>6, <2>7, <2>8, SameRepeats
      <3> QED
        <4> DEFINE all == Cardinality(A) + Len(d) - Cardinality(again)
        <4> HIDE DEF all
        <4>1. Len(seen) + Len(d) - all + Cardinality(ShownAndAhead') <= pushed
          BY <3>3 DEF all
        <4>2. Cardinality(ToSet(seen')) = all
          BY <3>2 DEF all
        <4>3. all \in Int
          BY <2>3, <2>8 DEF all
        <4> QED
          BY <2>6, <2>8, <3>1, <4>1, <4>2, <4>3
    <2> QED
      BY <2>9 DEF FewShownAgain
  <1>11. FewNewcomers'
    <2>1. Newcomers' \subseteq Newcomers
      <3>1. ToSet(d) \subseteq ToSet(table)
        BY <1>1, <1>2, <1>5, RowSets DEF TypeOK
      <3> QED
        BY <1>1, <1>6, <3>1 DEF Newcomers
    <2>2. Cardinality(Newcomers') \in Nat /\ Cardinality(Newcomers') <= Cardinality(Newcomers)
      BY <1>1, <2>1, CountedRows, NoMore
    <2>3. Cardinality(Newcomers) \in Nat /\ Cardinality(Newcomers) <= changes /\ changes \in Nat
      BY <1>1, CountedRows DEF Inv, FewNewcomers, TypeOK
    <2> QED
      BY <1>1, <2>2, <2>3 DEF FewNewcomers
  <1> QED
    BY <1>7, <1>8, <1>9, <1>10, <1>11 DEF Inv

\* B has no more elements than A, or one more when the counter goes up.
Bounded(A, B, n, m) ==
  \/ B \subseteq A /\ m >= n
  \/ m = n + 1 /\ \E r : B \subseteq A \cup {r}

LEMMA BoundedCount ==
  ASSUME NEW A, A \subseteq Rows, NEW B, NEW n \in Int, NEW m \in Int, Bounded(A, B, n, m),
         NEW k \in Int, k + Cardinality(A) <= n
  PROVE  Cardinality(B) \in Nat /\ k + Cardinality(B) <= m
  <1>1. Cardinality(A) \in Nat
    BY RowsAreFew
  <1>2. CASE B \subseteq A /\ m >= n
    BY <1>1, <1>2, NoMore
  <1>3. CASE m = n + 1 /\ \E r : B \subseteq A \cup {r}
    <2>1. PICK r : B \subseteq A \cup {r}
      BY <1>3
    <2>2. Cardinality(B) \in Nat /\ Cardinality(B) <= Cardinality(A) + 1
      BY <2>1, OneMore
    <2> QED
      BY <1>1, <1>3, <2>2
  <1> QED
    BY <1>2, <1>3 DEF Bounded

\* A change keeps the invariant when none of the three sets outgrows its counter.
LEMMA ChangeKeepsInv ==
  ASSUME Inv, Change, TypeOK',
         Bounded(Overlooked, Overlooked', pulled, pulled'),
         Bounded(ShownAndAhead, ShownAndAhead', pushed, pushed'),
         Bounded(Newcomers, Newcomers', changes, changes')
  PROVE  Inv'
  <1>1. /\ limit # 0 /\ more /\ TypeOK
        /\ UNCHANGED <<byId, limit, page, more, seen>>
    BY DEF Inv, Change
  <1>2. Paced' /\ UNCHANGED Place
    BY <1>1 DEF Inv, Paced, Place, Skip, Capped
  <1>3. /\ pulled \in Int /\ pushed \in Int /\ changes \in Int
        /\ pulled' \in Int /\ pushed' \in Int /\ changes' \in Int
    BY <1>1 DEF TypeOK
  <1>4. FewOverlooked'
    <2>1. Cardinality(Overlooked) \in Nat /\ 0 + Cardinality(Overlooked) <= pulled
      BY <1>1, <1>3, CountedRows DEF Inv, FewOverlooked
    <2>2. Cardinality(Overlooked') \in Nat /\ 0 + Cardinality(Overlooked') <= pulled'
      BY <1>1, <1>3, <2>1, CountedRows, BoundedCount
    <2> QED
      BY <2>2 DEF FewOverlooked
  <1>5. FewShownAgain'
    <2> DEFINE k == Len(seen) - Cardinality(ToSet(seen))
    <2>1. k \in Int /\ k + Cardinality(ShownAndAhead) <= pushed
      BY <1>1, CountedRows DEF Inv, FewShownAgain
    <2> HIDE DEF k
    <2>2. k + Cardinality(ShownAndAhead') <= pushed'
      BY <1>1, <1>3, <2>1, CountedRows, BoundedCount
    <2> QED
      BY <1>1, <2>2 DEF FewShownAgain, k
  <1>6. FewNewcomers'
    <2>1. 0 + Cardinality(Newcomers) <= changes
      BY <1>1, CountedRows DEF Inv, FewNewcomers
    <2>2. Cardinality(Newcomers') \in Nat /\ 0 + Cardinality(Newcomers') <= changes'
      BY <1>1, <1>3, <2>1, CountedRows, BoundedCount
    <2> QED
      BY <2>2 DEF FewNewcomers
  <1> QED
    BY <1>2, <1>4, <1>5, <1>6 DEF Inv

LEMMA RemovedKeepsInv ==
  ASSUME Inv, NEW p \in DOMAIN table, Removed(p)
  PROVE  Inv'
  <1>1. /\ TypeOK /\ Change /\ table' = RemoveAt(table, p) /\ stayed' = stayed \ {table[p]}
        /\ pulled' = Counted(pulled, p <= Place) /\ pushed' = pushed
        /\ changes' = changes + 1
        /\ UNCHANGED <<byId, limit, page, more, seen>>
    BY DEF Inv, Removed, Change
  <1>2. /\ table \in Seq(Rows) /\ IsInjective(table) /\ p \in 1 .. Len(table) /\ Place \in Nat
        /\ Place' = Place
    BY <1>1, Places, DomainOfSeq DEF TypeOK, Place, Skip, Capped
  <1>3. /\ table' \in Seq(Rows) /\ IsInjective(table') /\ (Sorted(table) => Sorted(table'))
        /\ ToSet(table') = ToSet(table) \ {table[p]}
        /\ RowsUpto(table', Place) \subseteq RowsUpto(table, Place) \cup {table[Place + 1]}
        /\ p > Place => RowsUpto(table', Place) \subseteq RowsUpto(table, Place)
        /\ RowsAfter(table', Place) \subseteq RowsAfter(table, Place)
    BY <1>1, <1>2, RemoveRow
  <1>4. TypeOK'
    BY <1>1, <1>3 DEF TypeOK, InOrder, Counted
  <1>5. Bounded(Overlooked, Overlooked', pulled, pulled')
    <2>1. CASE p <= Place
      <3>1. Overlooked' \subseteq Overlooked \cup {table[Place + 1]}
        BY <1>1, <1>2, <1>3 DEF Overlooked
      <3> QED
        BY <1>1, <2>1, <3>1 DEF Bounded, Counted
    <2>2. CASE p > Place
      <3>1. Overlooked' \subseteq Overlooked
        BY <1>1, <1>2, <1>3, <2>2 DEF Overlooked
      <3> QED
        BY <1>1, <1>2, <2>2, <3>1 DEF Bounded, Counted, TypeOK
    <2> QED
      BY <1>2, <2>1, <2>2
  <1>6. Bounded(ShownAndAhead, ShownAndAhead', pushed, pushed')
    BY <1>1, <1>2, <1>3 DEF Bounded, ShownAndAhead, TypeOK
  <1>7. Bounded(Newcomers, Newcomers', changes, changes')
    <2>1. Newcomers' \subseteq Newcomers \cup {table[p]}
      BY <1>1, <1>3 DEF Newcomers
    <2> QED
      BY <1>1, <2>1 DEF Bounded
  <1> QED
    BY <1>1, <1>4, <1>5, <1>6, <1>7, ChangeKeepsInv

LEMMA AddedKeepsInv ==
  ASSUME Inv, NEW i \in Rows, Added(i)
  PROVE  Inv'
  <1>1. PICK q \in 1 .. Len(table) + 1 :
          /\ table' = InsertAt(table, q, i)
          /\ pushed' = Counted(pushed, q <= Place \/ i \in ToSet(seen))
    BY DEF Added
  <1>2. /\ TypeOK /\ Change /\ i \notin ToSet(table) /\ InOrder(table')
        /\ stayed' = stayed /\ pulled' = pulled /\ changes' = changes + 1
        /\ UNCHANGED <<byId, limit, page, more, seen>>
    BY DEF Inv, Added, Change
  <1>3. /\ table \in Seq(Rows) /\ IsInjective(table) /\ Place \in Nat /\ Place' = Place
    BY <1>2, Places DEF TypeOK, Place, Skip, Capped
  <1>4. /\ table' \in Seq(Rows) /\ IsInjective(table') /\ ToSet(table') = ToSet(table) \cup {i}
        /\ RowsUpto(table', Place) \subseteq RowsUpto(table, Place) \cup {i}
        /\ q <= Place => RowsAfter(table', Place) \subseteq RowsAfter(table, Place) \cup {table[Place]}
        /\ q > Place => RowsAfter(table', Place) \subseteq RowsAfter(table, Place) \cup {i}
    BY <1>1, <1>2, <1>3, InsertRow
  <1>5. TypeOK'
    BY <1>1, <1>2, <1>4 DEF TypeOK, Counted, InOrder
  <1>6. Bounded(Overlooked, Overlooked', pulled, pulled')
    <2>1. i \notin stayed
      BY <1>2 DEF TypeOK
    <2>2. Overlooked' \subseteq Overlooked
      BY <1>2, <1>3, <1>4, <2>1 DEF Overlooked
    <2> QED
      BY <1>2, <2>2 DEF Bounded, TypeOK
  <1>7. Bounded(ShownAndAhead, ShownAndAhead', pushed, pushed')
    <2>1. CASE q <= Place
      <3>1. ShownAndAhead' \subseteq ShownAndAhead \cup {table[Place]}
        BY <1>2, <1>3, <1>4, <2>1 DEF ShownAndAhead
      <3> QED
        BY <1>1, <2>1, <3>1 DEF Bounded, Counted
    <2>2. CASE q > Place /\ i \in ToSet(seen)
      <3>1. ShownAndAhead' \subseteq ShownAndAhead \cup {i}
        BY <1>2, <1>3, <1>4, <2>2 DEF ShownAndAhead
      <3> QED
        BY <1>1, <2>2, <3>1 DEF Bounded, Counted
    <2>3. CASE q > Place /\ i \notin ToSet(seen)
      <3>1. ShownAndAhead' \subseteq ShownAndAhead
        BY <1>2, <1>3, <1>4, <2>3 DEF ShownAndAhead
      <3> QED
        BY <1>1, <1>2, <1>3, <2>3, <3>1 DEF Bounded, Counted, TypeOK
    <2> QED
      BY <1>3, <2>1, <2>2, <2>3
  <1>8. Bounded(Newcomers, Newcomers', changes, changes')
    <2>1. Newcomers' \subseteq Newcomers \cup {i}
      BY <1>2, <1>4 DEF Newcomers
    <2> QED
      BY <1>2, <2>1 DEF Bounded
  <1> QED
    BY <1>2, <1>5, <1>6, <1>7, <1>8, ChangeKeepsInv

LEMMA UpdatedKeepsInv ==
  ASSUME Inv, NEW p \in DOMAIN table, Updated(p)
  PROVE  Inv'
  <1> DEFINE crosses(q) == (p <= Place) # (q <= Place)
  <1>1. PICK q \in 1 .. Len(table) :
          /\ table' = InsertAt(RemoveAt(table, p), q, table[p])
          /\ pulled' = Counted(pulled, crosses(q))
          /\ pushed' = Counted(pushed, crosses(q))
    BY DEF Updated
  <1>2. /\ TypeOK /\ Change /\ ~byId /\ stayed' = stayed /\ changes' = changes + 1
        /\ UNCHANGED <<byId, limit, page, more, seen>>
    BY DEF Inv, Updated, Change
  <1>3. /\ table \in Seq(Rows) /\ IsInjective(table) /\ p \in 1 .. Len(table) /\ Place \in Nat
        /\ Place' = Place
    BY <1>2, Places, DomainOfSeq DEF TypeOK, Place, Skip, Capped
  <1> DEFINE k == Place
  <1>4. /\ table' \in Seq(Rows) /\ IsInjective(table') /\ ToSet(table') = ToSet(table)
        /\ p <= k /\ q > k =>
             /\ RowsUpto(table', k) \subseteq RowsUpto(table, k) \cup {table[k + 1]}
             /\ RowsAfter(table', k) \subseteq RowsAfter(table, k) \cup {table[p]}
        /\ p > k /\ q <= k =>
             /\ RowsUpto(table', k) \subseteq RowsUpto(table, k) \cup {table[p]}
             /\ RowsAfter(table', k) \subseteq RowsAfter(table, k) \cup {table[k]}
        /\ (p <= k) = (q <= k) => /\ RowsUpto(table', k) \subseteq RowsUpto(table, k)
                                 /\ RowsAfter(table', k) \subseteq RowsAfter(table, k)
    BY <1>1, <1>3, MoveRow, SMTT(30)
  <1>5. TypeOK'
    BY <1>1, <1>2, <1>4 DEF TypeOK, Counted, InOrder
  <1>6. Bounded(Overlooked, Overlooked', pulled, pulled')
    <2>1. CASE crosses(q)
      <3>1. PICK r : RowsUpto(table', k) \subseteq RowsUpto(table, k) \cup {r}
        BY <1>3, <1>4, <2>1
      <3>2. Overlooked' \subseteq Overlooked \cup {r}
        BY <1>2, <1>3, <3>1 DEF Overlooked
      <3> QED
        BY <1>1, <2>1, <3>2 DEF Bounded, Counted
    <2>2. CASE ~crosses(q)
      <3>1. Overlooked' \subseteq Overlooked
        BY <1>2, <1>3, <1>4, <2>2 DEF Overlooked
      <3> QED
        BY <1>1, <1>2, <2>2, <3>1 DEF Bounded, Counted, TypeOK
    <2> QED
      BY <2>1, <2>2
  <1>7. Bounded(ShownAndAhead, ShownAndAhead', pushed, pushed')
    <2>1. CASE crosses(q)
      <3>1. PICK r : RowsAfter(table', k) \subseteq RowsAfter(table, k) \cup {r}
        BY <1>3, <1>4, <2>1
      <3>2. ShownAndAhead' \subseteq ShownAndAhead \cup {r}
        BY <1>2, <1>3, <3>1 DEF ShownAndAhead
      <3> QED
        BY <1>1, <2>1, <3>2 DEF Bounded, Counted
    <2>2. CASE ~crosses(q)
      <3>1. ShownAndAhead' \subseteq ShownAndAhead
        BY <1>2, <1>3, <1>4, <2>2 DEF ShownAndAhead
      <3> QED
        BY <1>1, <1>2, <2>2, <3>1 DEF Bounded, Counted, TypeOK
    <2> QED
      BY <2>1, <2>2
  <1>8. Bounded(Newcomers, Newcomers', changes, changes')
    <2>1. Newcomers' = Newcomers
      BY <1>2, <1>4 DEF Newcomers
    <2> QED
      BY <1>2, <2>1 DEF Bounded, TypeOK
  <1> QED
    BY <1>2, <1>5, <1>6, <1>7, <1>8, ChangeKeepsInv

LEMMA NextInv == Inv /\ [Next]_vars => Inv'
  <1> SUFFICES ASSUME Inv, [Next]_vars PROVE Inv'
    OBVIOUS
  <1>1. CASE UNCHANGED vars
    BY <1>1 DEF vars, Inv, TypeOK, InOrder, Paced, Place, Skip, Capped, FewOverlooked, Overlooked,
                FewShownAgain, ShownAndAhead, FewNewcomers, Newcomers
  <1> QED
    BY <1>1, StartKeepsInv, FindAllKeepsInv, RemovedKeepsInv, AddedKeepsInv, UpdatedKeepsInv
       DEF Next

\* The three counts grow with a change only, by one row at most, and no page adds
\* to them: a page shows the rows behind the place it moves to.
THEOREM Invariant == Spec => []Inv
  BY InitInv, NextInv, PTL DEF Spec

-----------------------------------------------------------------------------
(* What follows *)

\* Every reachable state is well typed: no row is in the table twice, and users
\* come by their id (users.service.ts:23-30, infinity-pagination.ts:4-12).
THEOREM TypeCorrect == Spec => []TypeOK
  <1>1. Inv => TypeOK
    BY DEF Inv
  <1> QED
    BY <1>1, Invariant, PTL

\* A walk that ended missed no more rows than were pulled to pages it had passed,
\* however many rows and changes there were (users.service.ts:27,
\* infinity-pagination.ts:10).
THEOREM WalkMissesOnlyWhatMoved == Spec => []MissesOnlyWhatMoved
  <1>1. Inv => MissesOnlyWhatMoved
    <2> SUFFICES ASSUME Inv, limit # 0, ~more
                 PROVE  Cardinality(stayed \ ToSet(seen)) <= pulled
      BY DEF MissesOnlyWhatMoved
    <2>1. TypeOK /\ Len(table) <= Place /\ Place \in Nat
      BY Places DEF Inv, Paced
    <2>2. ToSet(table) \subseteq RowsUpto(table, Place)
      BY <2>1, RowSets, DomainOfSeq DEF TypeOK
    <2>3. stayed \ ToSet(seen) = Overlooked
      BY <2>1, <2>2 DEF TypeOK, Overlooked
    <2> QED
      BY <2>3 DEF Inv, FewOverlooked
  <1> QED
    BY <1>1, Invariant, PTL

\* A walk repeats no more rows than were pushed to pages ahead of it, or came back
\* there (users.service.ts:27).
THEOREM WalkRepeatsOnlyWhatMoved == Spec => []RepeatsOnlyWhatMoved
  <1>1. Inv => RepeatsOnlyWhatMoved
    BY CountedRows DEF Inv, FewShownAgain, RepeatsOnlyWhatMoved, TypeOK
  <1> QED
    BY <1>1, Invariant, PTL

\* A walk during which nothing crossed its place shows each row that stayed, and no
\* row twice, whatever was removed, added or moved ahead of it or on one side
\* (users.service.ts:27).
UndisturbedWalkIsExact ==
  limit # 0 /\ ~more /\ pulled = 0 /\ pushed = 0 =>
    /\ stayed \subseteq ToSet(seen)
    /\ IsInjective(seen)

THEOREM UndisturbedWalks == Spec => []UndisturbedWalkIsExact
  <1>1. TypeOK /\ MissesOnlyWhatMoved /\ RepeatsOnlyWhatMoved => UndisturbedWalkIsExact
    <2> SUFFICES ASSUME TypeOK, MissesOnlyWhatMoved, RepeatsOnlyWhatMoved,
                        limit # 0, ~more, pulled = 0, pushed = 0
                 PROVE  stayed \subseteq ToSet(seen) /\ IsInjective(seen)
      BY DEF UndisturbedWalkIsExact
    <2>1. stayed \subseteq ToSet(seen)
      <3>1. IsFiniteSet(stayed \ ToSet(seen)) /\ IsFiniteSet(stayed)
        BY CountedRows, RowsAreFew
      <3>2. Cardinality(stayed \ ToSet(seen)) = 0
        BY <3>1, FS_CardinalityType DEF MissesOnlyWhatMoved
      <3> QED
        BY <3>1, <3>2, FS_EmptySet
    <2>2. IsInjective(seen)
      <3>1. seen \in Seq(Rows) /\ Cardinality(ToSet(seen)) = Len(seen)
        BY CountedRows, FewerThanPlaces DEF RepeatsOnlyWhatMoved, TypeOK
      <3> QED
        BY <3>1, ShownOnce
    <2> QED
      BY <2>1, <2>2
  <1> QED
    BY <1>1, TypeCorrect, WalkMissesOnlyWhatMoved, WalkRepeatsOnlyWhatMoved, PTL

\* A walk takes no more pages than the rows that were there, and those that came,
\* can fill, and one (infinity-pagination.ts:10).
THEOREM WalkFillsItsPages == Spec => []WalkIsShort
  <1>1. Inv => WalkIsShort
    <2> SUFFICES ASSUME Inv, limit # 0
                 PROVE  (page - 2) * Capped(limit) <= Cardinality(stayed) + changes + pushed
      BY DEF WalkIsShort
    <2>1. TypeOK /\ (page - 2) * Capped(limit) <= Len(seen)
          /\ Len(seen) - Cardinality(ToSet(seen)) + Cardinality(ShownAndAhead) <= pushed
          /\ Cardinality(Newcomers) <= changes
      BY DEF Inv, Paced, FewShownAgain, FewNewcomers
    <2>2. Cardinality(ToSet(seen)) <= Cardinality(stayed) + Cardinality(Newcomers)
      <3>1. ToSet(seen) \subseteq stayed \cup Newcomers
        BY DEF Newcomers
      <3>2. IsFiniteSet(stayed) /\ IsFiniteSet(Newcomers) /\ IsFiniteSet(stayed \cup Newcomers)
        BY <2>1, CountedRows, RowsAreFew, FS_Union
      <3>3. Cardinality(stayed \cup Newcomers)
              = Cardinality(stayed) + Cardinality(Newcomers) - Cardinality(stayed \cap Newcomers)
        BY <3>2, FS_Union
      <3>4. Cardinality(stayed \cap Newcomers) = 0
        <4>1. stayed \cap Newcomers = {}
          BY DEF Newcomers
        <4> QED
          BY <4>1, FS_EmptySet, Zenon
      <3>5. Cardinality(ToSet(seen)) <= Cardinality(stayed \cup Newcomers)
        BY <3>1, <3>2, FS_Subset
      <3> QED
        BY <2>1, <3>3, <3>4, <3>5, CountedRows
    <2>3. (page - 2) * Capped(limit) \in Int
      <3>1. \A a, b \in Int : a * b \in Int
        OBVIOUS
      <3> QED
        BY <2>1, <3>1, Places DEF TypeOK
    <2> DEFINE pages == (page - 2) * Capped(limit)
    <2> HIDE DEF pages
    <2>4. pages \in Int /\ pages <= Len(seen)
      BY <2>1, <2>3 DEF pages
    <2>5. pages <= Cardinality(stayed) + changes + pushed
      BY <2>1, <2>2, <2>4, CountedRows, SMTT(30) DEF TypeOK
    <2> QED
      BY <2>5 DEF pages
  <1> QED
    BY <1>1, Invariant, PTL

=============================================================================
