---------------------------- MODULE ChatListProofs ----------------------------
(***************************************************************************)
(* Theorems about ChatList for all its constants, checked by TLAPS.        *)
(*                                                                         *)
(* First the invariants of the list by itself, then the invariant of the   *)
(* stream: what every message under way, and every row, owes to the        *)
(* messages that follow it.  RowsCurrent, NoLostChat and the refinement of *)
(* ChatMirror follow from the second.                                      *)
(***************************************************************************)
EXTENDS ChatList, SequenceTheorems, FiniteSetTheorems, WellFoundedInduction, TLAPS

-----------------------------------------------------------------------------
(* Lists and finite sets. *)

(* What SubSeq cuts out of a list: a list, element by element. *)
LEMMA PartOfList ==
  ASSUME NEW S, NEW s \in Seq(S), NEW m \in 1..(Len(s) + 1), NEW n \in 0..Len(s), m <= n + 1
  PROVE  /\ SubSeq(s, m, n) \in Seq(S) /\ Len(SubSeq(s, m, n)) = n - m + 1
         /\ \A k \in 1..(n - m + 1) : SubSeq(s, m, n)[k] = s[m + k - 1]
<1>1. \A k \in m..n : s[k] \in S
  BY ElementOfSeq
<1> QED BY <1>1, SubSeqProperties

(* InsertAt keeps the elements before i and moves the others up by one. *)
LEMMA InsertAtProperties ==
  ASSUME NEW S, NEW s \in Seq(S), NEW e \in S, NEW i \in 1..(Len(s) + 1)
  PROVE  /\ InsertAt(s, i, e) \in Seq(S)
         /\ Len(InsertAt(s, i, e)) = Len(s) + 1
         /\ \A j \in 1..(Len(s) + 1) :
              InsertAt(s, i, e)[j] = IF j < i THEN s[j] ELSE IF j = i THEN e ELSE s[j - 1]
<1> DEFINE a == SubSeq(s, 1, i - 1)
           b == SubSeq(s, i, Len(s))
           c == Append(a, e)
<1>1. PICK n \in Nat : n = Len(s)
  BY LenProperties
<1>2. /\ a \in Seq(S) /\ Len(a) = i - 1 /\ \A k \in 1..(i - 1) : a[k] = s[1 + k - 1]
      /\ b \in Seq(S) /\ Len(b) = n - i + 1
      /\ \A k \in 1..(n - i + 1) : b[k] = s[i + k - 1]
  BY <1>1, PartOfList
<1>3. InsertAt(s, i, e) = c \o b
  BY <1>2, AppendIsConcat DEF InsertAt
<1> HIDE DEF a, b
<1>4. c \in Seq(S) /\ Len(c) = i /\ \A k \in 1..i : c[k] = IF k < i THEN s[k] ELSE e
  BY <1>1, <1>2, AppendProperties
<1> HIDE DEF c
<1>5. /\ c \o b \in Seq(S) /\ Len(c \o b) = n + 1
      /\ \A k \in 1..(n + 1) : (c \o b)[k] = IF k <= i THEN c[k] ELSE b[k - i]
  <2>1. /\ c \o b \in Seq(S) /\ Len(c \o b) = Len(c) + Len(b)
        /\ \A k \in 1..(Len(c) + Len(b)) :
             (c \o b)[k] = IF k <= Len(c) THEN c[k] ELSE b[k - Len(c)]
    BY <1>2, <1>4, ConcatProperties
  <2> QED BY <1>1, <1>2, <1>4, <2>1
<1> QED BY <1>1, <1>2, <1>3, <1>4, <1>5

(* RemoveAt keeps the elements before i and moves the others down by one. *)
LEMMA RemoveAtProperties ==
  ASSUME NEW S, NEW s \in Seq(S), NEW i \in 1..Len(s)
  PROVE  /\ RemoveAt(s, i) \in Seq(S)
         /\ Len(RemoveAt(s, i)) = Len(s) - 1
         /\ \A j \in 1..(Len(s) - 1) :
              RemoveAt(s, i)[j] = IF j < i THEN s[j] ELSE s[j + 1]
<1> DEFINE a == SubSeq(s, 1, i - 1)
           b == SubSeq(s, i + 1, Len(s))
<1>1. PICK n \in Nat : n = Len(s)
  BY LenProperties
<1>2. /\ a \in Seq(S) /\ Len(a) = i - 1 /\ \A k \in 1..(i - 1) : a[k] = s[1 + k - 1]
      /\ b \in Seq(S) /\ Len(b) = n - (i + 1) + 1
      /\ \A k \in 1..(n - (i + 1) + 1) : b[k] = s[(i + 1) + k - 1]
  BY <1>1, PartOfList
<1>3. RemoveAt(s, i) = a \o b
  BY DEF RemoveAt
<1> HIDE DEF a, b
<1>4. /\ a \o b \in Seq(S) /\ Len(a \o b) = n - 1
      /\ \A k \in 1..(n - 1) : (a \o b)[k] = IF k <= i - 1 THEN a[k] ELSE b[k - (i - 1)]
  BY <1>1, <1>2, ConcatProperties
<1> QED BY <1>1, <1>2, <1>3, <1>4

(* A non-empty set of naturals has a least element. *)
LEMMA LeastNatural ==
  ASSUME NEW T, T \subseteq Nat, T # {}
  PROVE  \E x \in T : \A y \in T : x <= y
<1> DEFINE R == {ss \in Nat \X Nat : ss[1] < ss[2]}
<1>1. IsWellFoundedOn(R, Nat)
  BY NatLessThanWellFounded, Zenon DEF OpToRel
<1>2. \A x, y \in Nat : y < x => <<y, x>> \in R
  OBVIOUS
<1> HIDE DEF R
<1>3. PICK x \in T : \A y \in T : ~ (<<y, x>> \in R)
  BY <1>1, WFMin
<1>4. \A y \in T : ~ (y < x)
  BY <1>2, <1>3
<1> QED BY <1>4

(* What the list operations of ChatsModel keep: rows sorted and without       *)
(* doubles.                                                                   *)

RowSet(rows) == {rows[i] : i \in 1..Len(rows)}

(* The position indexByOrder looks for exists: the first smaller row, or the end. *)
LEMMA IndexByOrderPosition ==
  ASSUME NEW R, \A r \in R : r.order \in Nat, NEW s \in Seq(R), NEW o \in Nat
  PROVE  /\ indexByOrder(s, o) \in 1..(Len(s) + 1)
         /\ \A j \in 1..(indexByOrder(s, o) - 1) : s[j].order >= o
         /\ indexByOrder(s, o) <= Len(s) => s[indexByOrder(s, o)].order < o
<1> DEFINE n == Len(s)
           T == {i \in 1..n : s[i].order < o}
<1>1. n \in Nat /\ \A i \in 1..n : s[i].order \in Nat
  BY ElementOfSeq, LenProperties
<1> HIDE DEF n
<1>2. \E i \in 1..(n + 1) :
        /\ \A j \in 1..(i - 1) : s[j].order >= o
        /\ i <= n => s[i].order < o
  <2>1. CASE T = {}
    <3>1. \A j \in 1..n : s[j].order >= o
      BY <1>1, <2>1
    <3> QED BY <1>1, <3>1
  <2>2. CASE T # {}
    <3>1. T \subseteq Nat
      BY <1>1
    <3>2. PICK x \in T : \A y \in T : x <= y
      BY <2>2, <3>1, LeastNatural
    <3>3. x \in 1..n /\ s[x].order < o
      OBVIOUS
    <3>4. ASSUME NEW j \in 1..(x - 1) PROVE s[j].order >= o
      <4>1. j \in 1..n /\ j < x
        BY <1>1, <3>3
      <4>2. j \notin T
        BY <3>2, <3>3, <4>1
      <4> QED BY <1>1, <4>1, <4>2
    <3> QED BY <1>1, <3>3, <3>4
  <2> QED BY <2>1, <2>2
<1> QED BY <1>2 DEF indexByOrder, n

(* addItem keeps the list sorted and without doubles, and adds just the row. *)
LEMMA AddItemFacts ==
  ASSUME NEW R, \A r \in R : r.order \in Nat,
         NEW s \in Seq(R), isDescending(s), UniqueIds(s),
         NEW row \in R, row.id \notin Ids(s)
  PROVE  /\ addItem(s, row) \in Seq(R)
         /\ isDescending(addItem(s, row))
         /\ UniqueIds(addItem(s, row))
         /\ RowSet(addItem(s, row)) = RowSet(s) \cup {row}
<1> DEFINE i == indexByOrder(s, row.order)
           n == Len(s)
           t == addItem(s, row)
<1>1. n \in Nat /\ row.order \in Nat /\ \A j \in 1..n : s[j].order \in Nat
  BY ElementOfSeq, LenProperties
<1>2. /\ i \in 1..(n + 1)
      /\ \A j \in 1..(i - 1) : s[j].order >= row.order
      /\ i <= n => s[i].order < row.order
  BY <1>1, IndexByOrderPosition
<1>3. /\ t \in Seq(R)
      /\ Len(t) = n + 1
      /\ \A j \in 1..(n + 1) : t[j] = IF j < i THEN s[j] ELSE IF j = i THEN row ELSE s[j - 1]
  <2>1. t = InsertAt(s, i, row)
    BY DEF addItem
  <2>2. i \in 1..(Len(s) + 1)
    BY <1>2
  <2> HIDE DEF i, t
  <2>3. /\ InsertAt(s, i, row) \in Seq(R)
        /\ Len(InsertAt(s, i, row)) = Len(s) + 1
        /\ \A j \in 1..(Len(s) + 1) :
             InsertAt(s, i, row)[j] = IF j < i THEN s[j] ELSE IF j = i THEN row ELSE s[j - 1]
    BY <2>2, InsertAtProperties
  <2> QED BY <2>1, <2>3
<1>4. /\ \A p, q \in 1..n : p < q => s[p].order >= s[q].order
      /\ \A p, q \in 1..n : s[p].id = s[q].id => p = q
      /\ \A p \in 1..n : s[p].id # row.id
  BY DEF isDescending, UniqueIds, Ids
<1> HIDE DEF i, n, t
<1>5. isDescending(t)
  <2> SUFFICES ASSUME NEW j \in 1..(n + 1), NEW k \in 1..(n + 1), j < k
               PROVE  t[j].order >= t[k].order
    BY <1>3 DEF isDescending
  <2>1. CASE k < i
    BY <1>1, <1>2, <1>3, <1>4, <2>1
  <2>2. CASE k = i
    BY <1>1, <1>2, <1>3, <2>2
  <2>3. CASE k > i /\ j < i
    <3>1. t[j] = s[j] /\ t[k] = s[k - 1] /\ j \in 1..n /\ k - 1 \in 1..n
      BY <1>1, <1>2, <1>3, <2>3
    <3>2. j < k - 1 \/ j = k - 1
      BY <1>1, <1>2, <2>3
    <3> QED BY <1>1, <1>4, <3>1, <3>2
  <2>4. CASE k > i /\ j = i
    <3>1. i \in 1..n /\ s[i].order < row.order
      BY <1>1, <1>2, <2>4
    <3>2. t[j] = row /\ t[k] = s[k - 1] /\ k - 1 \in 1..n
      BY <1>1, <1>2, <1>3, <2>4
    <3>3. i < k - 1 \/ i = k - 1
      BY <1>1, <1>2, <2>4
    <3>4. s[i].order >= s[k - 1].order
      BY <1>1, <1>4, <3>1, <3>2, <3>3
    <3> QED BY <1>1, <3>1, <3>2, <3>4
  <2>5. CASE k > i /\ j > i
    <3>1. t[j] = s[j - 1] /\ t[k] = s[k - 1] /\ j - 1 \in 1..n /\ k - 1 \in 1..n
      BY <1>1, <1>2, <1>3, <2>5
    <3> QED BY <1>1, <1>4, <3>1
  <2> QED BY <1>1, <1>2, <2>1, <2>2, <2>3, <2>4, <2>5
<1>6. UniqueIds(t)
  <2> SUFFICES ASSUME NEW j \in 1..(n + 1), NEW k \in 1..(n + 1), j < k
               PROVE  t[j].id # t[k].id
    BY <1>1, <1>3 DEF UniqueIds
  <2>1. CASE k < i
    BY <1>1, <1>2, <1>3, <1>4, <2>1
  <2>2. CASE k = i \/ j = i
    <3>1. \/ t[k] = row /\ t[j] = s[j] /\ j \in 1..n
          \/ t[j] = row /\ t[k] = s[k - 1] /\ k - 1 \in 1..n
      BY <1>1, <1>2, <1>3, <2>2
    <3> QED BY <1>4, <3>1
  <2>3. CASE k > i /\ j < i
    <3>1. t[j] = s[j] /\ t[k] = s[k - 1] /\ j \in 1..n /\ k - 1 \in 1..n
      BY <1>1, <1>2, <1>3, <2>3
    <3>2. CASE j < k - 1
      BY <1>1, <1>4, <3>1, <3>2
    <3>3. CASE j = k - 1
      BY <1>1, <1>2, <2>3, <3>3
    <3> QED BY <1>1, <3>2, <3>3
  <2>4. CASE k > i /\ j > i
    <3>1. t[j] = s[j - 1] /\ t[k] = s[k - 1] /\ j - 1 \in 1..n /\ k - 1 \in 1..n /\ j - 1 # k - 1
      BY <1>1, <1>2, <1>3, <2>4
    <3> QED BY <1>4, <3>1
  <2> QED BY <1>1, <1>2, <2>1, <2>2, <2>3, <2>4
<1>7. RowSet(t) = RowSet(s) \cup {row}
  <2>1. ASSUME NEW j \in 1..(n + 1) PROVE t[j] = row \/ \E p \in 1..n : t[j] = s[p]
    <3>1. CASE j < i
      BY <1>1, <1>2, <1>3, <3>1
    <3>2. CASE j = i
      BY <1>3, <3>2
    <3>3. CASE j > i
      <4>1. j - 1 \in 1..n /\ t[j] = s[j - 1]
        BY <1>1, <1>2, <1>3, <3>3
      <4> QED BY <4>1
    <3> QED BY <1>1, <1>2, <3>1, <3>2, <3>3
  <2>2. t[i] = row
    <3>1. /\ i \in 1..(n + 1)
          /\ \A j \in 1..(n + 1) : j = i => t[j] = row
      <4> HIDE DEF i, t, n
      <4> QED BY <1>1, <1>2, <1>3
    <3> QED BY <3>1, Zenon
  <2>3. ASSUME NEW p \in 1..n PROVE \E j \in 1..(n + 1) : t[j] = s[p]
    <3>1. CASE p < i
      BY <1>1, <1>2, <1>3, <3>1
    <3>2. CASE p >= i
      <4>1. p + 1 \in 1..(n + 1) /\ t[p + 1] = s[p]
        BY <1>1, <1>2, <1>3, <3>2
      <4> QED BY <4>1
    <3> QED BY <1>1, <1>2, <3>1, <3>2
  <2> QED BY <1>2, <1>3, <2>1, <2>2, <2>3 DEF RowSet, n
<1> QED BY <1>3, <1>5, <1>6, <1>7 DEF t

(* removeAt keeps the list sorted and without doubles, and drops just the row. *)
LEMMA RemoveRowFacts ==
  ASSUME NEW R, \A r \in R : r.order \in Nat,
         NEW s \in Seq(R), isDescending(s), UniqueIds(s), NEW i \in 1..Len(s)
  PROVE  /\ RemoveAt(s, i) \in Seq(R)
         /\ isDescending(RemoveAt(s, i))
         /\ UniqueIds(RemoveAt(s, i))
         /\ RowSet(RemoveAt(s, i)) = RowSet(s) \ {s[i]}
<1> DEFINE n == Len(s)
           t == RemoveAt(s, i)
<1>1. n \in Nat /\ \A j \in 1..n : s[j].order \in Nat
  BY ElementOfSeq, LenProperties
<1>2. /\ t \in Seq(R)
      /\ Len(t) = n - 1
      /\ \A j \in 1..(n - 1) : t[j] = IF j < i THEN s[j] ELSE s[j + 1]
  BY RemoveAtProperties
<1>3. /\ i \in 1..n
      /\ \A p, q \in 1..n : p < q => s[p].order >= s[q].order
      /\ \A p, q \in 1..n : s[p].id = s[q].id => p = q
  BY DEF isDescending, UniqueIds
<1> HIDE DEF n, t
\* Where the j-th row of t was in s.
<1> DEFINE from(j) == IF j < i THEN j ELSE j + 1
<1>4. \A j \in 1..(n - 1) : from(j) \in 1..n /\ from(j) # i /\ t[j] = s[from(j)]
  BY <1>1, <1>2, <1>3
<1>5. \A j, k \in 1..(n - 1) : j < k => from(j) < from(k)
  BY <1>1, <1>3
<1>6. \A p \in 1..n : p # i => \E j \in 1..(n - 1) : from(j) = p
  <2> SUFFICES ASSUME NEW p \in 1..n, p # i
               PROVE  \E j \in 1..(n - 1) : from(j) = p
    OBVIOUS
  <2>1. CASE p < i
    <3>1. p \in 1..(n - 1) /\ from(p) = p
      BY <1>1, <1>3, <2>1
    <3> QED BY <3>1
  <2>2. CASE p > i
    <3>1. p - 1 \in 1..(n - 1) /\ from(p - 1) = p
      BY <1>1, <1>3, <2>2
    <3> QED BY <3>1
  <2> QED BY <1>1, <1>3, <2>1, <2>2
<1> HIDE DEF from
<1>7. isDescending(t)
  BY <1>2, <1>3, <1>4, <1>5 DEF isDescending
<1>8. UniqueIds(t)
  <2> SUFFICES ASSUME NEW j \in 1..(n - 1), NEW k \in 1..(n - 1), j < k
               PROVE  t[j].id # t[k].id
    BY <1>1, <1>2 DEF UniqueIds
  <2>1. from(j) \in 1..n /\ from(k) \in 1..n /\ from(j) < from(k)
    BY <1>4, <1>5
  <2>2. from(j) # from(k)
    BY <2>1
  <2> QED BY <1>3, <1>4, <2>1, <2>2
<1>9. RowSet(t) = RowSet(s) \ {s[i]}
  <2>1. \A j \in 1..(n - 1) : t[j] # s[i] /\ \E p \in 1..n : t[j] = s[p]
    BY <1>3, <1>4
  <2>2. \A p \in 1..n : s[p] # s[i] => \E j \in 1..(n - 1) : t[j] = s[p]
    BY <1>4, <1>6
  <2>3. \A x : x \in RowSet(t) <=> \E j \in 1..(n - 1) : x = t[j]
    BY <1>2 DEF RowSet
  <2>4. \A x : x \in RowSet(s) <=> \E q \in 1..n : x = s[q]
    BY DEF RowSet, n
  <2>5. \A x : x \in RowSet(t) <=> x \in RowSet(s) /\ x # s[i]
    <3> TAKE x
    <3>1. ASSUME x \in RowSet(t) PROVE x \in RowSet(s) /\ x # s[i]
      <4>1. PICK j \in 1..(n - 1) : x = t[j]
        BY <3>1, <2>3
      <4> QED BY <4>1, <2>1, <2>4
    <3>2. ASSUME x \in RowSet(s), x # s[i] PROVE x \in RowSet(t)
      <4>1. PICK q \in 1..n : x = s[q]
        BY <3>2, <2>4
      <4>2. \E j \in 1..(n - 1) : t[j] = s[q]
        BY <3>2, <4>1, <2>2
      <4> QED BY <4>1, <4>2, <2>3
    <3> QED BY <3>1, <3>2
  <2> QED BY <2>5
<1> QED BY <1>2, <1>7, <1>8, <1>9 DEF t

(* Replacing a row and sorting keeps the list sorted and without doubles, and
   changes just that row. *)
LEMMA MoveRowFacts ==
  ASSUME NEW R, \A r \in R : r.order \in Nat,
         NEW s \in Seq(R), UniqueIds(s), NEW i \in 1..Len(s),
         NEW row \in R, row.id = s[i].id,
         NEW t \in sortByOrder([s EXCEPT ![i] = row])
  PROVE  /\ t \in Seq(R)
         /\ isDescending(t)
         /\ UniqueIds(t)
         /\ RowSet(t) = (RowSet(s) \ {s[i]}) \cup {row}
<1> DEFINE n == Len(s)
           u == [s EXCEPT ![i] = row]
<1>1. n \in Nat /\ \A j \in 1..n : s[j] \in R
  BY ElementOfSeq, LenProperties
<1>2. /\ u \in Seq(R)
      /\ Len(u) = n
      /\ \A j \in 1..n : u[j] = IF j = i THEN row ELSE s[j]
  BY ExceptSeq
<1> HIDE DEF u
<1>3. PICK p \in Bijection(1..n, 1..n) : t = [j \in 1..n |-> u[p[j]]]
  BY <1>2 DEF sortByOrder, u
<1>4. isDescending(t)
  BY DEF sortByOrder
<1>5. /\ \A p1, p2 \in 1..n : s[p1].id = s[p2].id => p1 = p2
      /\ i \in 1..n
  BY DEF UniqueIds
<1> HIDE DEF n
<1>6. /\ \A j \in 1..n : p[j] \in 1..n
      /\ \A j, k \in 1..n : p[j] = p[k] => j = k
      /\ \A q \in 1..n : \E j \in 1..n : p[j] = q
  BY DEF Bijection, Injection, Surjection, IsInjective
<1>7. \A j \in 1..n : u[j] \in R
  BY <1>1, <1>2
<1>8. t \in Seq(R) /\ Len(t) = n /\ \A j \in 1..n : t[j] = u[p[j]]
  <2>1. t \in [1..n -> R]
    BY <1>3, <1>6, <1>7
  <2> QED BY <1>1, <1>3, <2>1
<1>9. \A j, k \in 1..n : u[j].id = u[k].id => j = k
  BY <1>2, <1>5
<1>10. UniqueIds(t)
  <2> SUFFICES ASSUME NEW j \in 1..n, NEW k \in 1..n, t[j].id = t[k].id
               PROVE  j = k
    BY <1>8 DEF UniqueIds
  <2>1. u[p[j]].id = u[p[k]].id
    BY <1>8
  <2>2. p[j] \in 1..n /\ p[k] \in 1..n
    BY <1>6
  <2>3. p[j] = p[k]
    BY <1>9, <2>1, <2>2
  <2> QED BY <1>6, <2>3
<1>11. RowSet(t) = (RowSet(s) \ {s[i]}) \cup {row}
  <2>1. \A j \in 1..n : t[j] = row \/ \E q \in 1..n : q # i /\ t[j] = s[q]
    <3> SUFFICES ASSUME NEW j \in 1..n
                 PROVE  t[j] = row \/ \E q \in 1..n : q # i /\ t[j] = s[q]
      OBVIOUS
    <3>1. p[j] \in 1..n /\ t[j] = u[p[j]]
      BY <1>6, <1>8
    <3>2. u[p[j]] = IF p[j] = i THEN row ELSE s[p[j]]
      BY <1>2, <3>1
    <3> QED BY <3>1, <3>2
  <2>2. \A q \in 1..n : q # i => s[q] # s[i]
    BY <1>5
  <2>3. \A q \in 1..n : q # i => \E j \in 1..n : t[j] = s[q]
    BY <1>2, <1>6, <1>8
  <2>4. \E j \in 1..n : t[j] = row
    BY <1>2, <1>5, <1>6, <1>8
  <2>5. \A x : x \in RowSet(t) <=> \E j \in 1..n : x = t[j]
    BY <1>8 DEF RowSet
  <2>6. \A x : x \in RowSet(s) <=> \E q \in 1..n : x = s[q]
    BY DEF RowSet, n
  <2>7. \A x : x \in RowSet(t) <=> x = row \/ (x \in RowSet(s) /\ x # s[i])
    BY <1>5, <2>1, <2>2, <2>3, <2>4, <2>5, <2>6
  <2> QED BY <2>7
<1> QED BY <1>4, <1>8, <1>10, <1>11

(* getIndex finds the row of a listed chat. *)
LEMMA GetIndexFacts ==
  ASSUME NEW s, NEW c \in Ids(s)
  PROVE  getIndex(s, c) \in 1..Len(s) /\ s[getIndex(s, c)].id = c
BY DEF Ids, getIndex

(* The ids of a list are the ids of its rows. *)
LEMMA IdsOfRowSet ==
  ASSUME NEW s
  PROVE  \A c : c \in Ids(s) <=> \E r \in RowSet(s) : r.id = c
BY DEF Ids, RowSet

(* The row at the index of an id is the only row with that id. *)
LEMMA RowAtIndex ==
  ASSUME NEW s, UniqueIds(s), NEW c \in Ids(s)
  PROVE  /\ getIndex(s, c) \in 1..Len(s)
         /\ s[getIndex(s, c)] \in RowSet(s)
         /\ s[getIndex(s, c)].id = c
         /\ \A r \in RowSet(s) : r.id = c => r = s[getIndex(s, c)]
<1>1. getIndex(s, c) \in 1..Len(s) /\ s[getIndex(s, c)].id = c
  BY GetIndexFacts
<1> QED BY <1>1 DEF RowSet, UniqueIds

(* Removing the row of an id leaves the others, sorted and without doubles. *)
LEMMA RemoveIdFacts ==
  ASSUME NEW R, \A r \in R : r.order \in Nat,
         NEW s \in Seq(R), isDescending(s), UniqueIds(s), NEW c \in Ids(s)
  PROVE  LET t == RemoveAt(s, getIndex(s, c))
         IN  /\ t \in Seq(R)
             /\ isDescending(t)
             /\ UniqueIds(t)
             /\ \A r : r \in RowSet(t) <=> r \in RowSet(s) /\ r.id # c
<1>1. /\ getIndex(s, c) \in 1..Len(s)
      /\ s[getIndex(s, c)].id = c
      /\ \A r \in RowSet(s) : r.id = c => r = s[getIndex(s, c)]
  BY RowAtIndex
<1> DEFINE i == getIndex(s, c)
           t == RemoveAt(s, i)
<1> HIDE DEF i
<1>2. /\ t \in Seq(R)
      /\ isDescending(t)
      /\ UniqueIds(t)
      /\ RowSet(t) = RowSet(s) \ {s[i]}
  BY <1>1, RemoveRowFacts DEF i
<1> HIDE DEF t
<1>3. \A r : r \in RowSet(t) <=> r \in RowSet(s) /\ r.id # c
  BY <1>1, <1>2 DEF i
<1> QED BY <1>2, <1>3 DEF t, i

(* Changing the row of an id and sorting changes that row and no other. *)
LEMMA ReplaceIdFacts ==
  ASSUME NEW R, \A r \in R : r.order \in Nat,
         NEW s \in Seq(R), UniqueIds(s), NEW c \in Ids(s),
         NEW row \in R, row.id = c,
         NEW t \in sortByOrder([s EXCEPT ![getIndex(s, c)] = row])
  PROVE  /\ t \in Seq(R)
         /\ isDescending(t)
         /\ UniqueIds(t)
         /\ \A r : r \in RowSet(t) <=> r = row \/ (r \in RowSet(s) /\ r.id # c)
<1>1. /\ getIndex(s, c) \in 1..Len(s)
      /\ s[getIndex(s, c)].id = c
      /\ \A r \in RowSet(s) : r.id = c => r = s[getIndex(s, c)]
  BY RowAtIndex
<1> DEFINE i == getIndex(s, c)
<1>2. t \in sortByOrder([s EXCEPT ![i] = row]) /\ row.id = s[i].id
  BY <1>1
<1> HIDE DEF i
<1>3. /\ t \in Seq(R)
      /\ isDescending(t)
      /\ UniqueIds(t)
      /\ RowSet(t) = (RowSet(s) \ {s[i]}) \cup {row}
  BY <1>1, <1>2, MoveRowFacts DEF i
<1>4. \A r : r \in RowSet(t) <=> r = row \/ (r \in RowSet(s) /\ r.id # c)
  BY <1>1, <1>3 DEF i
<1> QED BY <1>3, <1>4

-----------------------------------------------------------------------------
(* The invariants of the list. *)

ListInv == TypeOK /\ NoDuplicateRows /\ RowsSorted

-----------------------------------------------------------------------------
(* Types of messages and rows. *)

LEMMA RowType == \A r \in Row : r.id \in Chats /\ r.order \in Nat /\ r.last \in Nat
BY OrdersAssumption DEF Row

LEMMA MessageType ==
  ASSUME NEW m \in Message
  PROVE  /\ m.kind \in {"updateChatOrder", "updateChatLastMessage", "chat"} =>
              m.chat \in Chats /\ m.order \in Orders /\ m.order \in Nat
         /\ m.kind \in {"updateChatLastMessage", "chat"} => m.last \in Nat
         /\ m.kind = "chats" => m.chat_ids \subseteq Chats
BY OrdersAssumption DEF Message, OrderMsg, LastMsg, ChatMsg, ChatsMsg

(* Handling a message takes it from a well-typed inbox. *)
LEMMA ConsumeType ==
  ASSUME TypeOK, NEW kind, Consume(kind)
  PROVE  /\ Received \in Message
         /\ Received.kind = kind
         /\ inbox' \in Seq(Message)
BY HeadTailProperties DEF TypeOK, Consume, Received

(* Sending a message keeps the inbox well typed. *)
LEMMA PushType ==
  ASSUME TypeOK, NEW m \in Message, Push(m)
  PROVE  inbox' \in Seq(Message)
BY AppendProperties DEF TypeOK, Push

-----------------------------------------------------------------------------
(* What each handler does to the list and to the requests. *)

\* The row of c is replaced by row and no other row changes.
Replaces(c, row) ==
  \A r : r \in RowSet(m_chats') <=> r = row \/ (r \in RowSet(m_chats) /\ r.id # c)

\* The row of c, if there is one, goes and no other row changes.
Removes(c) ==
  \A r : r \in RowSet(m_chats') <=> r \in RowSet(m_chats) /\ r.id # c

ListOK ==
  /\ m_chats \in Seq(Row)
  /\ UniqueIds(m_chats)
  /\ isDescending(m_chats)

(* The row of a listed chat, as the handlers see it. *)
LEMMA RowOfFacts ==
  ASSUME ListOK, NEW c \in RowIds
  PROVE  /\ RowOf(c) \in Row
         /\ RowOf(c) \in RowSet(m_chats)
         /\ RowOf(c).id = c
         /\ \A r \in RowSet(m_chats) : r.id = c => r = RowOf(c)
<1>1. /\ getIndex(m_chats, c) \in 1..Len(m_chats)
      /\ m_chats[getIndex(m_chats, c)] \in RowSet(m_chats)
      /\ m_chats[getIndex(m_chats, c)].id = c
      /\ \A r \in RowSet(m_chats) : r.id = c => r = m_chats[getIndex(m_chats, c)]
  BY RowAtIndex DEF ListOK, RowIds
<1>2. m_chats[getIndex(m_chats, c)] \in Row
  BY <1>1, ElementOfSeq DEF ListOK
<1> QED BY <1>1, <1>2 DEF RowOf

(* A chat without a row has nothing to remove. *)
LEMMA AbsentRow ==
  ASSUME NEW c, c \notin RowIds
  PROVE  \A r \in RowSet(m_chats) : r.id # c
BY IdsOfRowSet DEF RowIds

(* changeChatOrderOrAdd replaces the row or asks for the chat. *)
LEMMA ChangeOrAddFacts ==
  ASSUME ListOK, NEW c, NEW row, c \in RowIds => row \in Row /\ row.id = c,
         changeChatOrderOrAdd(c, row)
  PROVE  /\ ListOK'
         /\ c \in RowIds => Replaces(c, row) /\ asked' = asked
         /\ c \notin RowIds => Removes(c) /\ getChat(c)
<1>1. CASE c \in RowIds
  <2>1. /\ m_chats' \in sortByOrder([m_chats EXCEPT ![getIndex(m_chats, c)] = row])
        /\ asked' = asked
    BY <1>1 DEF changeChatOrderOrAdd
  <2>2. /\ m_chats' \in Seq(Row)
        /\ isDescending(m_chats')
        /\ UniqueIds(m_chats')
        /\ \A r : r \in RowSet(m_chats') <=> r = row \/ (r \in RowSet(m_chats) /\ r.id # c)
    BY <1>1, <2>1, RowType, ReplaceIdFacts DEF ListOK, RowIds
  <2> QED BY <1>1, <2>1, <2>2 DEF ListOK, Replaces
<1>2. CASE c \notin RowIds
  <2>1. getChat(c) /\ m_chats' = m_chats
    BY <1>2 DEF changeChatOrderOrAdd
  <2> QED BY <1>2, <2>1, AbsentRow DEF ListOK, Removes
<1> QED BY <1>1, <1>2

\* A row is added and no other row changes.
Adds(row) ==
  \A r : r \in RowSet(m_chats') <=> r = row \/ r \in RowSet(m_chats)

(* updateChatOrder moves the row, removes it for order 0, or asks for the chat. *)
LEMMA UpdateOrderFacts ==
  ASSUME TypeOK, ListOK, updateChatOrder
  PROVE  LET c == Received.chat
             o == Received.order
         IN  /\ ListOK'
             /\ o # 0 /\ c \in RowIds =>
                  Replaces(c, [RowOf(c) EXCEPT !.order = o]) /\ asked' = asked
             /\ o # 0 /\ c \notin RowIds => Removes(c) /\ getChat(c)
             /\ o = 0 => Removes(c) /\ asked' = asked
<1> DEFINE c == Received.chat
           o == Received.order
           row == [RowOf(c) EXCEPT !.order = o]
<1>1. c \in Chats /\ o \in Orders
  BY ConsumeType, MessageType DEF updateChatOrder
<1>2. CASE o # 0
  <2>1. changeChatOrderOrAdd(c, row)
    BY <1>2 DEF updateChatOrder
  <2>2. c \in RowIds => row \in Row /\ row.id = c
    BY <1>1, RowOfFacts DEF Row
  <2>3. /\ ListOK'
        /\ c \in RowIds => Replaces(c, row) /\ asked' = asked
        /\ c \notin RowIds => Removes(c) /\ getChat(c)
    BY <2>1, <2>2, ChangeOrAddFacts
  <2> QED BY <1>2, <2>3
<1>3. CASE o = 0 /\ c \in RowIds
  <2>1. m_chats' = RemoveAt(m_chats, getIndex(m_chats, c)) /\ asked' = asked
    BY <1>3 DEF updateChatOrder
  <2>2. LET t == RemoveAt(m_chats, getIndex(m_chats, c))
        IN  /\ t \in Seq(Row)
            /\ isDescending(t)
            /\ UniqueIds(t)
            /\ \A r : r \in RowSet(t) <=> r \in RowSet(m_chats) /\ r.id # c
    BY <1>3, RowType, RemoveIdFacts DEF ListOK, RowIds
  <2>3. ListOK' /\ Removes(c)
    BY <2>1, <2>2 DEF ListOK, Removes
  <2> QED BY <1>3, <2>1, <2>3
<1>4. CASE o = 0 /\ c \notin RowIds
  <2>1. m_chats' = m_chats /\ asked' = asked
    BY <1>4 DEF updateChatOrder
  <2>2. ListOK' /\ Removes(c)
    BY <1>4, <2>1, AbsentRow DEF ListOK, Removes
  <2> QED BY <1>4, <2>1, <2>2
<1> QED BY <1>2, <1>3, <1>4

(* updateChatLastMessage replaces the row, whatever the order; a chat without
   a row is asked for when its order is positive. *)
LEMMA UpdateLastFacts ==
  ASSUME TypeOK, ListOK, updateChatLastMessage
  PROVE  LET m == Received
             row == [id |-> m.chat, order |-> m.order, last |-> m.last]
         IN  /\ ListOK'
             /\ m.chat \in RowIds => Replaces(m.chat, row) /\ asked' = asked
             /\ m.chat \notin RowIds =>
                  /\ Removes(m.chat)
                  /\ IF m.order > 0 THEN getChat(m.chat) ELSE asked' = asked
<1> DEFINE c == Received.chat
           row == [id |-> c, order |-> Received.order, last |-> Received.last]
<1>1. row \in Row /\ row.id = c
  BY ConsumeType, MessageType DEF updateChatLastMessage, Row
<1>2. CASE c \in RowIds \/ Received.order > 0
  <2>1. changeChatOrderOrAdd(c, row)
    BY <1>2 DEF updateChatLastMessage
  <2>2. /\ ListOK'
        /\ c \in RowIds => Replaces(c, row) /\ asked' = asked
        /\ c \notin RowIds => Removes(c) /\ getChat(c)
    BY <1>1, <2>1, ChangeOrAddFacts
  <2> QED BY <1>2, <2>2
<1>3. CASE ~(c \in RowIds \/ Received.order > 0)
  <2>1. m_chats' = m_chats /\ asked' = asked
    BY <1>3 DEF updateChatLastMessage
  <2>2. ListOK' /\ Removes(c)
    BY <1>3, <2>1, AbsentRow DEF ListOK, Removes
  <2> QED BY <1>3, <2>1, <2>2
<1> QED BY <1>2, <1>3

(* addChat adds the row of the answer unless the chat has one. *)
LEMMA AddChatFacts ==
  ASSUME TypeOK, ListOK, addChat
  PROVE  LET m == Received
             row == [id |-> m.chat, order |-> m.order, last |-> m.last]
         IN  /\ ListOK'
             /\ m.chat \in RowIds => m_chats' = m_chats
             /\ m.chat \notin RowIds => Adds(row)
<1> DEFINE c == Received.chat
           row == [id |-> c, order |-> Received.order, last |-> Received.last]
<1>1. row \in Row /\ row.id = c
  BY ConsumeType, MessageType DEF addChat, Row
<1>2. CASE c \in RowIds
  BY <1>2 DEF addChat, ListOK
<1>3. CASE c \notin RowIds
  <2>1. m_chats' = addItem(m_chats, row)
    BY <1>3 DEF addChat
  <2>2. /\ addItem(m_chats, row) \in Seq(Row)
        /\ isDescending(addItem(m_chats, row))
        /\ UniqueIds(addItem(m_chats, row))
        /\ RowSet(addItem(m_chats, row)) = RowSet(m_chats) \cup {row}
    BY <1>1, <1>3, RowType, AddItemFacts DEF ListOK, RowIds
  <2>3. ListOK'
    BY <2>1, <2>2 DEF ListOK
  <2>4. Adds(row)
    BY <2>1, <2>2 DEF Adds
  <2> QED BY <1>3, <2>3, <2>4
<1> QED BY <1>2, <1>3

-----------------------------------------------------------------------------
(* The list invariant: types, no doubles, descending order. *)

LEMMA ListInvOK == ListInv => ListOK
BY DEF ListInv, TypeOK, NoDuplicateRows, RowsSorted, ListOK

LEMMA ListInvInit == Init => ListInv
<1> SUFFICES ASSUME Init PROVE ListInv
  OBVIOUS
<1>1. TypeOK
  BY EmptySeq DEF Init, TypeOK
<1>2. NoDuplicateRows /\ RowsSorted
  BY DEF Init, NoDuplicateRows, RowsSorted, UniqueIds, isDescending
<1> QED BY <1>1, <1>2 DEF ListInv

(* TDLib's steps leave the list alone and send well-typed messages. *)
LEMMA TDLibStepListInv ==
  ASSUME ListInv, TDLibStep
  PROVE  ListInv'
<1>1. TypeOK /\ UNCHANGED m_chats
  BY DEF ListInv, TDLibStep, OrderChanges, LastMessageChanges,
         OrderChangesUnheard, AnswerGetChat, AnswerGetChats, FailGetChats, model
<1>2. NoDuplicateRows' /\ RowsSorted'
  BY <1>1 DEF ListInv, NoDuplicateRows, RowsSorted
<1>3. ASSUME NEW c \in Chats, NEW o \in Orders, OrderChanges(c, o)
      PROVE  TypeOK'
  <2> DEFINE m == [kind |-> "updateChatOrder", chat |-> c, order |-> o]
  <2>1. m \in Message /\ Push(m)
    BY <1>3 DEF OrderChanges, Message, OrderMsg
  <2>2. inbox' \in Seq(Message)
    BY <1>1, <2>1, PushType
  <2> QED BY <1>1, <1>3, <2>2 DEF TypeOK, OrderChanges, Announce, model
<1>4. ASSUME NEW c \in Chats, NEW o \in Orders, LastMessageChanges(c, o)
      PROVE  TypeOK'
  <2> DEFINE m == [kind |-> "updateChatLastMessage", chat |-> c, order |-> o,
                   last |-> last[c] + 1]
  <2>1. m \in Message /\ Push(m)
    BY <1>1, <1>4 DEF LastMessageChanges, Message, LastMsg, TypeOK
  <2>2. inbox' \in Seq(Message)
    BY <1>1, <2>1, PushType
  <2> QED BY <1>1, <1>4, <2>2 DEF TypeOK, LastMessageChanges, Announce, model
<1>5. ASSUME NEW c \in Chats, NEW o \in Orders, OrderChangesUnheard(c, o)
      PROVE  TypeOK'
  BY <1>1, <1>5 DEF TypeOK, OrderChangesUnheard, model
<1>6. ASSUME NEW c \in Chats, AnswerGetChat(c)
      PROVE  TypeOK'
  <2> DEFINE m == [kind |-> "chat", chat |-> c, order |-> order[c], last |-> last[c]]
  <2>1. m \in Message /\ Push(m)
    BY <1>1, <1>6 DEF AnswerGetChat, Message, ChatMsg, TypeOK
  <2>2. inbox' \in Seq(Message)
    BY <1>1, <2>1, PushType
  <2> QED BY <1>1, <1>6, <2>2 DEF TypeOK, AnswerGetChat, model, history
<1>7. ASSUME AnswerGetChats
      PROVE  TypeOK'
  <2> DEFINE m == [kind |-> "chats", chat_ids |-> PageAfter(Head(pages))]
  <2>1. m \in Message /\ Push(m)
    BY <1>7 DEF AnswerGetChats, Message, ChatsMsg, PageAfter
  <2>2. inbox' \in Seq(Message)
    BY <1>1, <2>1, PushType
  <2>3. pages' \in Seq(Offset)
    BY <1>1, <1>7, HeadTailProperties DEF AnswerGetChats, TypeOK
  <2> QED BY <1>1, <1>7, <2>2, <2>3 DEF TypeOK, AnswerGetChats, model, history
<1>8. ASSUME FailGetChats
      PROVE  TypeOK'
  <2>1. pages' \in Seq(Offset)
    BY <1>1, <1>8, HeadTailProperties DEF FailGetChats, TypeOK
  <2> QED BY <1>1, <1>8, <2>1 DEF TypeOK, FailGetChats, model, history
<1> QED BY <1>2, <1>3, <1>4, <1>5, <1>6, <1>7, <1>8 DEF TDLibStep, ListInv

(* Asking for a chat keeps the request counts well typed. *)
LEMMA GetChatType ==
  ASSUME TypeOK, NEW c \in Chats, asked' = asked \/ getChat(c)
  PROVE  asked' \in [Chats -> Nat]
<1>1. asked \in [Chats -> Nat] /\ asked[c] + 1 \in Nat
  BY DEF TypeOK
<1>2. CASE getChat(c)
  BY <1>1, <1>2 DEF getChat
<1>3. CASE asked' = asked
  BY <1>1, <1>3
<1> QED BY <1>2, <1>3

(* The handlers keep the list well typed, without doubles and sorted. *)
LEMMA HandleListInv ==
  ASSUME ListInv, Handle
  PROVE  ListInv'
<1>1. TypeOK /\ ListOK
  BY ListInvOK DEF ListInv
<1>2. ASSUME ListOK' PROVE m_chats' \in Seq(Row) /\ NoDuplicateRows' /\ RowsSorted'
  BY <1>2 DEF ListOK, NoDuplicateRows, RowsSorted
<1>3. CASE updateChatOrder
  <2>1. ListOK' /\ Received.chat \in Chats /\ inbox' \in Seq(Message)
    BY <1>1, <1>3, UpdateOrderFacts, ConsumeType, MessageType DEF updateChatOrder
  <2>2. asked' = asked \/ getChat(Received.chat)
    BY <1>1, <1>3, UpdateOrderFacts
  <2>3. asked' \in [Chats -> Nat]
    BY <1>1, <2>1, <2>2, GetChatType
  <2>4. TypeOK'
    BY <1>1, <1>2, <1>3, <2>1, <2>3 DEF TypeOK, updateChatOrder, history
  <2> QED BY <1>2, <2>1, <2>4 DEF ListInv
<1>4. CASE updateChatLastMessage
  <2>1. ListOK' /\ Received.chat \in Chats /\ inbox' \in Seq(Message)
    BY <1>1, <1>4, UpdateLastFacts, ConsumeType, MessageType DEF updateChatLastMessage
  <2>2. asked' = asked \/ getChat(Received.chat)
    BY <1>1, <1>4, UpdateLastFacts
  <2>3. asked' \in [Chats -> Nat]
    BY <1>1, <2>1, <2>2, GetChatType
  <2>4. TypeOK'
    BY <1>1, <1>2, <1>4, <2>1, <2>3 DEF TypeOK, updateChatLastMessage, history
  <2> QED BY <1>2, <2>1, <2>4 DEF ListInv
<1>5. CASE addChat
  <2>1. ListOK' /\ inbox' \in Seq(Message)
    BY <1>1, <1>5, AddChatFacts, ConsumeType DEF addChat
  <2>2. TypeOK'
    BY <1>1, <1>2, <1>5, <2>1 DEF TypeOK, addChat, history
  <2> QED BY <1>2, <2>1, <2>2 DEF ListInv
<1>6. CASE addChats
  <2>1. inbox' \in Seq(Message) /\ UNCHANGED m_chats
    BY <1>1, <1>6, ConsumeType DEF addChats, model
  <2>2. asked' \in [Chats -> Nat]
    BY <1>1, <1>6 DEF TypeOK, addChats
  <2>3. TypeOK'
    BY <1>1, <1>6, <2>1, <2>2 DEF TypeOK, addChats, model, history
  <2> QED BY <2>1, <2>3 DEF ListInv, NoDuplicateRows, RowsSorted
<1> QED BY <1>3, <1>4, <1>5, <1>6 DEF Handle

\* An empty list has neither doubles nor anything out of order.
LEMMA EmptyList == <<>> \in Seq(Row) /\ UniqueIds(<<>>) /\ isDescending(<<>>)
BY EmptySeq DEF UniqueIds, isDescending

(* The view and the user only ask for pages or clear the list. *)
LEMMA FetchListInv ==
  ASSUME ListInv, fetchMore \/ reset \/ onAuthorizationStateChanged
  PROVE  ListInv'
<1>1. TypeOK /\ Top \in Offset
  BY OrdersAssumption DEF ListInv, Top, Offset
<1>2. CASE fetchMore
  <2>1. m_chats # <<>> => LastRowOffset \in Offset
    <3> SUFFICES ASSUME m_chats # <<>> PROVE LastRowOffset \in Offset
      OBVIOUS
    <3>1. m_chats \in Seq(Row) /\ Len(m_chats) \in 1..Len(m_chats)
      BY <1>1, EmptySeq, LenProperties DEF TypeOK
    <3>2. m_chats[Len(m_chats)] \in Row
      BY <3>1, ElementOfSeq
    <3> QED BY <3>2 DEF LastRowOffset, Row, Offset
  <2>2. pages' \in Seq(Offset)
    BY <1>1, <1>2, <2>1, AppendProperties DEF fetchMore, getChats, TypeOK
  <2> QED BY <1>1, <1>2, <2>2
          DEF ListInv, TypeOK, NoDuplicateRows, RowsSorted, fetchMore, history
<1>3. CASE reset
  <2>1. pages' \in Seq(Offset) /\ m_chats' = <<>>
    BY <1>1, <1>3, AppendProperties DEF reset, ResetList, getChats, TypeOK
  <2>2. TypeOK'
    BY <1>1, <1>3, <2>1, EmptyList DEF TypeOK, reset, ResetList
  <2> QED BY <2>1, <2>2, EmptyList DEF ListInv, NoDuplicateRows, RowsSorted
<1>4. CASE onAuthorizationStateChanged
  <2>1. CASE ready' /\ m_chats = <<>>
    <3> ResetList
      BY <1>4, <2>1 DEF onAuthorizationStateChanged
    <3>1. pages' \in Seq(Offset) /\ m_chats' = <<>>
      BY <1>1, AppendProperties DEF ResetList, getChats, TypeOK
    <3>2. TypeOK'
      BY <1>1, <1>4, <2>1, <3>1, EmptyList
         DEF TypeOK, onAuthorizationStateChanged, ResetList
    <3> QED BY <3>1, <3>2, EmptyList DEF ListInv, NoDuplicateRows, RowsSorted
  <2>2. CASE ~(ready' /\ m_chats = <<>>)
    BY <1>1, <1>4, <2>2
       DEF ListInv, TypeOK, NoDuplicateRows, RowsSorted, onAuthorizationStateChanged
  <2> QED BY <2>1, <2>2
<1> QED BY <1>2, <1>3, <1>4

LEMMA ListInvStep == ListInv /\ [Next]_vars => ListInv'
<1> SUFFICES ASSUME ListInv, [Next]_vars PROVE ListInv'
  OBVIOUS
<1>1. CASE UNCHANGED vars
  BY <1>1 DEF vars, ListInv, TypeOK, NoDuplicateRows, RowsSorted
<1> QED BY <1>1, TDLibStepListInv, HandleListInv, FetchListInv DEF Next

LEMMA ListInvariant == Spec => []ListInv
BY ListInvInit, ListInvStep, PTL DEF Spec

(* Every variable of the chat list keeps its type: every message a handler
   takes has the fields it reads, every row is about a known chat. *)
THEOREM TypeCorrect == Spec => []TypeOK
<1>1. ListInv => TypeOK
  BY DEF ListInv
<1> QED BY <1>1, ListInvariant, PTL

(* The list never shows a chat twice, however many answers about one chat are
   under way. *)
THEOREM NoDoubles == Spec => []NoDuplicateRows
<1>1. ListInv => NoDuplicateRows
  BY DEF ListInv
<1> QED BY <1>1, ListInvariant, PTL

(* The list stays in descending order. *)
THEOREM Sorted == Spec => []RowsSorted
<1>1. ListInv => RowsSorted
  BY DEF ListInv
<1> QED BY <1>1, ListInvariant, PTL

-----------------------------------------------------------------------------
(* The stream.  A message or a row may be out of date, but only when a later  *)
(* message about the same chat, still under way, corrects it; and a chat      *)
(* announced in the list has its row, or something under way that will bring  *)
(* it.                                                                        *)

Moves    == {"updateChatOrder", "updateChatLastMessage"}   \* told order changes
News     == {"updateChatLastMessage"}                      \* told new messages
Carriers == {"updateChatLastMessage", "chat"}              \* carry a last message
Singles  == Moves \cup {"chat"}                            \* about one chat

\* A message about c of one of these kinds is in s after position k.
Later(s, kinds, c, k) ==
  \E j \in 1..Len(s) : j > k /\ s[j].kind \in kinds /\ s[j].chat = c

\* An order read at position k is the chat's, unless it is told to change later.
FollowsOrder(c, o, k) ==
  ~Later(inbox, Moves, c, k) => c \in silent \/ o = order[c]

\* A last message read at position k is the chat's, unless a newer one follows.
FollowsLast(c, v, k) ==
  /\ v <= last[c]
  /\ \A j \in 1..Len(inbox) :
       j > k /\ inbox[j].kind \in Carriers /\ inbox[j].chat = c => v <= inbox[j].last
  /\ ~Later(inbox, News, c, k) => v = last[c]

MessagesFollow ==
  \A k \in 1..Len(inbox) :
    /\ inbox[k].kind \in Singles => FollowsOrder(inbox[k].chat, inbox[k].order, k)
    /\ inbox[k].kind \in Carriers => FollowsLast(inbox[k].chat, inbox[k].last, k)

RowsFollow ==
  \A r \in RowSet(m_chats) : FollowsOrder(r.id, r.order, 0) /\ FollowsLast(r.id, r.last, 0)

\* The last move of an announced chat says that it is in the list; without a
\* move under way it has its row or will get it.
ToldFollow ==
  \A c \in told :
    /\ \A k \in 1..Len(inbox) :
         inbox[k].kind \in Moves /\ inbox[k].chat = c /\ ~Later(inbox, Moves, c, k)
           => inbox[k].order > 0
    /\ ~Later(inbox, Moves, c, 0) =>
         c \in RowIds \/ asked[c] > 0 \/ Later(inbox, {"chat"}, c, 0)

StreamInv == ListInv /\ MessagesFollow /\ RowsFollow /\ ToldFollow

-----------------------------------------------------------------------------
(* How Later changes with the inbox. *)

LEMMA LaterAppend ==
  ASSUME NEW S, NEW s \in Seq(S), NEW m \in S, NEW kinds, NEW c, NEW k \in Nat
  PROVE  /\ k <= Len(s) =>
              (Later(Append(s, m), kinds, c, k)
                 <=> Later(s, kinds, c, k) \/ (m.kind \in kinds /\ m.chat = c))
         /\ k > Len(s) => ~Later(Append(s, m), kinds, c, k)
<1> DEFINE t == Append(s, m)
           n == Len(s)
<1>1. /\ n \in Nat
      /\ Len(t) = n + 1
      /\ \A j \in 1..n : t[j] = s[j]
      /\ t[n + 1] = m
  BY AppendProperties, LenProperties
<1> HIDE DEF t, n
<1>2. ASSUME k <= n
      PROVE  Later(t, kinds, c, k) <=> Later(s, kinds, c, k) \/ (m.kind \in kinds /\ m.chat = c)
  <2>1. ASSUME Later(t, kinds, c, k)
        PROVE  Later(s, kinds, c, k) \/ (m.kind \in kinds /\ m.chat = c)
    <3>1. PICK j \in 1..(n + 1) : j > k /\ t[j].kind \in kinds /\ t[j].chat = c
      BY <1>1, <2>1 DEF Later
    <3>2. j \in 1..n \/ j = n + 1
      BY <1>1
    <3> QED BY <1>1, <3>1, <3>2 DEF Later, n
  <2>2. ASSUME Later(s, kinds, c, k)
        PROVE  Later(t, kinds, c, k)
    <3>1. PICK j \in 1..n : j > k /\ s[j].kind \in kinds /\ s[j].chat = c
      BY <2>2 DEF Later, n
    <3>2. j \in 1..(n + 1)
      BY <1>1
    <3> QED BY <1>1, <3>1, <3>2 DEF Later
  <2>3. ASSUME m.kind \in kinds, m.chat = c
        PROVE  Later(t, kinds, c, k)
    <3>1. n + 1 \in 1..(n + 1) /\ n + 1 > k
      BY <1>1, <1>2
    <3> QED BY <1>1, <2>3, <3>1 DEF Later
  <2> QED BY <2>1, <2>2, <2>3
<1>3. ASSUME k > n PROVE ~Later(t, kinds, c, k)
  BY <1>1, <1>3 DEF Later
<1> QED BY <1>2, <1>3 DEF t, n

LEMMA LaterTail ==
  ASSUME NEW S, NEW s \in Seq(S), s # <<>>, NEW kinds, NEW c, NEW k \in Nat
  PROVE  /\ Later(Tail(s), kinds, c, k) <=> Later(s, kinds, c, k + 1)
         /\ Later(s, kinds, c, 0)
              <=> Later(s, kinds, c, 1) \/ (Head(s).kind \in kinds /\ Head(s).chat = c)
<1> DEFINE t == Tail(s)
           n == Len(s)
<1>1. /\ n \in Nat /\ n > 0
      /\ Len(t) = n - 1
      /\ \A j \in 1..(n - 1) : t[j] = s[j + 1]
      /\ Head(s) = s[1]
  BY HeadTailProperties, LenProperties, EmptySeq
<1> HIDE DEF t, n
<1>2. ASSUME Later(t, kinds, c, k) PROVE Later(s, kinds, c, k + 1)
  <2>1. PICK j \in 1..(n - 1) : j > k /\ t[j].kind \in kinds /\ t[j].chat = c
    BY <1>1, <1>2 DEF Later
  <2>2. j + 1 \in 1..n /\ j + 1 > k + 1 /\ t[j] = s[j + 1]
    BY <1>1, <2>1
  <2> QED BY <2>1, <2>2 DEF Later, n
<1>3. ASSUME Later(s, kinds, c, k + 1) PROVE Later(t, kinds, c, k)
  <2>1. PICK j \in 1..n : j > k + 1 /\ s[j].kind \in kinds /\ s[j].chat = c
    BY <1>3 DEF Later, n
  <2>2. j - 1 \in 1..(n - 1) /\ j - 1 > k /\ (j - 1) + 1 = j
    BY <1>1, <2>1
  <2>3. t[j - 1] = s[j]
    BY <1>1, <2>2
  <2> QED BY <1>1, <2>1, <2>2, <2>3 DEF Later
<1>4. Later(s, kinds, c, 0)
        <=> Later(s, kinds, c, 1) \/ (Head(s).kind \in kinds /\ Head(s).chat = c)
  <2>1. ASSUME NEW j \in 1..n PROVE j > 1 \/ j = 1
    BY <1>1
  <2>2. 1 \in 1..n
    BY <1>1
  <2> QED BY <1>1, <2>1, <2>2 DEF Later, n
<1> QED BY <1>2, <1>3, <1>4 DEF t

-----------------------------------------------------------------------------
(* What sending and handling one message does to what follows. *)

\* Message m tells the truth about its chat, and every other change of an
\* order or of a last message is dropped on the way.
Truthful(m) ==
  /\ m \in Message
  /\ m.kind \in Singles => m.order = order'[m.chat]
  /\ m.kind \in Carriers => m.last = last'[m.chat]
  /\ \A c \in Chats :
       /\ last[c] <= last'[c]
       /\ ~(m.kind \in Moves /\ m.chat = c) =>
            /\ c \in silent => c \in silent'
            /\ order'[c] = order[c]
       /\ ~(m.kind \in News /\ m.chat = c) => last'[c] = last[c]

(* A truthful message corrects everything its update makes out of date. *)
LEMMA PushFollows ==
  ASSUME TypeOK, TypeOK', NEW m, Truthful(m), Push(m), NEW c \in Chats,
         NEW k \in Nat, k <= Len(inbox)
  PROVE  /\ \A o : FollowsOrder(c, o, k) => FollowsOrder(c, o, k)'
         /\ \A v \in Nat : FollowsLast(c, v, k) => FollowsLast(c, v, k)'
<1>1. /\ inbox \in Seq(Message) /\ m \in Message
      /\ inbox' = Append(inbox, m)
      /\ last \in [Chats -> Nat] /\ last' \in [Chats -> Nat]
  BY DEF TypeOK, Truthful, Push
<1>2. \A kinds : Later(inbox', kinds, c, k)
                   <=> Later(inbox, kinds, c, k) \/ (m.kind \in kinds /\ m.chat = c)
  BY <1>1, LaterAppend
<1>3. ASSUME NEW o, FollowsOrder(c, o, k)
      PROVE  FollowsOrder(c, o, k)'
  <2> SUFFICES ASSUME ~Later(inbox', Moves, c, k)
               PROVE  c \in silent' \/ o = order'[c]
    BY DEF FollowsOrder
  <2>1. ~Later(inbox, Moves, c, k) /\ ~(m.kind \in Moves /\ m.chat = c)
    BY <1>2
  <2>2. c \in silent \/ o = order[c]
    BY <1>3, <2>1 DEF FollowsOrder
  <2> QED BY <2>1, <2>2 DEF Truthful
<1>4. ASSUME NEW v \in Nat, FollowsLast(c, v, k)
      PROVE  FollowsLast(c, v, k)'
  <2>1. v <= last'[c]
    <3>1. v <= last[c] /\ last[c] <= last'[c]
      BY <1>4 DEF FollowsLast, Truthful
    <3>2. last[c] \in Nat /\ last'[c] \in Nat
      BY <1>1
    <3> QED BY <3>1, <3>2
  <2>2. ASSUME NEW j \in 1..Len(inbox'), j > k, inbox'[j].kind \in Carriers, inbox'[j].chat = c
        PROVE  v <= inbox'[j].last
    <3>1. /\ Len(inbox) \in Nat
          /\ Len(inbox') = Len(inbox) + 1
          /\ \A i \in 1..Len(inbox) : inbox'[i] = inbox[i]
          /\ inbox'[Len(inbox) + 1] = m
      BY <1>1, AppendProperties, LenProperties
    <3>2. CASE j \in 1..Len(inbox)
      BY <1>4, <2>2, <3>1, <3>2 DEF FollowsLast
    <3>3. CASE j = Len(inbox) + 1
      BY <2>1, <2>2, <3>1, <3>3 DEF Truthful
    <3>4. j \in 1..Len(inbox) \/ j = Len(inbox) + 1
      BY <3>1
    <3> QED BY <3>2, <3>3, <3>4
  <2>3. ASSUME ~Later(inbox', News, c, k)
        PROVE  v = last'[c]
    <3>1. ~Later(inbox, News, c, k) /\ ~(m.kind \in News /\ m.chat = c)
      BY <1>2, <2>3
    <3>2. v = last[c]
      BY <1>4, <3>1 DEF FollowsLast
    <3> QED BY <3>1, <3>2 DEF Truthful
  <2> QED BY <2>1, <2>2, <2>3 DEF FollowsLast
<1> QED BY <1>3, <1>4

(* The last message of the inbox, having just been sent, tells the truth. *)
LEMMA PushedFollows ==
  ASSUME TypeOK, TypeOK', NEW m, Truthful(m), Push(m),
         NEW k, k = Len(inbox) + 1
  PROVE  /\ k = Len(inbox') /\ inbox'[k] = m
         /\ m.kind \in Singles => FollowsOrder(m.chat, m.order, k)'
         /\ m.kind \in Carriers => FollowsLast(m.chat, m.last, k)'
<1>1. /\ inbox \in Seq(Message) /\ m \in Message
      /\ inbox' = Append(inbox, m)
      /\ last' \in [Chats -> Nat]
  BY DEF TypeOK, Truthful, Push
<1>2. k = Len(inbox') /\ inbox'[k] = m /\ k \in Nat /\ Len(inbox) \in Nat
  BY <1>1, AppendProperties, LenProperties
<1>3. \A kinds, c : ~Later(inbox', kinds, c, k)
  BY <1>1, <1>2, LaterAppend
<1>4. ASSUME m.kind \in Singles PROVE FollowsOrder(m.chat, m.order, k)'
  BY <1>3, <1>4 DEF FollowsOrder, Truthful
<1>5. ASSUME m.kind \in Carriers PROVE FollowsLast(m.chat, m.last, k)'
  <2>1. m.chat \in Chats /\ m.last = last'[m.chat] /\ last'[m.chat] \in Nat
    BY <1>1, <1>5, MessageType DEF Truthful, Carriers
  <2>2. \A j \in 1..Len(inbox') : ~(j > k)
    BY <1>2
  <2>3. m.last <= last'[m.chat]
    BY <2>1
  <2> QED BY <1>3, <2>1, <2>2, <2>3 DEF FollowsLast
<1> QED BY <1>2, <1>4, <1>5

(* What the k-th message owes; a message is rigid, its place in inbox is not. *)
MessageFollows(x, k) ==
  /\ x.kind \in Singles => FollowsOrder(x.chat, x.order, k)
  /\ x.kind \in Carriers => FollowsLast(x.chat, x.last, k)

(* Sending a truthful message keeps what messages and rows owe. *)
LEMMA PushKeeps ==
  ASSUME StreamInv, TypeOK', NEW m, Truthful(m), Push(m), UNCHANGED m_chats
  PROVE  MessagesFollow' /\ RowsFollow'
<1>1. /\ TypeOK /\ ListOK
      /\ inbox \in Seq(Message) /\ m \in Message
      /\ inbox' = Append(inbox, m)
  BY ListInvOK DEF StreamInv, ListInv, TypeOK, Truthful, Push
<1>2. /\ Len(inbox) \in Nat
      /\ Len(inbox') = Len(inbox) + 1
      /\ \A i \in 1..Len(inbox) : inbox'[i] = inbox[i] /\ inbox[i] \in Message
  BY <1>1, AppendProperties, LenProperties, ElementOfSeq
<1>3. ASSUME NEW k \in 1..Len(inbox'), NEW x, x = inbox'[k]
      PROVE  MessageFollows(x, k)'
  <2>1. CASE k \in 1..Len(inbox)
    <3>1. x \in Message /\ inbox[k] = x /\ k \in Nat /\ k <= Len(inbox)
      BY <1>2, <1>3, <2>1
    <3>2. x.kind \in Singles => x.chat \in Chats
      BY <3>1, MessageType DEF Singles, Moves
    <3>3. x.kind \in Carriers => x.chat \in Chats /\ x.last \in Nat
      BY <3>1, MessageType DEF Carriers
    <3>4. MessageFollows(x, k)
      BY <2>1, <3>1 DEF StreamInv, MessagesFollow, MessageFollows
    <3>5. x.kind \in Singles => FollowsOrder(x.chat, x.order, k)'
      BY <1>1, <3>1, <3>2, <3>4, PushFollows DEF MessageFollows
    <3>6. x.kind \in Carriers => FollowsLast(x.chat, x.last, k)'
      BY <1>1, <3>1, <3>3, <3>4, PushFollows DEF MessageFollows
    <3> QED BY <3>5, <3>6 DEF MessageFollows
  <2>2. CASE k = Len(inbox) + 1
    BY <1>1, <1>3, <2>2, PushedFollows DEF MessageFollows
  <2>3. k \in 1..Len(inbox) \/ k = Len(inbox) + 1
    BY <1>2
  <2> QED BY <2>1, <2>2, <2>3
<1>4. ASSUME NEW r \in RowSet(m_chats')
      PROVE  FollowsOrder(r.id, r.order, 0)' /\ FollowsLast(r.id, r.last, 0)'
  <2>1. r \in RowSet(m_chats) /\ r.id \in Chats /\ r.last \in Nat
    BY <1>1, RowType, ElementOfSeq DEF ListOK, RowSet
  <2>2. FollowsOrder(r.id, r.order, 0) /\ FollowsLast(r.id, r.last, 0)
    BY <2>1 DEF StreamInv, RowsFollow
  <2> QED BY <1>1, <1>2, <2>1, <2>2, PushFollows
<1>5. MessagesFollow'
  BY <1>3 DEF MessagesFollow, MessageFollows, FollowsOrder, FollowsLast
<1> QED BY <1>4, <1>5 DEF RowsFollow

\* A message has been handled, and TDLib has done nothing meanwhile.
Handled ==
  /\ inbox # <<>>
  /\ inbox' = Tail(inbox)
  /\ UNCHANGED <<order, last, silent>>

(* What follows the handled message still follows, one position earlier; what
   was read before it still does unless the message itself is a correction. *)
LEMMA TailFollows ==
  ASSUME TypeOK, Handled, NEW c, NEW k \in Nat
  PROVE  /\ \A o : FollowsOrder(c, o, k + 1) => FollowsOrder(c, o, k)'
         /\ \A v : FollowsLast(c, v, k + 1) => FollowsLast(c, v, k)'
         /\ ~(Received.kind \in Moves /\ Received.chat = c) =>
              \A o : FollowsOrder(c, o, 0) => FollowsOrder(c, o, 0)'
         /\ ~(Received.kind \in News /\ Received.chat = c) =>
              \A v : FollowsLast(c, v, 0) => FollowsLast(c, v, 0)'
<1>1. /\ inbox \in Seq(Message) /\ inbox # <<>> /\ inbox' = Tail(inbox)
      /\ order' = order /\ last' = last /\ silent' = silent
  BY DEF TypeOK, Handled
<1>2. /\ Len(inbox) \in Nat
      /\ Len(inbox') = Len(inbox) - 1
      /\ \A j \in 1..Len(inbox') : inbox'[j] = inbox[j + 1]
  BY <1>1, HeadTailProperties, LenProperties
<1>3. \A kinds : \A i \in Nat :
        Later(inbox', kinds, c, i) <=> Later(inbox, kinds, c, i + 1)
  BY <1>1, LaterTail
<1>3a. \A kinds : Later(inbox', kinds, c, 0) <=> Later(inbox, kinds, c, 1)
  <2>1. 0 \in Nat /\ 0 + 1 = 1
    OBVIOUS
  <2> QED BY <1>3, <2>1
<1>4. \A kinds : Later(inbox, kinds, c, 0)
                   <=> Later(inbox, kinds, c, 1)
                         \/ (Received.kind \in kinds /\ Received.chat = c)
  <2> SUFFICES ASSUME NEW kinds
               PROVE  Later(inbox, kinds, c, 0)
                        <=> Later(inbox, kinds, c, 1)
                              \/ (Received.kind \in kinds /\ Received.chat = c)
    OBVIOUS
  <2> QED BY <1>1, LaterTail DEF Received
<1>5. ASSUME NEW o, FollowsOrder(c, o, k + 1) PROVE FollowsOrder(c, o, k)'
  BY <1>1, <1>3, <1>5 DEF FollowsOrder
<1>6. \A i, j \in Nat : i <= j + 1 /\ j \in 1..Len(inbox') => j + 1 \in 1..Len(inbox)
  BY <1>2
<1>7. ASSUME NEW v, NEW i \in Nat, NEW l \in Nat, i <= l + 1, v <= last[c],
             \A j \in 1..Len(inbox) :
               j > i /\ inbox[j].kind \in Carriers /\ inbox[j].chat = c => v <= inbox[j].last
      PROVE  \A j \in 1..Len(inbox') :
               j > l /\ inbox'[j].kind \in Carriers /\ inbox'[j].chat = c => v <= inbox'[j].last
  <2> SUFFICES ASSUME NEW j \in 1..Len(inbox'), j > l,
                      inbox'[j].kind \in Carriers, inbox'[j].chat = c
               PROVE  v <= inbox'[j].last
    OBVIOUS
  <2>1. j + 1 \in 1..Len(inbox) /\ j + 1 > i /\ inbox'[j] = inbox[j + 1]
    BY <1>2, <1>7
  <2> QED BY <1>7, <2>1
<1>8. ASSUME NEW v, FollowsLast(c, v, k + 1) PROVE FollowsLast(c, v, k)'
  <2>1. k + 1 \in Nat /\ k + 1 <= k + 1
    OBVIOUS
  <2>2. \A j \in 1..Len(inbox') :
          j > k /\ inbox'[j].kind \in Carriers /\ inbox'[j].chat = c => v <= inbox'[j].last
    BY <1>7, <1>8, <2>1 DEF FollowsLast
  <2> QED BY <1>1, <1>3, <1>8, <2>2 DEF FollowsLast
<1>9. ASSUME ~(Received.kind \in Moves /\ Received.chat = c), NEW o, FollowsOrder(c, o, 0)
      PROVE  FollowsOrder(c, o, 0)'
  <2>1. Later(inbox', Moves, c, 0) <=> Later(inbox, Moves, c, 0)
    BY <1>3a, <1>4, <1>9
  <2> QED BY <1>1, <1>9, <2>1 DEF FollowsOrder
<1>10. ASSUME ~(Received.kind \in News /\ Received.chat = c), NEW v, FollowsLast(c, v, 0)
       PROVE  FollowsLast(c, v, 0)'
  <2>1. Later(inbox', News, c, 0) <=> Later(inbox, News, c, 0)
    BY <1>3a, <1>4, <1>10
  <2>2. \A j \in 1..Len(inbox') :
          j > 0 /\ inbox'[j].kind \in Carriers /\ inbox'[j].chat = c => v <= inbox'[j].last
    <3>1. 0 \in Nat /\ 0 <= 0 + 1
      OBVIOUS
    <3> QED BY <1>7, <1>10, <3>1 DEF FollowsLast
  <2> QED BY <1>1, <1>10, <2>1, <2>2 DEF FollowsLast
<1> QED BY <1>5, <1>8, <1>9, <1>10

(* The messages that remain owe no more than before, and the handled one owes
   what a row that takes its content owes. *)
LEMMA HandledFollows ==
  ASSUME StreamInv, Handled
  PROVE  /\ MessagesFollow'
         /\ \A m : m = Received => MessageFollows(m, 0)'
<1>1. /\ TypeOK /\ inbox \in Seq(Message) /\ inbox # <<>> /\ inbox' = Tail(inbox)
  BY DEF StreamInv, ListInv, TypeOK, Handled
<1>2. /\ Len(inbox) \in Nat /\ Len(inbox) > 0
      /\ Len(inbox') = Len(inbox) - 1
      /\ \A j \in 1..Len(inbox') : inbox'[j] = inbox[j + 1]
      /\ Received = inbox[1]
  BY <1>1, HeadTailProperties, LenProperties, EmptySeq DEF Received
<1>3. ASSUME NEW k \in Nat, NEW x, k + 1 \in 1..Len(inbox), x = inbox[k + 1]
      PROVE  MessageFollows(x, k)'
  <2>1. MessageFollows(x, k + 1)
    BY <1>3 DEF StreamInv, MessagesFollow, MessageFollows
  <2>2. x.kind \in Singles => FollowsOrder(x.chat, x.order, k)'
    BY <1>1, <2>1, TailFollows DEF MessageFollows
  <2>3. x.kind \in Carriers => FollowsLast(x.chat, x.last, k)'
    BY <1>1, <2>1, TailFollows DEF MessageFollows
  <2> QED BY <2>2, <2>3 DEF MessageFollows
<1>4. ASSUME NEW k \in 1..Len(inbox'), NEW x, x = inbox'[k]
      PROVE  MessageFollows(x, k)'
  <2>1. k \in Nat /\ k + 1 \in 1..Len(inbox) /\ x = inbox[k + 1]
    BY <1>2, <1>4
  <2> QED BY <1>3, <2>1
<1>5. MessagesFollow'
  BY <1>4 DEF MessagesFollow, MessageFollows, FollowsOrder, FollowsLast
<1>6. ASSUME NEW m, m = Received PROVE MessageFollows(m, 0)'
  <2>1. 0 + 1 \in 1..Len(inbox) /\ m = inbox[0 + 1]
    BY <1>2, <1>6
  <2> QED BY <1>3, <2>1
<1> QED BY <1>5, <1>6

(* A row that the handled message says nothing about is as good as before. *)
LEMMA OldRowFollows ==
  ASSUME StreamInv, Handled, NEW r \in RowSet(m_chats),
         ~(Received.kind \in Moves /\ Received.chat = r.id)
  PROVE  FollowsOrder(r.id, r.order, 0)' /\ FollowsLast(r.id, r.last, 0)'
<1>1. TypeOK /\ FollowsOrder(r.id, r.order, 0) /\ FollowsLast(r.id, r.last, 0)
  BY DEF StreamInv, ListInv, RowsFollow
<1>2. ~(Received.kind \in News /\ Received.chat = r.id) /\ 0 \in Nat
  BY DEF News, Moves
<1> QED BY <1>1, <1>2, TailFollows

-----------------------------------------------------------------------------
(* What sending and handling do to ToldFollow. *)

LEMMA PushTold ==
  ASSUME StreamInv, NEW m \in Message, Push(m), UNCHANGED m_chats,
         \A c \in told' :
           \/ m.kind \in Moves /\ m.chat = c /\ m.order > 0
           \/ /\ c \in told
              /\ ~(m.kind \in Moves /\ m.chat = c)
              /\ asked'[c] = asked[c] \/ (m.kind = "chat" /\ m.chat = c)
  PROVE  ToldFollow'
<1>1. inbox \in Seq(Message) /\ inbox' = Append(inbox, m) /\ RowIds' = RowIds
  BY DEF StreamInv, ListInv, TypeOK, Push, RowIds
<1>2. /\ Len(inbox) \in Nat
      /\ Len(inbox') = Len(inbox) + 1
      /\ inbox'[Len(inbox) + 1] = m
      /\ \A i \in 1..Len(inbox) : inbox'[i] = inbox[i]
  BY <1>1, AppendProperties, LenProperties
<1>3. \A kinds, c : \A k \in Nat : k <= Len(inbox) =>
        (Later(inbox', kinds, c, k)
           <=> Later(inbox, kinds, c, k) \/ (m.kind \in kinds /\ m.chat = c))
  BY <1>1, LaterAppend
<1>4. ASSUME NEW c \in told', NEW k \in 1..Len(inbox'),
             inbox'[k].kind \in Moves, inbox'[k].chat = c, ~Later(inbox', Moves, c, k)
      PROVE  inbox'[k].order > 0
  <2>1. CASE k = Len(inbox) + 1
    BY <1>2, <1>4, <2>1
  <2>2. CASE k \in 1..Len(inbox)
    <3>1. k \in Nat /\ k <= Len(inbox) /\ inbox'[k] = inbox[k]
      BY <1>2, <2>2
    <3>2. ~Later(inbox, Moves, c, k) /\ ~(m.kind \in Moves /\ m.chat = c)
      BY <1>3, <1>4, <3>1
    <3> QED BY <1>4, <2>2, <3>1, <3>2 DEF StreamInv, ToldFollow
  <2>3. k = Len(inbox) + 1 \/ k \in 1..Len(inbox)
    BY <1>2
  <2> QED BY <2>1, <2>2, <2>3
<1>5. ASSUME NEW c \in told', ~Later(inbox', Moves, c, 0)
      PROVE  c \in RowIds' \/ asked'[c] > 0 \/ Later(inbox', {"chat"}, c, 0)
  <2>1. 0 \in Nat /\ 0 <= Len(inbox)
    BY <1>2
  <2>2. ~Later(inbox, Moves, c, 0) /\ ~(m.kind \in Moves /\ m.chat = c)
    BY <1>3, <1>5, <2>1
  <2>3. /\ c \in RowIds \/ asked[c] > 0 \/ Later(inbox, {"chat"}, c, 0)
        /\ asked'[c] = asked[c] \/ (m.kind = "chat" /\ m.chat = c)
    BY <2>2 DEF StreamInv, ToldFollow
  <2>4. Later(inbox', {"chat"}, c, 0)
          <=> Later(inbox, {"chat"}, c, 0) \/ (m.kind \in {"chat"} /\ m.chat = c)
    BY <1>3, <2>1
  <2> QED BY <1>1, <2>3, <2>4
<1> QED BY <1>4, <1>5 DEF ToldFollow

LEMMA HandledTold ==
  ASSUME StreamInv, Handled, told' = told,
         \A c \in told :
           IF Received.kind \in Moves /\ Received.chat = c
           THEN Received.order > 0 => c \in RowIds' \/ asked'[c] > 0
           ELSE /\ c \in RowIds => c \in RowIds'
                /\ asked[c] > 0 => asked'[c] > 0
                /\ Received.kind = "chat" /\ Received.chat = c => c \in RowIds'
  PROVE  ToldFollow'
<1>1. inbox \in Seq(Message) /\ inbox # <<>> /\ inbox' = Tail(inbox)
  BY DEF StreamInv, ListInv, TypeOK, Handled
<1>2. /\ Len(inbox) \in Nat /\ Len(inbox) > 0
      /\ Len(inbox') = Len(inbox) - 1
      /\ \A j \in 1..Len(inbox') : inbox'[j] = inbox[j + 1]
      /\ Received = inbox[1]
  BY <1>1, HeadTailProperties, LenProperties, EmptySeq DEF Received
<1>3. \A kinds, c : \A k \in Nat : Later(inbox', kinds, c, k) <=> Later(inbox, kinds, c, k + 1)
  BY <1>1, LaterTail
<1>4. \A kinds, c : Later(inbox', kinds, c, 0) <=> Later(inbox, kinds, c, 1)
  <2>1. 0 \in Nat /\ 0 + 1 = 1
    OBVIOUS
  <2> QED BY <1>3, <2>1
<1>5. \A kinds, c : Later(inbox, kinds, c, 0)
                      <=> Later(inbox, kinds, c, 1)
                            \/ (Received.kind \in kinds /\ Received.chat = c)
  <2> SUFFICES ASSUME NEW kinds, NEW c
               PROVE  Later(inbox, kinds, c, 0)
                        <=> Later(inbox, kinds, c, 1)
                              \/ (Received.kind \in kinds /\ Received.chat = c)
    OBVIOUS
  <2>1. 0 \in Nat
    OBVIOUS
  <2> QED BY <1>1, <2>1, LaterTail DEF Received
<1>6. ASSUME NEW c \in told, NEW k \in 1..Len(inbox'),
             inbox'[k].kind \in Moves, inbox'[k].chat = c, ~Later(inbox', Moves, c, k)
      PROVE  inbox'[k].order > 0
  <2>1. k \in Nat /\ k + 1 \in 1..Len(inbox) /\ inbox'[k] = inbox[k + 1]
    BY <1>2
  <2>2. ~Later(inbox, Moves, c, k + 1)
    BY <1>3, <1>6, <2>1
  <2> QED BY <1>6, <2>1, <2>2 DEF StreamInv, ToldFollow
<1>7. ASSUME NEW c \in told, ~Later(inbox', Moves, c, 0)
      PROVE  c \in RowIds' \/ asked'[c] > 0 \/ Later(inbox', {"chat"}, c, 0)
  <2>1. ~Later(inbox, Moves, c, 1)
    BY <1>4, <1>7
  <2>2. CASE Received.kind \in Moves /\ Received.chat = c
    <3>1. 1 \in 1..Len(inbox)
      BY <1>2
    <3>2. Received.order > 0
      BY <1>2, <2>1, <2>2, <3>1 DEF StreamInv, ToldFollow
    <3> QED BY <2>2, <3>2
  <2>3. CASE ~(Received.kind \in Moves /\ Received.chat = c)
    <3>1. ~Later(inbox, Moves, c, 0)
      BY <1>5, <2>1, <2>3
    <3>2. c \in RowIds \/ asked[c] > 0 \/ Later(inbox, {"chat"}, c, 0)
      BY <3>1 DEF StreamInv, ToldFollow
    <3>3. Later(inbox, {"chat"}, c, 0)
            <=> Later(inbox', {"chat"}, c, 0) \/ (Received.kind = "chat" /\ Received.chat = c)
      BY <1>4, <1>5
    <3> QED BY <2>3, <3>2, <3>3
  <2> QED BY <2>2, <2>3
<1> QED BY <1>6, <1>7 DEF ToldFollow

-----------------------------------------------------------------------------
(* The stream invariant, action by action. *)

LEMMA StreamInit == Init => StreamInv
<1> SUFFICES ASSUME Init PROVE StreamInv
  OBVIOUS
<1>1. inbox = <<>> /\ m_chats = <<>> /\ told = {}
  BY DEF Init
<1>2. MessagesFollow /\ RowsFollow /\ ToldFollow
  BY <1>1 DEF MessagesFollow, RowsFollow, ToldFollow, RowSet
<1> QED BY <1>2, ListInvInit DEF StreamInv

(* Without a message, orders may move only unheard, and nothing is told. *)
LEMMA QuietStep ==
  ASSUME StreamInv, UNCHANGED <<inbox, last, m_chats>>,
         \A c \in Chats : /\ c \in silent => c \in silent'
                          /\ c \in silent' \/ order'[c] = order[c],
         told' = told /\ asked' = asked
  PROVE  MessagesFollow' /\ RowsFollow' /\ ToldFollow'
<1>1. ASSUME NEW c \in Chats, NEW o, NEW k, FollowsOrder(c, o, k)
      PROVE  FollowsOrder(c, o, k)'
  BY <1>1 DEF FollowsOrder
<1>2. ASSUME NEW c \in Chats, NEW v, NEW k, FollowsLast(c, v, k)
      PROVE  FollowsLast(c, v, k)'
  BY <1>2 DEF FollowsLast
<1>3. ASSUME NEW k \in 1..Len(inbox), NEW x, x = inbox[k]
      PROVE  MessageFollows(x, k)'
  <2>1. x \in Message /\ MessageFollows(x, k)
    BY <1>3, ElementOfSeq
       DEF StreamInv, ListInv, TypeOK, MessagesFollow, MessageFollows
  <2>2. /\ x.kind \in Singles => x.chat \in Chats
        /\ x.kind \in Carriers => x.chat \in Chats
    BY <2>1, MessageType DEF Singles, Moves, Carriers
  <2> QED BY <1>1, <1>2, <2>1, <2>2 DEF MessageFollows
<1>4. MessagesFollow'
  BY <1>3 DEF MessagesFollow, MessageFollows, FollowsOrder, FollowsLast
<1>5. ASSUME NEW r \in RowSet(m_chats)
      PROVE  FollowsOrder(r.id, r.order, 0)' /\ FollowsLast(r.id, r.last, 0)'
  <2>1. r.id \in Chats
    BY ListInvOK, RowType, ElementOfSeq DEF StreamInv, ListOK, RowSet
  <2> QED BY <1>1, <1>2, <2>1 DEF StreamInv, RowsFollow
<1>6. RowsFollow'
  BY <1>5 DEF RowsFollow
<1>7. ToldFollow'
  BY DEF StreamInv, ToldFollow, RowIds
<1> QED BY <1>4, <1>6, <1>7

LEMMA TDLibStepStream ==
  ASSUME StreamInv, TypeOK', TDLibStep
  PROVE  MessagesFollow' /\ RowsFollow' /\ ToldFollow'
<1>1. TypeOK
  BY DEF StreamInv, ListInv
<1>2. order \in [Chats -> Orders] /\ last \in [Chats -> Nat] /\ asked \in [Chats -> Nat]
  BY <1>1 DEF TypeOK
<1>3. ASSUME NEW c \in Chats, NEW o \in Orders, OrderChanges(c, o)
      PROVE  MessagesFollow' /\ RowsFollow' /\ ToldFollow'
  <2> DEFINE m == [kind |-> "updateChatOrder", chat |-> c, order |-> o]
  <2>1. Push(m) /\ m \in Message /\ UNCHANGED <<last, asked, m_chats>>
    BY <1>3 DEF OrderChanges, model, Message, OrderMsg
  <2>2. Truthful(m)
    BY <1>2, <1>3, <2>1 DEF Truthful, OrderChanges, Announce, Singles, Moves, News, Carriers
  <2>3. MessagesFollow' /\ RowsFollow'
    BY <2>1, <2>2, PushKeeps
  <2>4. \A d \in told' :
          \/ m.kind \in Moves /\ m.chat = d /\ m.order > 0
          \/ d \in told /\ ~(m.kind \in Moves /\ m.chat = d) /\ asked'[d] = asked[d]
    BY <1>3, <2>1 DEF OrderChanges, Announce, Moves
  <2>5. ToldFollow'
    BY <2>1, <2>4, PushTold
  <2> QED BY <2>3, <2>5
<1>4. ASSUME NEW c \in Chats, NEW o \in Orders, LastMessageChanges(c, o)
      PROVE  MessagesFollow' /\ RowsFollow' /\ ToldFollow'
  <2> DEFINE m == [kind |-> "updateChatLastMessage", chat |-> c, order |-> o,
                   last |-> last[c] + 1]
  <2>1. Push(m) /\ m \in Message /\ UNCHANGED <<asked, m_chats>>
    BY <1>2, <1>4 DEF LastMessageChanges, model, Message, LastMsg
  <2>2. Truthful(m)
    BY <1>2, <1>4, <2>1
       DEF Truthful, LastMessageChanges, Announce, Singles, Moves, News, Carriers
  <2>3. MessagesFollow' /\ RowsFollow'
    BY <2>1, <2>2, PushKeeps
  <2>4. \A d \in told' :
          \/ m.kind \in Moves /\ m.chat = d /\ m.order > 0
          \/ d \in told /\ ~(m.kind \in Moves /\ m.chat = d) /\ asked'[d] = asked[d]
    BY <1>4, <2>1 DEF LastMessageChanges, Announce, Moves
  <2>5. ToldFollow'
    BY <2>1, <2>4, PushTold
  <2> QED BY <2>3, <2>5
<1>5. ASSUME NEW c \in Chats, NEW o \in Orders, OrderChangesUnheard(c, o)
      PROVE  MessagesFollow' /\ RowsFollow' /\ ToldFollow'
  BY <1>2, <1>5, QuietStep DEF OrderChangesUnheard, model
<1>6. ASSUME NEW c \in Chats, AnswerGetChat(c)
      PROVE  MessagesFollow' /\ RowsFollow' /\ ToldFollow'
  <2> DEFINE m == [kind |-> "chat", chat |-> c, order |-> order[c], last |-> last[c]]
  <2>1. Push(m) /\ m \in Message /\ UNCHANGED <<order, last, silent, told, m_chats>>
    BY <1>2, <1>6 DEF AnswerGetChat, model, history, Message, ChatMsg
  <2>2. Truthful(m)
    BY <1>2, <2>1 DEF Truthful, Singles, Moves, News, Carriers
  <2>3. MessagesFollow' /\ RowsFollow'
    BY <2>1, <2>2, PushKeeps
  <2>4. \A d \in Chats : asked'[d] = asked[d] \/ (m.kind = "chat" /\ m.chat = d)
    BY <1>2, <1>6 DEF AnswerGetChat
  <2>5. \A d \in told' : d \in told /\ d \in Chats /\ ~(m.kind \in Moves)
    BY <1>1, <2>1 DEF TypeOK, Moves
  <2>6. ToldFollow'
    BY <2>1, <2>4, <2>5, PushTold
  <2> QED BY <2>3, <2>6
<1>7. ASSUME AnswerGetChats
      PROVE  MessagesFollow' /\ RowsFollow' /\ ToldFollow'
  <2> DEFINE m == [kind |-> "chats", chat_ids |-> PageAfter(Head(pages))]
  <2>1. /\ Push(m) /\ m \in Message
        /\ UNCHANGED <<order, last, asked, silent, told, m_chats>>
    BY <1>7 DEF AnswerGetChats, model, history, Message, ChatsMsg, PageAfter
  <2>2. ~(m.kind \in Singles) /\ ~(m.kind \in Moves) /\ ~(m.kind \in Carriers)
        /\ ~(m.kind \in News)
    BY DEF Singles, Moves, Carriers, News
  <2> HIDE DEF m
  <2>3. Truthful(m)
    BY <1>2, <2>1, <2>2 DEF Truthful
  <2>4. MessagesFollow' /\ RowsFollow'
    BY <2>1, <2>3, PushKeeps
  <2>5. ToldFollow'
    BY <2>1, <2>2, PushTold
  <2> QED BY <2>4, <2>5
<1>8. ASSUME FailGetChats
      PROVE  MessagesFollow' /\ RowsFollow' /\ ToldFollow'
  BY <1>8, QuietStep DEF FailGetChats, model, history
<1> QED BY <1>3, <1>4, <1>5, <1>6, <1>7, <1>8 DEF TDLibStep

(* The row moved by updateChatOrder takes the order from the message and keeps
   a last message no newer message has replaced. *)
LEMMA UpdateOrderStream ==
  ASSUME StreamInv, updateChatOrder
  PROVE  MessagesFollow' /\ RowsFollow' /\ ToldFollow'
<1> DEFINE c == Received.chat
           o == Received.order
           row == [RowOf(c) EXCEPT !.order = o]
<1>1. TypeOK /\ ListOK /\ told \subseteq Chats /\ asked \in [Chats -> Nat]
  BY ListInvOK DEF StreamInv, ListInv, TypeOK
<1>2. Handled /\ told' = told
  BY DEF updateChatOrder, Consume, Handled, Received, history
<1>3. Received \in Message /\ Received.kind = "updateChatOrder"
  BY <1>1, ConsumeType DEF updateChatOrder
<1>4. Received.kind \in Moves /\ Received.kind \in Singles /\ Received.kind \notin News
      /\ c \in Chats /\ o \in Nat
  BY <1>3, MessageType DEF Moves, Singles, News
<1>5. /\ o # 0 /\ c \in RowIds => Replaces(c, row) /\ asked' = asked
      /\ o # 0 /\ c \notin RowIds => Removes(c) /\ getChat(c)
      /\ o = 0 => Removes(c) /\ asked' = asked
  BY <1>1, UpdateOrderFacts
<1>6. MessagesFollow'
  BY <1>2, HandledFollows
<1>7. ASSUME NEW r \in RowSet(m_chats), r.id # c
      PROVE  FollowsOrder(r.id, r.order, 0)' /\ FollowsLast(r.id, r.last, 0)'
  BY <1>2, <1>7, OldRowFollows
<1>8. ASSUME c \in RowIds, NEW r, r = row
      PROVE  FollowsOrder(r.id, r.order, 0)' /\ FollowsLast(r.id, r.last, 0)'
  <2>1. /\ RowOf(c) \in Row
        /\ RowOf(c) \in RowSet(m_chats)
        /\ RowOf(c).id = c
    BY <1>1, <1>8, RowOfFacts
  <2>2. r.id = c /\ r.order = o /\ r.last = RowOf(c).last
    BY <1>8, <2>1 DEF Row
  <2>3. FollowsOrder(r.id, r.order, 0)'
    <3>1. \A m : m = Received => MessageFollows(m, 0)'
      BY <1>2, HandledFollows
    <3>2. PICK m : m = Received
      OBVIOUS
    <3>3. FollowsOrder(m.chat, m.order, 0)'
      BY <1>4, <3>1, <3>2 DEF MessageFollows
    <3>4. m.chat = r.id /\ m.order = r.order
      BY <2>2, <3>2
    <3> QED BY <3>3, <3>4
  <2>4. FollowsLast(r.id, r.last, 0)
    BY <2>1, <2>2 DEF StreamInv, RowsFollow
  <2>5. FollowsLast(r.id, r.last, 0)'
    BY <1>1, <1>2, <1>4, <2>4, TailFollows
  <2> QED BY <2>3, <2>5
<1>9. RowsFollow'
  <2> SUFFICES ASSUME NEW r \in RowSet(m_chats')
               PROVE  FollowsOrder(r.id, r.order, 0)' /\ FollowsLast(r.id, r.last, 0)'
    BY DEF RowsFollow
  <2>1. \/ c \in RowIds /\ r = row
        \/ r \in RowSet(m_chats) /\ r.id # c
    BY <1>5 DEF Replaces, Removes
  <2> QED BY <1>7, <1>8, <2>1
<1>10. ToldFollow'
  <2>1. o > 0 => c \in RowIds' \/ asked'[c] > 0
    <3>1. o # 0 /\ c \in RowIds => c \in RowIds'
      <4>1. c \in RowIds => row.id = c
        BY <1>1, RowOfFacts DEF Row
      <4> QED BY <1>5, <4>1, IdsOfRowSet DEF Replaces, RowIds
    <3>2. o # 0 /\ c \notin RowIds => asked'[c] > 0
      BY <1>1, <1>4, <1>5 DEF getChat
    <3> QED BY <1>4, <3>1, <3>2
  <2>2. \A d \in told : d # c /\ d \in RowIds => d \in RowIds'
    BY <1>5, IdsOfRowSet DEF Replaces, Removes, RowIds
  <2>3. \A d \in told : asked[d] > 0 => asked'[d] > 0
    BY <1>1, <1>4, <1>5 DEF getChat
  <2> QED BY <1>2, <1>3, <1>4, <2>1, <2>2, <2>3, HandledTold
<1> QED BY <1>6, <1>9, <1>10

(* The row changed by updateChatLastMessage is all from the message. *)
LEMMA UpdateLastStream ==
  ASSUME StreamInv, updateChatLastMessage
  PROVE  MessagesFollow' /\ RowsFollow' /\ ToldFollow'
<1> DEFINE c == Received.chat
           o == Received.order
           row == [id |-> c, order |-> o, last |-> Received.last]
<1>1. TypeOK /\ ListOK /\ told \subseteq Chats /\ asked \in [Chats -> Nat]
  BY ListInvOK DEF StreamInv, ListInv, TypeOK
<1>2. Handled /\ told' = told
  BY DEF updateChatLastMessage, Consume, Handled, Received, history
<1>3. Received \in Message /\ Received.kind = "updateChatLastMessage"
  BY <1>1, ConsumeType DEF updateChatLastMessage
<1>4. Received.kind \in Moves /\ Received.kind \in Singles /\ Received.kind \in Carriers
      /\ c \in Chats /\ o \in Nat
  BY <1>3, MessageType DEF Moves, Singles, Carriers
<1>5. /\ c \in RowIds => Replaces(c, row) /\ asked' = asked
      /\ c \notin RowIds =>
           /\ Removes(c)
           /\ IF o > 0 THEN getChat(c) ELSE asked' = asked
  BY <1>1, UpdateLastFacts
<1>6. MessagesFollow' /\ \A m : m = Received => MessageFollows(m, 0)'
  BY <1>2, HandledFollows
<1>7. ASSUME NEW r \in RowSet(m_chats), r.id # c
      PROVE  FollowsOrder(r.id, r.order, 0)' /\ FollowsLast(r.id, r.last, 0)'
  BY <1>2, <1>7, OldRowFollows
<1>8. ASSUME NEW r, r = row
      PROVE  FollowsOrder(r.id, r.order, 0)' /\ FollowsLast(r.id, r.last, 0)'
  <2>1. PICK m : m = Received
    OBVIOUS
  <2>2. FollowsOrder(m.chat, m.order, 0)' /\ FollowsLast(m.chat, m.last, 0)'
    BY <1>4, <1>6, <2>1 DEF MessageFollows
  <2>3. m.chat = r.id /\ m.order = r.order /\ m.last = r.last
    BY <1>8, <2>1
  <2> QED BY <2>2, <2>3
<1>9. RowsFollow'
  <2> SUFFICES ASSUME NEW r \in RowSet(m_chats')
               PROVE  FollowsOrder(r.id, r.order, 0)' /\ FollowsLast(r.id, r.last, 0)'
    BY DEF RowsFollow
  <2>1. r = row \/ (r \in RowSet(m_chats) /\ r.id # c)
    BY <1>5 DEF Replaces, Removes
  <2> QED BY <1>7, <1>8, <2>1
<1>10. ToldFollow'
  <2>1. c \in RowIds => c \in RowIds'
    <3>1. row.id = c
      OBVIOUS
    <3> HIDE DEF row
    <3> QED BY <1>5, <3>1, IdsOfRowSet DEF Replaces, RowIds
  <2>2. o > 0 /\ c \notin RowIds => asked'[c] > 0
    BY <1>1, <1>4, <1>5 DEF getChat
  <2>3. \A d \in told : d # c /\ d \in RowIds => d \in RowIds'
    BY <1>5, IdsOfRowSet DEF Replaces, Removes, RowIds
  <2>4. \A d \in told : asked[d] > 0 => asked'[d] > 0
    BY <1>1, <1>4, <1>5 DEF getChat
  <2> QED BY <1>2, <1>3, <1>4, <2>1, <2>2, <2>3, <2>4, HandledTold
<1> QED BY <1>6, <1>9, <1>10

(* addChat: a new row is all from the answer, an old one is kept. *)
LEMMA AddChatStream ==
  ASSUME StreamInv, addChat
  PROVE  MessagesFollow' /\ RowsFollow' /\ ToldFollow'
<1> DEFINE c == Received.chat
           row == [id |-> c, order |-> Received.order, last |-> Received.last]
<1>1. TypeOK /\ ListOK
  BY ListInvOK DEF StreamInv, ListInv
<1>2. Handled /\ told' = told /\ asked' = asked
  BY DEF addChat, Consume, Handled, Received, history
<1>3. Received.kind = "chat"
  BY <1>1, ConsumeType DEF addChat
<1>4. Received.kind \notin Moves /\ Received.kind \in Singles /\ Received.kind \in Carriers
  BY <1>3 DEF Moves, Singles, Carriers
<1>5. /\ c \in RowIds => m_chats' = m_chats
      /\ c \notin RowIds => Adds(row)
  BY <1>1, AddChatFacts
<1>6. MessagesFollow' /\ \A m : m = Received => MessageFollows(m, 0)'
  BY <1>2, HandledFollows
<1>7. ASSUME NEW r \in RowSet(m_chats)
      PROVE  FollowsOrder(r.id, r.order, 0)' /\ FollowsLast(r.id, r.last, 0)'
  BY <1>2, <1>4, OldRowFollows
<1>8. ASSUME NEW r, r = row
      PROVE  FollowsOrder(r.id, r.order, 0)' /\ FollowsLast(r.id, r.last, 0)'
  <2>1. PICK m : m = Received
    OBVIOUS
  <2>2. FollowsOrder(m.chat, m.order, 0)' /\ FollowsLast(m.chat, m.last, 0)'
    BY <1>4, <1>6, <2>1 DEF MessageFollows
  <2>3. m.chat = r.id /\ m.order = r.order /\ m.last = r.last
    BY <1>8, <2>1
  <2> QED BY <2>2, <2>3
<1>9. RowsFollow'
  <2> SUFFICES ASSUME NEW r \in RowSet(m_chats')
               PROVE  FollowsOrder(r.id, r.order, 0)' /\ FollowsLast(r.id, r.last, 0)'
    BY DEF RowsFollow
  <2>1. r = row \/ r \in RowSet(m_chats)
    BY <1>5 DEF Adds
  <2> QED BY <1>7, <1>8, <2>1
<1>10. ToldFollow'
  <2>1. row.id = c
    OBVIOUS
  <2> HIDE DEF row
  <2>2. c \in RowIds' /\ \A d : d \in RowIds => d \in RowIds'
    BY <1>5, <2>1, IdsOfRowSet DEF Adds, RowIds
  <2> QED BY <1>2, <1>4, <2>2, HandledTold
<1> QED BY <1>6, <1>9, <1>10

(* addChats only asks. *)
LEMMA AddChatsStream ==
  ASSUME StreamInv, addChats
  PROVE  MessagesFollow' /\ RowsFollow' /\ ToldFollow'
<1>1. TypeOK /\ told \subseteq Chats /\ asked \in [Chats -> Nat]
  BY DEF StreamInv, ListInv, TypeOK
<1>2. Handled /\ told' = told /\ m_chats' = m_chats
  BY DEF addChats, Consume, Handled, Received, history, model
<1>3. Received.kind = "chats"
  BY <1>1, ConsumeType DEF addChats
<1>4. Received.kind \notin Moves
  BY <1>3 DEF Moves
<1>5. MessagesFollow'
  BY <1>2, HandledFollows
<1>6. RowsFollow'
  BY <1>2, <1>4, OldRowFollows DEF RowsFollow
<1>7. ToldFollow'
  <2>1. \A d \in told : asked[d] > 0 => asked'[d] > 0
    BY <1>1 DEF addChats
  <2>2. RowIds' = RowIds
    BY <1>2 DEF RowIds
  <2> QED BY <1>2, <1>3, <1>4, <2>1, <2>2, HandledTold
<1> QED BY <1>5, <1>6, <1>7

(* Asking for a page changes nothing that follows; a cleared list owes nothing. *)
LEMMA FetchStream ==
  ASSUME StreamInv, fetchMore \/ reset \/ onAuthorizationStateChanged
  PROVE  MessagesFollow' /\ RowsFollow' /\ ToldFollow'
<1>1. UNCHANGED <<order, last, asked, inbox, silent>>
  BY DEF fetchMore, reset, onAuthorizationStateChanged, history
<1>2. MessagesFollow'
  BY <1>1 DEF StreamInv, MessagesFollow, FollowsOrder, FollowsLast
<1>3. CASE told' = told /\ m_chats' = m_chats
  BY <1>1, <1>2, <1>3
     DEF StreamInv, RowsFollow, ToldFollow, FollowsOrder, FollowsLast, RowIds
<1>4. CASE told' = {} /\ m_chats' = <<>>
  BY <1>2, <1>4 DEF RowsFollow, ToldFollow, RowSet
<1>5. (told' = told /\ m_chats' = m_chats) \/ (told' = {} /\ m_chats' = <<>>)
  BY DEF fetchMore, reset, onAuthorizationStateChanged, ResetList, history
<1> QED BY <1>3, <1>4, <1>5

LEMMA StreamStep == StreamInv /\ [Next]_vars => StreamInv'
<1> SUFFICES ASSUME StreamInv, [Next]_vars PROVE StreamInv'
  OBVIOUS
<1>1. ListInv' /\ TypeOK'
  BY ListInvStep DEF StreamInv, ListInv
<1>2. MessagesFollow' /\ RowsFollow' /\ ToldFollow'
  <2>1. CASE UNCHANGED vars
    BY <2>1 DEF vars, StreamInv, MessagesFollow, RowsFollow, ToldFollow,
                FollowsOrder, FollowsLast, RowIds
  <2>2. CASE TDLibStep
    BY <1>1, <2>2, TDLibStepStream
  <2>3. CASE Handle
    BY <2>3, UpdateOrderStream, UpdateLastStream, AddChatStream, AddChatsStream DEF Handle
  <2>4. CASE fetchMore \/ reset \/ onAuthorizationStateChanged
    BY <2>4, FetchStream
  <2> QED BY <2>1, <2>2, <2>3, <2>4 DEF Next
<1> QED BY <1>1, <1>2 DEF StreamInv

LEMMA StreamInvariant == Spec => []StreamInv
BY StreamInit, StreamStep, PTL DEF Spec

-----------------------------------------------------------------------------
(* The theorems. *)

(* However updates and answers interleave, when nothing is under way every row
   shows the last message and the last announced order of its chat. *)
THEOREM Current == Spec => []RowsCurrent
<1>1. StreamInv => RowsCurrent
  <2> SUFFICES ASSUME StreamInv, Quiet, NEW i \in 1..Len(m_chats)
               PROVE  LET row == m_chats[i]
                      IN  /\ row.last = last[row.id]
                          /\ row.id \in silent \/ row.order = order[row.id]
    BY DEF RowsCurrent
  <2> DEFINE row == m_chats[i]
  <2>1. FollowsOrder(row.id, row.order, 0) /\ FollowsLast(row.id, row.last, 0)
    BY DEF StreamInv, RowsFollow, RowSet
  <2>2. \A kinds, c : ~Later(inbox, kinds, c, 0)
    BY DEF Quiet, Later
  <2> QED BY <2>1, <2>2 DEF FollowsOrder, FollowsLast
<1> QED BY <1>1, StreamInvariant, PTL

(* When nothing is under way every chat TDLib announced in the list has its
   row. *)
THEOREM Complete == Spec => []NoLostChat
<1>1. StreamInv => NoLostChat
  <2> SUFFICES ASSUME StreamInv, Quiet, NEW c \in told
               PROVE  c \in RowIds
    BY DEF NoLostChat
  <2>1. \A kinds : ~Later(inbox, kinds, c, 0)
    BY DEF Quiet, Later
  <2>2. c \in Chats /\ ~(asked[c] > 0)
    BY DEF StreamInv, ListInv, TypeOK, Quiet
  <2> QED BY <2>1, <2>2 DEF StreamInv, ToldFollow
<1> QED BY <1>1, StreamInvariant, PTL

-----------------------------------------------------------------------------
(* The list implements ChatMirror. *)

\* ShownLast, of any list.
Shown(s) == [c \in Chats |-> IF c \in Ids(s) THEN s[getIndex(s, c)].last ELSE -1]

LEMMA ShownIsShownLast == ShownLast = Shown(m_chats) /\ ShownLast' = Shown(m_chats')
BY DEF ShownLast, Shown, RowIds, RowOf

LEMMA ShownOfRow ==
  ASSUME NEW s, UniqueIds(s), NEW r \in RowSet(s), r.id \in Chats
  PROVE  Shown(s)[r.id] = r.last
<1>1. r.id \in Ids(s)
  BY IdsOfRowSet
<1>2. r = s[getIndex(s, r.id)]
  BY <1>1, RowAtIndex
<1> QED BY <1>1, <1>2 DEF Shown

(* Replacing or adding the row of c changes what is shown of c only. *)
LEMMA ShownReplace ==
  ASSUME NEW s \in Seq(Row), UniqueIds(s), NEW t \in Seq(Row), UniqueIds(t),
         NEW c \in Chats, NEW row \in Row, row.id = c,
         \A r : r \in RowSet(t) <=> r = row \/ (r \in RowSet(s) /\ r.id # c)
  PROVE  Shown(t) = [Shown(s) EXCEPT ![c] = row.last]
<1> SUFFICES ASSUME NEW d \in Chats
             PROVE  Shown(t)[d] = IF d = c THEN row.last ELSE Shown(s)[d]
  BY DEF Shown
<1>1. CASE d = c
  BY <1>1, ShownOfRow
<1>2. CASE d # c /\ d \in Ids(s)
  <2>1. PICK r \in RowSet(s) : r.id = d
    BY <1>2, IdsOfRowSet
  <2>2. r \in RowSet(t)
    BY <1>2, <2>1
  <2> QED BY <1>2, <2>1, <2>2, ShownOfRow
<1>3. CASE d # c /\ d \notin Ids(s)
  <2>1. d \notin Ids(t)
    BY <1>3, IdsOfRowSet
  <2> QED BY <1>3, <2>1 DEF Shown
<1> QED BY <1>1, <1>2, <1>3

(* Removing the row of c hides c only. *)
LEMMA ShownRemove ==
  ASSUME NEW s \in Seq(Row), UniqueIds(s), NEW t \in Seq(Row), UniqueIds(t),
         NEW c \in Chats,
         \A r : r \in RowSet(t) <=> r \in RowSet(s) /\ r.id # c
  PROVE  Shown(t) = [Shown(s) EXCEPT ![c] = -1]
<1> SUFFICES ASSUME NEW d \in Chats
             PROVE  Shown(t)[d] = IF d = c THEN -1 ELSE Shown(s)[d]
  BY DEF Shown
<1>1. CASE d = c
  <2>1. d \notin Ids(t)
    BY <1>1, IdsOfRowSet
  <2> QED BY <1>1, <2>1 DEF Shown
<1>2. CASE d # c /\ d \in Ids(s)
  <2>1. PICK r \in RowSet(s) : r.id = d
    BY <1>2, IdsOfRowSet
  <2>2. r \in RowSet(t)
    BY <1>2, <2>1
  <2> QED BY <1>2, <2>1, <2>2, ShownOfRow
<1>3. CASE d # c /\ d \notin Ids(s)
  <2>1. d \notin Ids(t)
    BY <1>3, IdsOfRowSet
  <2> QED BY <1>3, <2>1 DEF Shown
<1> QED BY <1>1, <1>2, <1>3

LEMMA MirrorInit == Init => Mirror!Init
<1> SUFFICES ASSUME Init PROVE Mirror!Init
  OBVIOUS
<1>1. m_chats = <<>> /\ last = [c \in Chats |-> 0]
  BY DEF Init
<1>2. ShownLast = [c \in Chats |-> -1]
  BY <1>1 DEF ShownLast, RowIds, Ids
<1> QED BY <1>1, <1>2 DEF Mirror!Init, Mirror!Absent

(* A message that replaces the row of its chat shows a newer last message. *)
LEMMA NewsShows ==
  ASSUME StreamInv, StreamInv', UNCHANGED last, inbox # <<>>,
         Received.kind \in Carriers,
         NEW row, row.id = Received.chat, row.last = Received.last, row \in Row,
         Replaces(Received.chat, row)
  PROVE  Mirror!Show(Received.chat)
<1> DEFINE c == Received.chat
<1>1. /\ ListOK /\ inbox \in Seq(Message) /\ last \in [Chats -> Nat]
      /\ m_chats' \in Seq(Row) /\ UniqueIds(m_chats')
  BY ListInvOK DEF StreamInv, ListInv, TypeOK, NoDuplicateRows
<1>2. /\ 1 \in 1..Len(inbox) /\ inbox[1] = Received
      /\ c \in Chats /\ row.last \in Nat
  BY <1>1, HeadTailProperties, LenProperties, EmptySeq, RowType DEF Received
<1>3. Shown(m_chats') = [Shown(m_chats) EXCEPT ![c] = row.last]
  <2>1. m_chats \in Seq(Row) /\ UniqueIds(m_chats) /\ row.id = c
    BY <1>1 DEF ListOK
  <2>2. \A r : r \in RowSet(m_chats') <=> r = row \/ (r \in RowSet(m_chats) /\ r.id # c)
    BY DEF Replaces
  <2> HIDE DEF c
  <2> QED BY <1>1, <1>2, <2>1, <2>2, ShownReplace
<1>4. row.last <= last[c]
  BY <1>2 DEF StreamInv, MessagesFollow, FollowsLast
<1>5. row.last >= Shown(m_chats)[c]
  <2>1. CASE c \in RowIds
    <3>1. PICK r \in RowSet(m_chats) : r.id = c
      BY <2>1, IdsOfRowSet DEF RowIds
    <3>2. r.last <= row.last
      <4>1. FollowsLast(c, r.last, 0)
        BY <3>1 DEF StreamInv, RowsFollow
      <4> QED BY <1>2, <4>1 DEF FollowsLast
    <3>3. r.last \in Nat
      BY <1>1, <3>1, RowType, ElementOfSeq DEF ListOK, RowSet
    <3>4. Shown(m_chats)[c] = r.last
      BY <1>1, <1>2, <3>1, ShownOfRow DEF ListOK
    <3> QED BY <1>2, <3>2, <3>3, <3>4
  <2>2. CASE c \notin RowIds
    <3>1. Shown(m_chats)[c] = -1
      BY <1>2, <2>2 DEF Shown, RowIds
    <3> QED BY <1>2, <3>1
  <2> QED BY <2>1, <2>2
<1>6. row.last \in 0..last[c]
  BY <1>1, <1>2, <1>4
<1> QED BY <1>3, <1>5, <1>6, ShownIsShownLast DEF Mirror!Show

LEMMA MirrorStep ==
  ASSUME StreamInv, StreamInv', [Next]_vars
  PROVE  [Mirror!Next]_<<last, ShownLast>>
<1> USE ShownIsShownLast
<1>1. /\ TypeOK /\ ListOK /\ last \in [Chats -> Nat]
      /\ m_chats' \in Seq(Row) /\ UniqueIds(m_chats')
  BY ListInvOK DEF StreamInv, ListInv, TypeOK, NoDuplicateRows
<1>2. CASE UNCHANGED <<last, m_chats>>
  BY <1>2
<1>3. CASE UNCHANGED last /\ m_chats' = <<>>
  <2>1. ShownLast' = [c \in Chats |-> -1]
    BY <1>3 DEF Shown, Ids
  <2> QED BY <1>3, <2>1 DEF Mirror!Next, Mirror!HideAll, Mirror!Absent
<1>4. ASSUME NEW c \in Chats, UNCHANGED last, Removes(c)
      PROVE  [Mirror!Next]_<<last, ShownLast>>
  <2>1. Shown(m_chats') = [Shown(m_chats) EXCEPT ![c] = -1]
    BY <1>1, <1>4, ShownRemove DEF ListOK, Removes
  <2>2. Mirror!Hide(c)
    BY <1>4, <2>1 DEF Mirror!Hide, Mirror!Absent
  <2> QED BY <2>2 DEF Mirror!Next
<1>5. ASSUME NEW c \in Chats, NEW o \in Orders, LastMessageChanges(c, o)
      PROVE  [Mirror!Next]_<<last, ShownLast>>
  <2>1. Mirror!Advance(c)
    BY <1>1, <1>5 DEF LastMessageChanges, model, Mirror!Advance
  <2> QED BY <2>1 DEF Mirror!Next
<1>6. CASE updateChatOrder
  <2> DEFINE c == Received.chat
             row == [RowOf(c) EXCEPT !.order = Received.order]
  <2>1. c \in Chats /\ Received.order \in Orders /\ UNCHANGED last
    BY <1>1, <1>6, ConsumeType, MessageType DEF updateChatOrder
  <2>2. Removes(c) \/ (c \in RowIds /\ Replaces(c, row))
    BY <1>1, <1>6, UpdateOrderFacts
  <2>3. CASE c \in RowIds /\ Replaces(c, row)
    <3>1. RowOf(c) \in Row /\ RowOf(c) \in RowSet(m_chats) /\ RowOf(c).id = c
      BY <1>1, <2>3, RowOfFacts
    <3>2. row \in Row /\ row.id = c /\ row.last = RowOf(c).last
      BY <2>1, <3>1 DEF Row
    <3>3. Shown(m_chats)[c] = row.last
      BY <1>1, <2>1, <3>1, <3>2, ShownOfRow DEF ListOK
    <3> HIDE DEF row
    <3>4. Shown(m_chats') = [Shown(m_chats) EXCEPT ![c] = row.last]
      BY <1>1, <2>1, <2>3, <3>2, ShownReplace DEF ListOK, Replaces
    <3>5. Shown(m_chats') = Shown(m_chats)
      BY <3>3, <3>4 DEF Shown
    <3> QED BY <2>1, <3>5
  <2> QED BY <1>4, <2>1, <2>2, <2>3
<1>7. CASE updateChatLastMessage
  <2> DEFINE c == Received.chat
             row == [id |-> c, order |-> Received.order, last |-> Received.last]
  <2>1. /\ c \in Chats /\ row \in Row /\ UNCHANGED last /\ inbox # <<>>
        /\ Received.kind \in Carriers
    BY <1>1, <1>7, ConsumeType, MessageType
       DEF updateChatLastMessage, Row, Carriers, Consume
  <2>2. Removes(c) \/ Replaces(c, row)
    BY <1>1, <1>7, UpdateLastFacts
  <2>3. row.id = c /\ row.last = Received.last
    OBVIOUS
  <2> HIDE DEF row
  <2>4. CASE Replaces(c, row)
    <3>1. Mirror!Show(c)
      BY <2>1, <2>3, <2>4, NewsShows
    <3> QED BY <2>1, <3>1 DEF Mirror!Next
  <2> QED BY <1>4, <2>1, <2>2, <2>4
<1>8. CASE addChat
  <2> DEFINE c == Received.chat
             row == [id |-> c, order |-> Received.order, last |-> Received.last]
  <2>1. /\ c \in Chats /\ row \in Row /\ UNCHANGED last /\ inbox # <<>>
        /\ Received.kind \in Carriers
    BY <1>1, <1>8, ConsumeType, MessageType DEF addChat, Row, Carriers, Consume
  <2>2. \/ m_chats' = m_chats
        \/ c \notin RowIds /\ Adds(row)
    BY <1>1, <1>8, AddChatFacts
  <2>3. row.id = c /\ row.last = Received.last
    OBVIOUS
  <2> HIDE DEF row
  <2>4. CASE c \notin RowIds /\ Adds(row)
    <3>1. Replaces(c, row)
      BY <2>4, AbsentRow DEF Replaces, Adds
    <3>2. Mirror!Show(c)
      BY <2>1, <2>3, <3>1, NewsShows
    <3> QED BY <2>1, <3>2 DEF Mirror!Next
  <2> QED BY <1>2, <2>1, <2>2, <2>4
<1>9. \/ UNCHANGED <<last, m_chats>>
      \/ UNCHANGED last /\ m_chats' = <<>>
      \/ \E c \in Chats, o \in Orders : LastMessageChanges(c, o)
      \/ updateChatOrder \/ updateChatLastMessage \/ addChat
  BY DEF Next, vars, TDLibStep, OrderChanges, OrderChangesUnheard, AnswerGetChat,
         AnswerGetChats, FailGetChats, Handle, addChats, fetchMore, reset,
         onAuthorizationStateChanged, ResetList, model
<1> QED BY <1>2, <1>3, <1>5, <1>6, <1>7, <1>8, <1>9

(* The chat list implements ChatMirror: the last message of a row is one TDLib
   has had, and never goes back while the row is shown. *)
THEOREM Mirrors == Spec => MirrorsChats
<1>1. Init => Mirror!Init
  BY MirrorInit
<1>2. StreamInv /\ StreamInv' /\ [Next]_vars => [Mirror!Next]_<<last, ShownLast>>
  BY MirrorStep
<1>3. Spec => Mirror!Spec
  BY <1>1, <1>2, StreamInvariant, PTL DEF Spec, Mirror!Spec
<1> QED BY <1>3 DEF MirrorsChats
=============================================================================
