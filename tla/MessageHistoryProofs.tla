------------------------- MODULE MessageHistoryProofs -------------------------
(***************************************************************************)
(* Theorems about MessageHistory for all its constants, checked by TLAPS.  *)
(*                                                                         *)
(* First what its operators do: pages are contiguous, rows are appended,   *)
(* prepended, renamed and removed.  Then the invariant of the rows: while  *)
(* there is no trouble, what is under way brings no message a second time. *)
(* Then the invariant of what has no row: every such message is below all  *)
(* rows, or above them while pages are still to come, and each page asked  *)
(* for or under way is next to it.                                         *)
(***************************************************************************)
EXTENDS MessageHistory, SequenceTheorems, FiniteSetTheorems, WellFoundedInduction, TLAPS

-----------------------------------------------------------------------------
(* Lists and finite sets. *)

(* What SubSeq cuts out of a list: a list, element by element. *)
LEMMA PartOfList ==
  ASSUME NEW S, NEW s \in Seq(S), NEW m \in 1..(Len(s) + 1), NEW n \in 0..Len(s), m <= n + 1
  PROVE  /\ SubSeq(s, m, n) \in Seq(S) /\ Len(SubSeq(s, m, n)) = n - m + 1
         /\ \A k \in 1..(n - m + 1) : SubSeq(s, m, n)[k] = s[m + k - 1]
<1>1. \A k \in m..n : s[k] \in S
  BY ElementOfSeq
<1> QED BY <1>1, SubSeqProperties

(* InsertAt keeps the elements before i and moves the others up by one. *)
LEMMA InsertAtProperties ==
  ASSUME NEW S, NEW s \in Seq(S), NEW e \in S, NEW i \in 1..(Len(s) + 1)
  PROVE  /\ InsertAt(s, i, e) \in Seq(S)
         /\ Len(InsertAt(s, i, e)) = Len(s) + 1
         /\ \A j \in 1..(Len(s) + 1) :
              InsertAt(s, i, e)[j] = IF j < i THEN s[j] ELSE IF j = i THEN e ELSE s[j - 1]
<1> DEFINE a == SubSeq(s, 1, i - 1)
           b == SubSeq(s, i, Len(s))
           c == Append(a, e)
<1>1. PICK n \in Nat : n = Len(s)
  BY LenProperties
<1>2. /\ a \in Seq(S) /\ Len(a) = i - 1 /\ \A k \in 1..(i - 1) : a[k] = s[1 + k - 1]
      /\ b \in Seq(S) /\ Len(b) = n - i + 1
      /\ \A k \in 1..(n - i + 1) : b[k] = s[i + k - 1]
  BY <1>1, PartOfList
<1>3. InsertAt(s, i, e) = c \o b
  BY <1>2, AppendIsConcat DEF InsertAt
<1> HIDE DEF a, b
<1>4. c \in Seq(S) /\ Len(c) = i /\ \A k \in 1..i : c[k] = IF k < i THEN s[k] ELSE e
  BY <1>1, <1>2, AppendProperties
<1> HIDE DEF c
<1>5. /\ c \o b \in Seq(S) /\ Len(c \o b) = n + 1
      /\ \A k \in 1..(n + 1) : (c \o b)[k] = IF k <= i THEN c[k] ELSE b[k - i]
  <2>1. /\ c \o b \in Seq(S) /\ Len(c \o b) = Len(c) + Len(b)
        /\ \A k \in 1..(Len(c) + Len(b)) :
             (c \o b)[k] = IF k <= Len(c) THEN c[k] ELSE b[k - Len(c)]
    BY <1>2, <1>4, ConcatProperties
  <2> QED BY <1>1, <1>2, <1>4, <2>1
<1> QED BY <1>1, <1>2, <1>3, <1>4, <1>5

(* RemoveAt keeps the elements before i and moves the others down by one. *)
LEMMA RemoveAtProperties ==
  ASSUME NEW S, NEW s \in Seq(S), NEW i \in 1..Len(s)
  PROVE  /\ RemoveAt(s, i) \in Seq(S)
         /\ Len(RemoveAt(s, i)) = Len(s) - 1
         /\ \A j \in 1..(Len(s) - 1) :
              RemoveAt(s, i)[j] = IF j < i THEN s[j] ELSE s[j + 1]
<1> DEFINE a == SubSeq(s, 1, i - 1)
           b == SubSeq(s, i + 1, Len(s))
<1>1. PICK n \in Nat : n = Len(s)
  BY LenProperties
<1>2. /\ a \in Seq(S) /\ Len(a) = i - 1 /\ \A k \in 1..(i - 1) : a[k] = s[1 + k - 1]
      /\ b \in Seq(S) /\ Len(b) = n - (i + 1) + 1
      /\ \A k \in 1..(n - (i + 1) + 1) : b[k] = s[(i + 1) + k - 1]
  BY <1>1, PartOfList
<1>3. RemoveAt(s, i) = a \o b
  BY DEF RemoveAt
<1> HIDE DEF a, b
<1>4. /\ a \o b \in Seq(S) /\ Len(a \o b) = n - 1
      /\ \A k \in 1..(n - 1) : (a \o b)[k] = IF k <= i - 1 THEN a[k] ELSE b[k - (i - 1)]
  BY <1>1, <1>2, ConcatProperties
<1> QED BY <1>1, <1>2, <1>3, <1>4

(* A non-empty set of naturals has a least element. *)
LEMMA LeastNatural ==
  ASSUME NEW T, T \subseteq Nat, T # {}
  PROVE  \E x \in T : \A y \in T : x <= y
<1> DEFINE R == {ss \in Nat \X Nat : ss[1] < ss[2]}
<1>1. IsWellFoundedOn(R, Nat)
  BY NatLessThanWellFounded, Zenon DEF OpToRel
<1>2. \A x, y \in Nat : y < x => <<y, x>> \in R
  OBVIOUS
<1> HIDE DEF R
<1>3. PICK x \in T : \A y \in T : ~ (<<y, x>> \in R)
  BY <1>1, WFMin
<1>4. \A y \in T : ~ (y < x)
  BY <1>2, <1>3
<1> QED BY <1>4
-----------------------------------------------------------------------------
(* Counting. *)

\* How many elements of S are below x.
Below(S, x) == Cardinality({y \in S : y < x})

LEMMA BelowFacts ==
  ASSUME NEW S, S \subseteq Nat, IsFiniteSet(S)
  PROVE  /\ \A x \in S : Below(S, x) \in 0..(Cardinality(S) - 1)
         /\ \A x, z \in S : x < z => Below(S, x) < Below(S, z)
<1> DEFINE B(x) == {y \in S : y < x}
<1>1. \A x : IsFiniteSet(B(x)) /\ Cardinality(B(x)) \in Nat
  BY FS_Subset, FS_CardinalityType
<1>2. ASSUME NEW x \in S, NEW T, IsFiniteSet(T), B(x) \subseteq T, x \in T, Cardinality(T) \in Nat
      PROVE  Cardinality(B(x)) < Cardinality(T)
  <2>1. x \notin B(x)
    OBVIOUS
  <2> HIDE DEF B
  <2>2. Cardinality(B(x)) <= Cardinality(T) /\ (Cardinality(T) = Cardinality(B(x)) => T = B(x))
    BY <1>2, FS_Subset
  <2>3. Cardinality(B(x)) # Cardinality(T)
    BY <1>2, <2>1, <2>2
  <2> QED BY <1>1, <1>2, <2>2, <2>3
<1>3. Cardinality(S) \in Nat
  BY FS_CardinalityType
<1>4. ASSUME NEW x \in S
      PROVE  Below(S, x) \in 0..(Cardinality(S) - 1)
  <2>1. Cardinality(B(x)) < Cardinality(S)
    <3>1. B(x) \subseteq S
      OBVIOUS
    <3> HIDE DEF B
    <3> QED BY <1>2, <1>3, <3>1
  <2>2. Below(S, x) = Cardinality(B(x))
    BY DEF Below
  <2> HIDE DEF B
  <2> QED BY <1>1, <1>3, <2>1, <2>2
<1>5. ASSUME NEW x \in S, NEW z \in S, x < z
      PROVE  Below(S, x) < Below(S, z)
  <2>1. B(x) \subseteq B(z) /\ x \in B(z)
    <3>1. x \in B(z)
      BY <1>5
    <3>2. ASSUME NEW y \in B(x)
          PROVE  y \in B(z)
      <4>1. y \in S /\ y < x /\ y \in Nat /\ x \in Nat /\ z \in Nat
        OBVIOUS
      <4>2. y < z
        BY <1>5, <4>1
      <4> QED BY <4>1, <4>2
    <3> QED BY <3>1, <3>2
  <2>2. Below(S, x) = Cardinality(B(x)) /\ Below(S, z) = Cardinality(B(z))
    BY DEF Below
  <2> HIDE DEF B
  <2>3. Cardinality(B(x)) < Cardinality(B(z))
    BY <1>1, <1>2, <2>1
  <2> QED BY <2>2, <2>3
<1> QED BY <1>4, <1>5

\* Each place is taken, by a number greater than those before it.
LEMMA InOrderFacts ==
  ASSUME NEW S, S \subseteq Nat, IsFiniteSet(S)
  PROVE  /\ Cardinality(S) \in Nat
         /\ \A k \in 1..Cardinality(S) : InOrder(S)[k] \in S
         /\ \A k, l \in 1..Cardinality(S) : k < l => InOrder(S)[k] < InOrder(S)[l]
         /\ \A x \in S : \E k \in 1..Cardinality(S) : InOrder(S)[k] = x
<1> DEFINE n == Cardinality(S)
           f == [x \in S |-> Below(S, x)]
<1>1. n \in Nat /\ IsFiniteSet(0..(n - 1)) /\ Cardinality(0..(n - 1)) = n
  <2>1. n \in Nat
    BY FS_CardinalityType
  <2> HIDE DEF n
  <2>2. 0 \in Int /\ n - 1 \in Int
    BY <2>1
  <2>3. IsFiniteSet(0..(n - 1)) /\ Cardinality(0..(n - 1)) = IF 0 > n - 1 THEN 0 ELSE n - 1 - 0 + 1
    BY <2>2, FS_Interval
  <2> QED BY <2>1, <2>3
<1>2. \A x, z \in S : x # z => x < z \/ z < x
  OBVIOUS
<1>3. \A x \in S : Below(S, x) \in Int
  <2>1. \A x \in S : Below(S, x) \in 0..(n - 1)
    BY BelowFacts
  <2> HIDE DEF n
  <2> QED BY <1>1, <2>1
<1>4. f \in Injection(S, 0..(n - 1))
  <2>1. \A x \in S : f[x] \in 0..(n - 1)
    BY BelowFacts
  <2>2. ASSUME NEW x \in S, NEW z \in S, f[x] = f[z]
        PROVE  x = z
    <3>1. Below(S, x) = Below(S, z) /\ Below(S, x) \in Int
      BY <1>3, <2>2
    <3>2. ~(x < z) /\ ~(z < x)
      <4>1. /\ x < z => Below(S, x) < Below(S, z)
            /\ z < x => Below(S, z) < Below(S, x)
        BY BelowFacts
      <4> QED BY <3>1, <4>1
    <3> QED BY <1>2, <3>2
  <2> QED BY <2>1, <2>2 DEF Injection, IsInjective
<1>5. f \in Surjection(S, 0..(n - 1))
  <2> HIDE DEF f
  <2> QED BY <1>1, <1>4, FS_Injection
<1>6. \A k \in 1..n : \E x \in S : Below(S, x) = k - 1
  <2>1. \A t \in 0..(n - 1) : \E x \in S : Below(S, x) = t
    BY <1>5 DEF Surjection
  <2> HIDE DEF n, f
  <2>2. \A k \in 1..n : k - 1 \in 0..(n - 1)
    BY <1>1
  <2> QED BY <2>1, <2>2
<1>7. \A k \in 1..n : InOrder(S)[k] \in S /\ Below(S, InOrder(S)[k]) = k - 1
  BY <1>6 DEF InOrder, Below
<1>8. ASSUME NEW k \in 1..n, NEW l \in 1..n, k < l
      PROVE  InOrder(S)[k] < InOrder(S)[l]
  <2> DEFINE x == InOrder(S)[k]
             z == InOrder(S)[l]
  <2>1. x \in S /\ z \in S /\ Below(S, x) = k - 1 /\ Below(S, z) = l - 1
    BY <1>7
  <2> HIDE DEF x, z, n
  <2>2. x # z
    BY <1>1, <1>8, <2>1
  <2>3. ~(z < x)
    <3>1. z < x => Below(S, z) < Below(S, x)
      BY <2>1, BelowFacts
    <3> QED BY <1>1, <1>8, <2>1, <3>1
  <2>4. x < z
    BY <1>2, <2>1, <2>2, <2>3
  <2> QED BY <2>4 DEF x, z
<1>9. ASSUME NEW x \in S
      PROVE  \E k \in 1..n : InOrder(S)[k] = x
  <2>1. Below(S, x) \in 0..(n - 1)
    BY BelowFacts
  <2>2. PICK k \in 1..n : k = Below(S, x) + 1
    BY <1>1, <2>1
  <2>3. InOrder(S)[k] \in S /\ Below(S, InOrder(S)[k]) = Below(S, x)
    BY <1>1, <1>7, <2>1, <2>2
  <2>4. InOrder(S)[k] = x
    <3> DEFINE z == InOrder(S)[k]
    <3>1. z \in S /\ Below(S, z) = Below(S, x)
      BY <2>3
    <3> HIDE DEF z
    <3>2. /\ x < z => Below(S, x) < Below(S, z)
          /\ z < x => Below(S, z) < Below(S, x)
      BY <3>1, BelowFacts
    <3>3. z = x
      BY <1>2, <1>3, <3>1, <3>2
    <3> QED BY <3>3 DEF z
  <2> QED BY <2>4
<1> QED BY <1>1, <1>7, <1>8, <1>9

\* At(s, P) has what s has at P, in this order.
Picks(T, s, P) ==
  /\ At(s, P) \in Seq(T) /\ Len(At(s, P)) = Cardinality(P)
  /\ \A k \in 1..Cardinality(P) : InOrder(P)[k] \in P /\ At(s, P)[k] = s[InOrder(P)[k]]
  /\ \A k, l \in 1..Cardinality(P) : k < l => InOrder(P)[k] < InOrder(P)[l]
  /\ \A i \in P : \E k \in 1..Cardinality(P) : At(s, P)[k] = s[i]

LEMMA AtFacts ==
  ASSUME NEW T, NEW s \in Seq(T), NEW P, P \subseteq 1..Len(s)
  PROVE  Picks(T, s, P)
<1>1. Len(s) \in Nat
  BY LenProperties
<1>2. IsFiniteSet(P) /\ P \subseteq Nat
  <2>1. Len(s) \in Int /\ 1 \in Int
    BY <1>1
  <2>2. IsFiniteSet(1..Len(s))
    BY <2>1, FS_Interval
  <2>3. IsFiniteSet(P)
    BY <2>2, FS_Subset
  <2> QED BY <2>3
<1>3. /\ Cardinality(P) \in Nat
      /\ \A k \in 1..Cardinality(P) : InOrder(P)[k] \in P
      /\ \A k, l \in 1..Cardinality(P) : k < l => InOrder(P)[k] < InOrder(P)[l]
      /\ \A i \in P : \E k \in 1..Cardinality(P) : InOrder(P)[k] = i
  BY <1>2, InOrderFacts
<1>4. \A i \in P : s[i] \in T
  BY ElementOfSeq
<1>5. \A k \in 1..Cardinality(P) : s[InOrder(P)[k]] \in T
  BY <1>3, <1>4
<1>6. At(s, P) \in Seq(T) /\ Len(At(s, P)) = Cardinality(P)
  BY <1>3, <1>5 DEF At
<1>7. \A k \in 1..Cardinality(P) : At(s, P)[k] = s[InOrder(P)[k]]
  BY DEF At
<1>8. \A i \in P : \E k \in 1..Cardinality(P) : At(s, P)[k] = s[i]
  BY <1>3, <1>7
<1> QED BY <1>3, <1>6, <1>7, <1>8 DEF Picks

\* Elements at no place, at the only place.
LEMMA AtNone ==
  ASSUME NEW s
  PROVE  At(s, {}) = <<>>
BY FS_EmptySet DEF At

LEMMA ReverseFacts ==
  ASSUME NEW T, NEW s \in Seq(T)
  PROVE  /\ Reverse(s) \in Seq(T) /\ Len(Reverse(s)) = Len(s)
         /\ \A i \in 1..Len(s) : Reverse(s)[i] = s[Len(s) - i + 1]
         /\ \A i \in 1..Len(s) : Len(s) - i + 1 \in 1..Len(s)
<1>1. Len(s) \in Nat
  BY LenProperties
<1>2. \A i \in 1..Len(s) : Len(s) - i + 1 \in 1..Len(s)
  BY <1>1
<1>3. \A i \in 1..Len(s) : s[Len(s) - i + 1] \in T
  BY <1>2, ElementOfSeq
<1> QED BY <1>1, <1>2, <1>3 DEF Reverse

LEMMA LeastFacts ==
  ASSUME NEW S, S \subseteq Nat, S # {}
  PROVE  Min(S) \in S /\ \A y \in S : Min(S) <= y
<1>1. \E x \in S : \A y \in S : x <= y
  BY LeastNatural
<1> QED BY <1>1 DEF Min

LEMMA GreatestFacts ==
  ASSUME NEW S, NEW n \in Nat, S \subseteq 0..n, S # {}
  PROVE  Max(S) \in S /\ \A y \in S : y <= Max(S)
<1> DEFINE T == {n - x : x \in S}
<1>1. T \subseteq Nat /\ T # {}
  <2>1. ASSUME NEW t \in T
        PROVE  t \in Nat
    <3>1. PICK x \in S : t = n - x
      BY <2>1
    <3>2. x \in 0..n
      OBVIOUS
    <3> QED BY <3>1, <3>2
  <2>2. T # {}
    <3>1. PICK x \in S : TRUE
      OBVIOUS
    <3>2. n - x \in T
      BY <3>1
    <3> QED BY <3>2
  <2> QED BY <2>1, <2>2
<1>2. \E t \in T : \A u \in T : t <= u
  <2> HIDE DEF T
  <2> QED BY <1>1, LeastNatural
<1>3. PICK x \in S : \A u \in T : n - x <= u
  BY <1>2
<1>4. \A y \in S : x >= y
  <2> SUFFICES ASSUME NEW y \in S
               PROVE  x >= y
    OBVIOUS
  <2>1. n - x <= n - y
    BY <1>3
  <2>2. x \in 0..n /\ y \in 0..n
    OBVIOUS
  <2> QED BY <2>1, <2>2
<1>5. Max(S) \in S /\ \A y \in S : Max(S) >= y
  BY <1>4 DEF Max
<1>6. Max(S) \in 0..n
  BY <1>5
<1>7. \A y \in S : y \in 0..n
  OBVIOUS
<1> QED BY <1>5, <1>6, <1>7

\* The row indexOf finds.
LEMMA FirstRowFacts ==
  ASSUME NEW R, m_messages \in Seq(R), NEW id \in RowIds
  PROVE  /\ FirstRow(id) \in 1..Len(m_messages)
         /\ m_messages[FirstRow(id)].id = id
         /\ \A i \in 1..Len(m_messages) : m_messages[i].id = id => FirstRow(id) <= i
<1> DEFINE I == {i \in 1..Len(m_messages) : m_messages[i].id = id}
<1>1. I \subseteq Nat /\ I # {}
  BY LenProperties DEF RowIds
<1>2. FirstRow(id) = Min(I)
  BY <1>1 DEF FirstRow, SelectInSeq
<1>3. Min(I) \in I /\ \A y \in I : Min(I) <= y
  <2> HIDE DEF I
  <2> QED BY <1>1, LeastFacts
<1> QED BY <1>2, <1>3

\* What TDLib's pages look like: newest first, each message once.
LEMMA PageFacts ==
  ASSUME NEW S, S \subseteq Nat, IsFiniteSet(S)
  PROVE  /\ PageOf(S) \in Seq([id : S, sending : BOOLEAN])
         /\ Len(PageOf(S)) = Cardinality(S) /\ Cardinality(S) \in Nat
         /\ \A i, j \in 1..Cardinality(S) : i < j => PageOf(S)[j].id < PageOf(S)[i].id
         /\ IdsOf(PageOf(S)) = S
<1> DEFINE n == Cardinality(S)
           o(i) == n - i + 1
<1>1. /\ n \in Nat
      /\ \A k \in 1..n : InOrder(S)[k] \in S
      /\ \A k, l \in 1..n : k < l => InOrder(S)[k] < InOrder(S)[l]
      /\ \A x \in S : \E k \in 1..n : InOrder(S)[k] = x
  BY InOrderFacts
<1> HIDE DEF n
<1>2. \A i \in 1..n : o(i) \in 1..n /\ o(o(i)) = i
  BY <1>1
<1>3. /\ PageOf(S) = [i \in 1..n |-> Message(InOrder(S)[o(i)])]
      /\ Len(PageOf(S)) = n
  BY <1>1 DEF PageOf, n
<1>4. \A i \in 1..n : /\ PageOf(S)[i] \in [id : S, sending : BOOLEAN]
                      /\ PageOf(S)[i].id = InOrder(S)[o(i)]
  BY <1>1, <1>2, <1>3 DEF Message
<1>5. PageOf(S) \in Seq([id : S, sending : BOOLEAN])
  BY <1>1, <1>3, <1>4
<1>6. \A i, j \in 1..n : i < j => PageOf(S)[j].id < PageOf(S)[i].id
  <2>1. \A i, j \in 1..n : i < j => o(j) < o(i)
    BY <1>1
  <2> QED BY <1>1, <1>2, <1>4, <2>1
<1>7. \A x \in S : \E i \in 1..n : PageOf(S)[i].id = x
  BY <1>1, <1>2, <1>4
<1>8. IdsOf(PageOf(S)) = S
  <2>1. IdsOf(PageOf(S)) = {PageOf(S)[i].id : i \in 1..n}
    BY <1>3 DEF IdsOf
  <2>2. \A i \in 1..n : PageOf(S)[i].id \in S
    BY <1>4
  <2> QED BY <1>7, <2>1, <2>2
<1> QED BY <1>1, <1>3, <1>5, <1>6, <1>8 DEF n

-----------------------------------------------------------------------------
(* Types. *)

Extras == {"first", "prepend", "append"}
Request(n) == [extra : Extras, from : 0..n]
ARow(n) == [id : 1..n, separator : BOOLEAN]
Msg(n) == [id : 1..n, sending : BOOLEAN]

\* The answer to sendMessage is a message that is being sent.
Arrival(n)  == [kind : {"updateNewMessage"}, message : Msg(n)]
Echoed(n)   == [kind : {"message"}, message : [id : 1..n, sending : {TRUE}]]
Latest(n)    == [kind : {"updateChatLastMessage"}, id : 0..n]
Renaming(n) == [kind : {"updateMessageSendSucceeded"}, old_message_id : 1..n, id : 1..n]
Deletion(n) == [kind : {"updateDeleteMessages"}, id : 1..n]
Page(n)     == [kind : {"messages"}, extra : Extras \cup {"other"}, messages : Seq(Msg(n))]
\* The end of another chat.
EndElsewhere == [kind |-> "messages", extra |-> "elsewhere", messages |-> <<>>]
Delivery(n) ==
  UNION {Arrival(n), Echoed(n), Latest(n), Renaming(n), Deletion(n), Page(n), {EndElsewhere}}

\* The types with ids up to n.
ServerTypes(n) ==
  /\ chat \subseteq 1..n
  /\ sending \subseteq chat
  /\ requests \in Seq(Request(n))
  /\ inbox \in Seq(Delivery(n))
  /\ lastMessageId \in 0..n
  /\ dropped \subseteq 1..n
ViewTypes(n) ==
  /\ m_messages \in Seq(ARow(n))
  /\ m_lastMessage \in 0..n
  /\ m_lastMessageInbox \in 0..n
  /\ m_lastOutboxId \in 0..n
OtherTypes ==
  /\ others \in Nat
  /\ m_peerId \in BOOLEAN
  /\ m_fetching \in BOOLEAN
  /\ m_reachedHistoryEnd \in BOOLEAN
  /\ misled \in BOOLEAN
  /\ isUpdateConnected \in BOOLEAN
  /\ crashed \in BOOLEAN
  /\ trouble \subseteq Troubles

Types ==
  /\ newest \in Nat
  /\ ServerTypes(newest)
  /\ ViewTypes(newest)
  /\ OtherTypes

LEMMA SeqGrows ==
  ASSUME NEW S, NEW T, S \subseteq T, NEW s \in Seq(S)
  PROVE  s \in Seq(T)
<1>1. Len(s) \in Nat /\ s = [i \in 1..Len(s) |-> s[i]]
  OBVIOUS
<1>2. \A i \in 1..Len(s) : s[i] \in T
  BY ElementOfSeq
<1> QED BY <1>1, <1>2

LEMMA DeliveryGrows ==
  ASSUME NEW n \in Nat
  PROVE  /\ Delivery(n) \subseteq Delivery(n + 1)
         /\ Request(n) \subseteq Request(n + 1)
         /\ ARow(n) \subseteq ARow(n + 1)
         /\ 1..n \subseteq 1..(n + 1)
<1>1. 1..n \subseteq 1..(n + 1) /\ 0..n \subseteq 0..(n + 1)
  OBVIOUS
<1>2. Msg(n) \subseteq Msg(n + 1)
  BY <1>1 DEF Msg
<1>3. Seq(Msg(n)) \subseteq Seq(Msg(n + 1))
  BY <1>2, SeqGrows
<1>4. Arrival(n) \subseteq Arrival(n + 1)
  BY <1>2 DEF Arrival
<1>5. Echoed(n) \subseteq Echoed(n + 1)
  BY <1>1 DEF Echoed
<1>6. Latest(n) \subseteq Latest(n + 1)
  BY <1>1 DEF Latest
<1>7. Renaming(n) \subseteq Renaming(n + 1)
  BY <1>1 DEF Renaming
<1>8. Deletion(n) \subseteq Deletion(n + 1)
  BY <1>1 DEF Deletion
<1>9. Page(n) \subseteq Page(n + 1)
  BY <1>3 DEF Page
<1>10. Delivery(n) \subseteq Delivery(n + 1)
  BY <1>4, <1>5, <1>6, <1>7, <1>8, <1>9 DEF Delivery
<1>11. Request(n) \subseteq Request(n + 1) /\ ARow(n) \subseteq ARow(n + 1)
  BY <1>1 DEF Request, ARow
<1> QED BY <1>1, <1>10, <1>11

LEMMA TypesGrow ==
  ASSUME NEW n \in Nat, ServerTypes(n), ViewTypes(n)
  PROVE  ServerTypes(n + 1) /\ ViewTypes(n + 1)
<1>1. /\ Delivery(n) \subseteq Delivery(n + 1)
      /\ Request(n) \subseteq Request(n + 1)
      /\ ARow(n) \subseteq ARow(n + 1)
  BY DeliveryGrows
<1>2. /\ inbox \in Seq(Delivery(n + 1))
      /\ requests \in Seq(Request(n + 1))
      /\ m_messages \in Seq(ARow(n + 1))
  BY <1>1, SeqGrows DEF ServerTypes, ViewTypes
<1>3. 1..n \subseteq 1..(n + 1) /\ 0..n \subseteq 0..(n + 1)
  OBVIOUS
<1>4. ServerTypes(n + 1)
  BY <1>2, <1>3 DEF ServerTypes
<1>5. ViewTypes(n + 1)
  BY <1>2, <1>3 DEF ViewTypes
<1> QED BY <1>4, <1>5

\* What an event that is in inbox has, by its kind.
LEMMA DeliveryFacts ==
  ASSUME NEW n \in Nat, NEW e \in Delivery(n)
  PROVE  /\ e.kind = "updateNewMessage" => e.message \in Msg(n)
         /\ e.kind = "message" =>
              e.message \in Msg(n) /\ e.message.sending = TRUE /\ e.message.id \in 1..n
         /\ e.kind = "updateChatLastMessage" => e.id \in 0..n
         /\ e.kind = "updateMessageSendSucceeded" => e.id \in 1..n /\ e.old_message_id \in 1..n
         /\ e.kind = "updateDeleteMessages" => e.id \in 1..n
         /\ e.kind = "messages" => e.extra \in Extras \cup Foreign /\ e.messages \in Seq(Msg(n))
         /\ e.kind = "messages" /\ e.extra = "elsewhere" => e.messages = <<>>
<1>1. CASE e \in Arrival(n)
  BY <1>1 DEF Arrival
<1>2. CASE e \in Echoed(n)
  BY <1>2 DEF Echoed, Msg
<1>3. CASE e \in Latest(n)
  BY <1>3 DEF Latest
<1>4. CASE e \in Renaming(n)
  BY <1>4 DEF Renaming
<1>5. CASE e \in Deletion(n)
  BY <1>5 DEF Deletion
<1>6. CASE e \in Page(n)
  BY <1>6 DEF Page, Foreign, Extras
<1>7. CASE e = EndElsewhere
  <2>1. <<>> \in Seq(Msg(n))
    BY EmptySeq
  <2> QED BY <1>7, <2>1 DEF EndElsewhere, Foreign
<1> QED BY <1>1, <1>2, <1>3, <1>4, <1>5, <1>6, <1>7 DEF Delivery

-----------------------------------------------------------------------------
(* The operators of the model. *)

\* The messages of a page that get a row: in order, all but those being sent
\* that have one.
Taken(messages) ==
  {i \in 1..Len(messages) : ~(messages[i].sending /\ messages[i].id \in RowIds)}

LEMMA AddedFacts ==
  ASSUME NEW n, NEW messages \in Seq(Msg(n))
  PROVE  /\ Added(messages) \in Seq(Msg(n))
         /\ \A k \in 1..Len(Added(messages)) :
              \E i \in Taken(messages) : Added(messages)[k] = messages[i]
         /\ \A k, l \in 1..Len(Added(messages)) : k < l =>
              \E i, j \in Taken(messages) :
                i < j /\ Added(messages)[k] = messages[i] /\ Added(messages)[l] = messages[j]
         /\ \A i \in Taken(messages) :
              \E k \in 1..Len(Added(messages)) : Added(messages)[k] = messages[i]
<1> PICK P : P = Taken(messages)
  OBVIOUS
<1>1. P \subseteq 1..Len(messages)
  BY DEF Taken
<1>2. Added(messages) = At(messages, P)
  BY DEF Added, Taken
<1>3. /\ At(messages, P) \in Seq(Msg(n)) /\ Len(At(messages, P)) = Cardinality(P)
      /\ \A k \in 1..Cardinality(P) :
           InOrder(P)[k] \in P /\ At(messages, P)[k] = messages[InOrder(P)[k]]
      /\ \A k, l \in 1..Cardinality(P) : k < l => InOrder(P)[k] < InOrder(P)[l]
      /\ \A i \in P : \E k \in 1..Cardinality(P) : At(messages, P)[k] = messages[i]
  <2>1. Picks(Msg(n), messages, P)
    BY <1>1, AtFacts
  <2> QED BY <2>1 DEF Picks
<1>4. \A k \in 1..Cardinality(P) : \E i \in P : At(messages, P)[k] = messages[i]
  BY <1>3
<1>5. \A k, l \in 1..Cardinality(P) : k < l =>
        \E i, j \in P :
          i < j /\ At(messages, P)[k] = messages[i] /\ At(messages, P)[l] = messages[j]
  BY <1>3
<1> QED BY <1>2, <1>3, <1>4, <1>5

\* One message.
LEMMA AddedOne ==
  ASSUME NEW n \in Nat, NEW m \in Msg(n)
  PROVE  Added(<<m>>) = IF m.sending /\ m.id \in RowIds THEN <<>> ELSE <<m>>
<1> DEFINE P == Taken(<<m>>)
<1>1. Added(<<m>>) = At(<<m>>, P)
  BY DEF Added, Taken
<1>2. P = IF m.sending /\ m.id \in RowIds THEN {} ELSE {1}
  BY DEF Taken
<1> HIDE DEF P
<1>3. CASE m.sending /\ m.id \in RowIds
  BY <1>1, <1>2, <1>3, AtNone
<1>4. CASE ~(m.sending /\ m.id \in RowIds)
  <2>1. P = {1} /\ Cardinality({1}) = 1 /\ <<m>> \in Seq(Msg(n)) /\ Len(<<m>>) = 1
    BY <1>2, <1>4, FS_Singleton
  <2>2. {1} \subseteq 1..Len(<<m>>)
    BY <2>1
  <2>3. /\ At(<<m>>, {1}) \in Seq(Msg(n)) /\ Len(At(<<m>>, {1})) = Cardinality({1})
        /\ \A k \in 1..Cardinality({1}) :
             InOrder({1})[k] \in {1} /\ At(<<m>>, {1})[k] = <<m>>[InOrder({1})[k]]
    BY <2>1, <2>2, AtFacts DEF Picks
  <2>4. At(<<m>>, {1})[1] = m
    BY <2>1, <2>3
  <2>5. At(<<m>>, {1}) = <<m>>
    <3> DEFINE s == At(<<m>>, {1})
    <3>1. s \in Seq(Msg(n)) /\ Len(s) = 1 /\ s[1] = m
      BY <2>1, <2>3, <2>4
    <3> HIDE DEF s
    <3>2. s = <<m>>
      BY <3>1
    <3> QED BY <3>2 DEF s
  <2> QED BY <1>1, <1>4, <2>1, <2>5
<1> QED BY <1>3, <1>4

LEMMA RowsOfFacts ==
  ASSUME NEW n \in Nat, NEW messages \in Seq(Msg(n))
  PROVE  /\ RowsOf(messages) \in Seq(ARow(n)) /\ Len(RowsOf(messages)) = Len(messages)
         /\ \A i \in 1..Len(messages) :
              /\ RowsOf(messages)[i] = Row(messages[i].id)
              /\ RowsOf(messages)[i].id = messages[i].id
              /\ RowsOf(messages)[i].separator = FALSE
         /\ IdsOf(RowsOf(messages)) = IdsOf(messages)
<1>1. Len(messages) \in Nat
  BY LenProperties
<1>2. \A i \in 1..Len(messages) : messages[i].id \in 1..n
  <2>1. \A i \in 1..Len(messages) : messages[i] \in Msg(n)
    BY ElementOfSeq
  <2> QED BY <2>1 DEF Msg
<1>3. RowsOf(messages) \in Seq(ARow(n)) /\ Len(RowsOf(messages)) = Len(messages)
  BY <1>1, <1>2 DEF RowsOf, Row, ARow
<1>4. \A i \in 1..Len(messages) :
              /\ RowsOf(messages)[i] = Row(messages[i].id)
              /\ RowsOf(messages)[i].id = messages[i].id
              /\ RowsOf(messages)[i].separator = FALSE
  BY DEF RowsOf, Row
<1>5. IdsOf(RowsOf(messages)) = IdsOf(messages)
  BY <1>3, <1>4 DEF IdsOf
<1> QED BY <1>3, <1>4, <1>5

LEMMA IdsFinite ==
  ASSUME NEW n \in Nat, NEW messages \in Seq(Msg(n)), NEW S
  PROVE  Cardinality(IdsOf(messages) \cap S) \in Nat
<1>1. \A id \in IdsOf(messages) : id \in 1..n
  <2>1. \A i \in 1..Len(messages) : messages[i] \in Msg(n)
    BY ElementOfSeq
  <2> QED BY <2>1 DEF IdsOf, Msg
<1>2. IsFiniteSet(1..n)
  BY FS_Interval
<1>3. IdsOf(messages) \cap S \subseteq 1..n
  BY <1>1
<1>4. IsFiniteSet(IdsOf(messages) \cap S)
  BY <1>2, <1>3, FS_Subset
<1> QED BY <1>4, FS_CardinalityType

LEMMA RepliesCounted ==
  ASSUME NEW n \in Nat, NEW appended \in Seq(Msg(n)), NEW page \in Seq(Msg(n)), NEW extra \in Nat,
         others \in Nat, getReplies(appended, page, extra)
  PROVE  others' \in Nat
<1>1. Cardinality(IdsOf(appended) \cap Replies) \in Nat
  BY IdsFinite
<1> QED BY <1>1 DEF getReplies

LEMMA NewerOfFacts ==
  ASSUME NEW n \in Nat, NEW page \in Seq(Msg(n))
  PROVE  /\ NewerOf(page) \in Seq(Msg(n))
         /\ \A k \in 1..Len(NewerOf(page)) :
              \E i \in 1..Len(page) :
                NewerOf(page)[k] = page[i] /\ page[i].id > Last(m_messages).id
         /\ \A k, l \in 1..Len(NewerOf(page)) : k < l =>
              \E i, j \in 1..Len(page) :
                i # j /\ NewerOf(page)[k] = page[i] /\ NewerOf(page)[l] = page[j]
         /\ \A i \in 1..Len(page) : page[i].id > Last(m_messages).id =>
              \E k \in 1..Len(NewerOf(page)) : NewerOf(page)[k] = page[i]
<1> DEFINE o(i) == Len(page) - i + 1
<1> PICK s : s = Reverse(page)
  OBVIOUS
<1> PICK P : P = {i \in 1..Len(s) : s[i].id > Last(m_messages).id}
  OBVIOUS
<1>1. /\ s \in Seq(Msg(n)) /\ Len(s) = Len(page) /\ Len(page) \in Nat
      /\ \A i \in 1..Len(page) : s[i] = page[o(i)]
      /\ \A i \in 1..Len(page) : o(i) \in 1..Len(page)
  BY ReverseFacts, LenProperties
<1>2. P \subseteq 1..Len(s) /\ \A i \in P : s[i].id > Last(m_messages).id
  OBVIOUS
<1>3. NewerOf(page) = At(s, P)
  BY DEF NewerOf
<1>t. s \in Seq(Msg(n))
  BY <1>1
<1>4. \A i \in 1..Len(page) : page[i].id > Last(m_messages).id => o(i) \in P /\ s[o(i)] = page[i]
  <2> SUFFICES ASSUME NEW i \in 1..Len(page), page[i].id > Last(m_messages).id
               PROVE  o(i) \in P /\ s[o(i)] = page[i]
    OBVIOUS
  <2>1. o(o(i)) = i
    BY <1>1
  <2> QED BY <1>1, <2>1
<1>5. /\ At(s, P) \in Seq(Msg(n)) /\ Len(At(s, P)) = Cardinality(P)
      /\ \A k \in 1..Cardinality(P) : InOrder(P)[k] \in P /\ At(s, P)[k] = s[InOrder(P)[k]]
      /\ \A k, l \in 1..Cardinality(P) : k < l => InOrder(P)[k] < InOrder(P)[l]
      /\ \A i \in P : \E k \in 1..Cardinality(P) : At(s, P)[k] = s[i]
  <2>1. Picks(Msg(n), s, P)
    BY <1>t, <1>2, AtFacts
  <2> QED BY <2>1 DEF Picks
<1>6. ASSUME NEW k \in 1..Cardinality(P)
      PROVE  /\ o(InOrder(P)[k]) \in 1..Len(page)
             /\ At(s, P)[k] = page[o(InOrder(P)[k])]
             /\ At(s, P)[k].id > Last(m_messages).id
  <2>1. InOrder(P)[k] \in P /\ At(s, P)[k] = s[InOrder(P)[k]]
    BY <1>5
  <2>2. PICK i \in 1..Len(page) : i = InOrder(P)[k]
    BY <1>1, <1>2, <2>1
  <2>3. s[i] = page[o(i)] /\ o(i) \in 1..Len(page) /\ s[i].id > Last(m_messages).id
    BY <1>1, <1>2, <2>1, <2>2
  <2> QED BY <2>1, <2>2, <2>3
<1>7. \A k, l \in 1..Cardinality(P) : k < l => o(InOrder(P)[k]) # o(InOrder(P)[l])
  <2> SUFFICES ASSUME NEW k \in 1..Cardinality(P), NEW l \in 1..Cardinality(P), k < l
               PROVE  o(InOrder(P)[k]) # o(InOrder(P)[l])
    OBVIOUS
  <2>1. InOrder(P)[k] < InOrder(P)[l] /\ InOrder(P)[k] \in 1..Len(s) /\ InOrder(P)[l] \in 1..Len(s)
    BY <1>2, <1>5
  <2> QED BY <1>1, <2>1
<1> HIDE DEF o
<1>8. \A i \in 1..Len(page) : page[i].id > Last(m_messages).id =>
        \E k \in 1..Cardinality(P) : At(s, P)[k] = page[i]
  <2> SUFFICES ASSUME NEW i \in 1..Len(page), page[i].id > Last(m_messages).id
               PROVE  \E k \in 1..Cardinality(P) : At(s, P)[k] = page[i]
    OBVIOUS
  <2>1. o(i) \in P /\ s[o(i)] = page[i]
    BY <1>4
  <2>2. PICK k \in 1..Cardinality(P) : At(s, P)[k] = s[o(i)]
    BY <1>5, <2>1
  <2> QED BY <2>1, <2>2
<1>9. /\ NewerOf(page) \in Seq(Msg(n)) /\ Len(NewerOf(page)) = Cardinality(P)
      /\ \A k \in 1..Cardinality(P) : NewerOf(page)[k] = At(s, P)[k]
  BY <1>3, <1>5
<1>10. \A k \in 1..Len(NewerOf(page)) :
         \E i \in 1..Len(page) : NewerOf(page)[k] = page[i] /\ page[i].id > Last(m_messages).id
  BY <1>6, <1>9
<1>11. \A k, l \in 1..Len(NewerOf(page)) : k < l =>
         \E i, j \in 1..Len(page) :
           i # j /\ NewerOf(page)[k] = page[i] /\ NewerOf(page)[l] = page[j]
  <2> SUFFICES ASSUME NEW k \in 1..Cardinality(P), NEW l \in 1..Cardinality(P), k < l
               PROVE  \E i, j \in 1..Len(page) :
                        i # j /\ NewerOf(page)[k] = page[i] /\ NewerOf(page)[l] = page[j]
    BY <1>9
  <2>1. o(InOrder(P)[k]) # o(InOrder(P)[l])
    BY <1>7
  <2>2. NewerOf(page)[k] = page[o(InOrder(P)[k])] /\ NewerOf(page)[l] = page[o(InOrder(P)[l])]
    BY <1>6, <1>9
  <2> QED BY <1>6, <2>1, <2>2
<1>12. \A i \in 1..Len(page) : page[i].id > Last(m_messages).id =>
         \E k \in 1..Len(NewerOf(page)) : NewerOf(page)[k] = page[i]
  <2> SUFFICES ASSUME NEW i \in 1..Len(page), page[i].id > Last(m_messages).id
               PROVE  \E k \in 1..Len(NewerOf(page)) : NewerOf(page)[k] = page[i]
    OBVIOUS
  <2>1. PICK k \in 1..Cardinality(P) : At(s, P)[k] = page[i]
    BY <1>8
  <2>2. k \in 1..Len(NewerOf(page)) /\ NewerOf(page)[k] = page[i]
    BY <1>9, <2>1
  <2> QED BY <2>2
<1> QED BY <1>9, <1>10, <1>11, <1>12

\* No row twice; ids of the rows that are messages; the separator is below the
\* message whose id it has.
Distinct(rows) == \A i, j \in 1..Len(rows) : rows[i] = rows[j] => i = j
TrueOf(rows) == {rows[i].id : i \in {j \in 1..Len(rows) : ~rows[j].separator}}
SeparatorBelow(rows) ==
  \A i \in 1..Len(rows) : rows[i].separator =>
    /\ rows[i].id <= m_lastMessageInbox
    /\ \A j \in 1..Len(rows) : ~rows[j].separator /\ rows[j].id = rows[i].id => j < i

Separated(rows, result) ==
  \/ result = rows
  \/ \E p \in 1..Len(rows) :
       /\ rows[p].id = m_lastMessageInbox
       /\ result = InsertAt(rows, p + 1, Separator(m_lastMessageInbox))

LEMMA InsertSeparatorFacts ==
  ASSUME NEW n \in Nat, NEW rows \in Seq(ARow(n))
  PROVE  Separated(rows, InsertSeparator(rows))
<1> DEFINE read == {i \in 1..Len(rows) : rows[i].id = m_lastMessageInbox}
<1>1. CASE m_lastMessageInbox = m_lastMessage \/ read = {}
  BY <1>1 DEF InsertSeparator, Separated
<1>2. CASE ~(m_lastMessageInbox = m_lastMessage \/ read = {})
  <2>1. InsertSeparator(rows) = InsertAt(rows, Max(read) + 1, Separator(m_lastMessageInbox))
    BY <1>2 DEF InsertSeparator
  <2>2. Max(read) \in read
    <3>1. Len(rows) \in Nat /\ read \subseteq 0..Len(rows) /\ read # {}
      BY <1>2, LenProperties
    <3>2. PICK S : S = read
      OBVIOUS
    <3> HIDE DEF read
    <3>3. Max(S) \in S
      BY <3>1, <3>2, GreatestFacts
    <3> QED BY <3>2, <3>3
  <2> QED BY <2>1, <2>2 DEF Separated
<1> QED BY <1>1, <1>2

\* Rows of different messages, with the separator.
LEMMA SeparatedFacts ==
  ASSUME NEW n \in Nat, NEW rows \in Seq(ARow(n)), NEW result, Separated(rows, result),
         m_lastMessageInbox \in 0..n,
         \A i \in 1..Len(rows) : rows[i].separator = FALSE,
         \A i, j \in 1..Len(rows) : rows[i].id = rows[j].id => i = j
  PROVE  /\ result \in Seq(ARow(n))
         /\ IdsOf(result) = IdsOf(rows)
         /\ TrueOf(result) = IdsOf(rows)
         /\ Distinct(result)
         /\ SeparatorBelow(result)
         /\ rows = <<>> => result = <<>>
<1>1. Len(rows) \in Nat /\ \A i \in 1..Len(rows) : rows[i] \in ARow(n)
  BY ElementOfSeq, LenProperties
<1>2. CASE result = rows
  <2>1. Distinct(result)
    BY <1>2 DEF Distinct
  <2>2. SeparatorBelow(result)
    BY <1>2 DEF SeparatorBelow
  <2>3. TrueOf(result) = IdsOf(rows)
    BY <1>2 DEF TrueOf, IdsOf
  <2> QED BY <1>2, <2>1, <2>2, <2>3
<1>3. CASE \E p \in 1..Len(rows) :
             /\ rows[p].id = m_lastMessageInbox
             /\ result = InsertAt(rows, p + 1, Separator(m_lastMessageInbox))
  <2>1. PICK p \in 1..Len(rows) :
          /\ rows[p].id = m_lastMessageInbox
          /\ result = InsertAt(rows, p + 1, Separator(m_lastMessageInbox))
    BY <1>3
  <2>2. PICK e \in ARow(n) : e = Separator(m_lastMessageInbox)
    <3>1. m_lastMessageInbox \in 1..n
      BY <1>1, <2>1 DEF ARow
    <3> QED BY <3>1 DEF Separator, ARow
  <2>3. e.id = rows[p].id /\ e.separator = TRUE /\ e.id = m_lastMessageInbox
    BY <2>1, <2>2 DEF Separator
  <2>4. p + 1 \in 1..(Len(rows) + 1)
    BY <1>1
  <2>5. /\ InsertAt(rows, p + 1, e) \in Seq(ARow(n))
        /\ Len(InsertAt(rows, p + 1, e)) = Len(rows) + 1
        /\ \A j \in 1..(Len(rows) + 1) :
             InsertAt(rows, p + 1, e)[j] =
               IF j < p + 1 THEN rows[j] ELSE IF j = p + 1 THEN e ELSE rows[j - 1]
    BY <2>4, InsertAtProperties
  <2>6. /\ result \in Seq(ARow(n)) /\ Len(result) = Len(rows) + 1
        /\ \A j \in 1..(Len(rows) + 1) :
             result[j] = IF j < p + 1 THEN rows[j] ELSE IF j = p + 1 THEN e ELSE rows[j - 1]
    BY <2>1, <2>2, <2>5
  <2> DEFINE o(j) == IF j < p + 1 THEN j ELSE j - 1
             up(i) == IF i < p + 1 THEN i ELSE i + 1
  <2>7. \A j \in 1..(Len(rows) + 1) : j # p + 1 => o(j) \in 1..Len(rows) /\ result[j] = rows[o(j)]
    BY <1>1, <2>6
  <2>8. \A i \in 1..Len(rows) :
          up(i) \in 1..(Len(rows) + 1) /\ up(i) # p + 1 /\ result[up(i)] = rows[i]
    BY <1>1, <2>6
  <2>9. p + 1 \in 1..(Len(rows) + 1) /\ result[p + 1] = e
    BY <1>1, <2>6
  <2>10. \A i, j \in 1..(Len(rows) + 1) : i # p + 1 /\ j # p + 1 /\ o(i) = o(j) => i = j
    BY <1>1
  <2>11. \A j \in 1..(Len(rows) + 1) : j # p + 1 /\ o(j) = p => j < p + 1
    BY <1>1
  <2> HIDE DEF o, up
  <2>12. IdsOf(result) = IdsOf(rows)
    <3>1. \A j \in 1..(Len(rows) + 1) : result[j].id \in IdsOf(rows)
      <4> SUFFICES ASSUME NEW j \in 1..(Len(rows) + 1)
                   PROVE  \E i \in 1..Len(rows) : result[j].id = rows[i].id
        BY DEF IdsOf
      <4>1. CASE j = p + 1
        BY <2>3, <2>9, <4>1
      <4>2. CASE j # p + 1
        BY <2>7, <4>2
      <4> QED BY <4>1, <4>2
    <3>2. \A i \in 1..Len(rows) : rows[i].id \in IdsOf(result)
      <4> SUFFICES ASSUME NEW i \in 1..Len(rows)
                   PROVE  rows[i].id \in IdsOf(result)
        OBVIOUS
      <4>1. PICK k \in 1..Len(result) : result[k] = rows[i]
        BY <2>6, <2>8
      <4> QED BY <4>1 DEF IdsOf
    <3>3. IdsOf(result) \subseteq IdsOf(rows)
      <4>1. \A x \in IdsOf(result) : \E j \in 1..(Len(rows) + 1) : x = result[j].id
        BY <2>6 DEF IdsOf
      <4> QED BY <3>1, <4>1
    <3>4. \A x \in IdsOf(rows) : \E i \in 1..Len(rows) : x = rows[i].id
      BY DEF IdsOf
    <3>5. IdsOf(rows) \subseteq IdsOf(result)
      <4> SUFFICES ASSUME NEW x \in IdsOf(rows)
                   PROVE  x \in IdsOf(result)
        OBVIOUS
      <4>1. PICK i \in 1..Len(rows) : x = rows[i].id
        BY <3>4
      <4> QED BY <3>2, <4>1
    <3> QED BY <3>3, <3>5
  <2>13. TrueOf(result) = IdsOf(rows)
    <3>1. TrueOf(result) \subseteq IdsOf(result)
      BY DEF TrueOf, IdsOf
    <3>2. \A i \in 1..Len(rows) : rows[i].id \in TrueOf(result)
      <4> SUFFICES ASSUME NEW i \in 1..Len(rows)
                   PROVE  rows[i].id \in TrueOf(result)
        OBVIOUS
      <4>1. PICK k \in 1..Len(result) : result[k] = rows[i]
        BY <2>6, <2>8
      <4>2. rows[i].separator = FALSE
        BY <1>1
      <4>3. k \in {j \in 1..Len(result) : ~result[j].separator} /\ rows[i].id = result[k].id
        BY <4>1, <4>2
      <4> QED BY <4>3 DEF TrueOf
    <3>3. \A x \in IdsOf(rows) : \E i \in 1..Len(rows) : x = rows[i].id
      BY DEF IdsOf
    <3>4. IdsOf(rows) \subseteq TrueOf(result)
      <4> SUFFICES ASSUME NEW x \in IdsOf(rows)
                   PROVE  x \in TrueOf(result)
        OBVIOUS
      <4>1. PICK i \in 1..Len(rows) : x = rows[i].id
        BY <3>3
      <4> QED BY <3>2, <4>1
    <3> QED BY <2>12, <3>1, <3>4
  <2>14. Distinct(result)
    <3> SUFFICES ASSUME NEW i \in 1..(Len(rows) + 1), NEW j \in 1..(Len(rows) + 1),
                        result[i] = result[j]
                 PROVE  i = j
      BY <2>6 DEF Distinct
    <3>1. CASE i # p + 1 /\ j # p + 1
      BY <2>7, <2>10, <3>1
    <3>2. CASE i = p + 1 \/ j = p + 1
      BY <2>3, <2>7, <2>9, <3>2
    <3> QED BY <3>1, <3>2
  <2>15. SeparatorBelow(result)
    <3> SUFFICES ASSUME NEW i \in 1..(Len(rows) + 1), result[i].separator
                 PROVE  /\ result[i].id <= m_lastMessageInbox
                        /\ \A j \in 1..(Len(rows) + 1) :
                             ~result[j].separator /\ result[j].id = result[i].id => j < i
      BY <2>6 DEF SeparatorBelow
    <3>1. i = p + 1
      BY <2>7
    <3>2. result[i].id <= m_lastMessageInbox
      BY <2>3, <2>9, <3>1
    <3>3. ASSUME NEW j \in 1..(Len(rows) + 1), ~result[j].separator, result[j].id = result[i].id
          PROVE  j < i
      <4>1. j # p + 1
        BY <2>3, <2>9, <3>3
      <4>2. o(j) = p
        BY <2>3, <2>7, <2>9, <3>1, <3>3, <4>1
      <4> QED BY <2>11, <3>1, <4>1, <4>2
    <3> QED BY <3>2, <3>3
  <2>16. rows # <<>>
    BY <2>1
  <2> QED BY <2>6, <2>12, <2>13, <2>14, <2>15, <2>16
<1> QED BY <1>2, <1>3 DEF Separated

-----------------------------------------------------------------------------
(* The pages TDLib answers with. *)

IsBelow(u, P) == \A p \in P : u < p
IsAbove(u, P) == \A p \in P : p < u

LEMMA PartFinite ==
  ASSUME NEW S, IsFiniteSet(S), NEW T, T \subseteq S
  PROVE  IsFiniteSet(T) /\ Cardinality(T) \in Nat /\ Cardinality(S) \in Nat
         /\ Cardinality(T) <= Cardinality(S)
BY FS_Subset, FS_CardinalityType

LEMMA HighestFacts ==
  ASSUME NEW S, S \subseteq Nat, IsFiniteSet(S), NEW k \in Int
  PROVE  /\ Highest(S, k) \subseteq S
         /\ \A id \in S \ Highest(S, k) : IsBelow(id, Highest(S, k))
<1> DEFINE up(id) == {x \in S : x > id}
<1>1. \A id \in S : IsFiniteSet(up(id)) /\ Cardinality(up(id)) \in Nat
  <2>1. \A id \in S : up(id) \subseteq S
    OBVIOUS
  <2> HIDE DEF up
  <2> QED BY <2>1, PartFinite
<1>2. Highest(S, k) = {id \in S : Cardinality(up(id)) < k}
  BY DEF Highest
<1>3. ASSUME NEW id \in S, NEW x \in S, x <= id
      PROVE  Cardinality(up(id)) <= Cardinality(up(x))
  <2>1. up(id) \subseteq up(x)
    <3>1. ASSUME NEW y \in S, y > id
          PROVE  y > x
      <4>1. x \in Nat /\ y \in Nat /\ id \in Nat
        OBVIOUS
      <4> QED BY <1>3, <3>1, <4>1
    <3> QED BY <3>1
  <2> HIDE DEF up
  <2> QED BY <1>1, <2>1, PartFinite
<1> HIDE DEF up
<1>4. ASSUME NEW id \in S \ Highest(S, k), NEW x \in Highest(S, k)
      PROVE  id < x
  <2>1. x \in S /\ Cardinality(up(x)) < k /\ ~(Cardinality(up(id)) < k)
    BY <1>2
  <2>2. ~(x <= id)
    <3>1. x <= id => Cardinality(up(id)) <= Cardinality(up(x))
      BY <1>3, <2>1
    <3>2. Cardinality(up(id)) \in Nat /\ Cardinality(up(x)) \in Nat
      BY <1>1, <2>1
    <3> QED BY <2>1, <3>1, <3>2
  <2>3. x \in Nat /\ id \in Nat
    BY <2>1
  <2> QED BY <2>2, <2>3
<1> QED BY <1>2, <1>4 DEF IsBelow

LEMMA LowestFacts ==
  ASSUME NEW S, S \subseteq Nat, IsFiniteSet(S), NEW k \in Int
  PROVE  /\ Lowest(S, k) \subseteq S
         /\ \A id \in S \ Lowest(S, k) : IsAbove(id, Lowest(S, k))
<1> DEFINE down(id) == {x \in S : x < id}
<1>1. \A id \in S : IsFiniteSet(down(id)) /\ Cardinality(down(id)) \in Nat
  <2>1. \A id \in S : down(id) \subseteq S
    OBVIOUS
  <2> HIDE DEF down
  <2> QED BY <2>1, PartFinite
<1>2. Lowest(S, k) = {id \in S : Cardinality(down(id)) < k}
  BY DEF Lowest
<1>3. ASSUME NEW id \in S, NEW x \in S, id <= x
      PROVE  Cardinality(down(id)) <= Cardinality(down(x))
  <2>1. down(id) \subseteq down(x)
    <3>1. ASSUME NEW y \in S, y < id
          PROVE  y < x
      <4>1. x \in Nat /\ y \in Nat /\ id \in Nat
        OBVIOUS
      <4> QED BY <1>3, <3>1, <4>1
    <3> QED BY <3>1
  <2> HIDE DEF down
  <2> QED BY <1>1, <2>1, PartFinite
<1> HIDE DEF down
<1>4. ASSUME NEW id \in S \ Lowest(S, k), NEW x \in Lowest(S, k)
      PROVE  x < id
  <2>1. x \in S /\ Cardinality(down(x)) < k /\ ~(Cardinality(down(id)) < k)
    BY <1>2
  <2>2. ~(id <= x)
    <3>1. id <= x => Cardinality(down(id)) <= Cardinality(down(x))
      BY <1>3, <2>1
    <3>2. Cardinality(down(id)) \in Nat /\ Cardinality(down(x)) \in Nat
      BY <1>1, <2>1
    <3> QED BY <2>1, <3>1, <3>2
  <2>3. x \in Nat /\ id \in Nat
    BY <2>1
  <2> QED BY <2>2, <2>3
<1> QED BY <1>2, <1>4 DEF IsAbove

\* Something is left of what is not empty.
LEMMA HighestSome ==
  ASSUME NEW n \in Nat, NEW S, S \subseteq 0..n, S # {}, NEW k \in Nat, k > 0
  PROVE  Highest(S, k) # {}
<1>1. PICK x \in S : \A y \in S : y <= x
  BY GreatestFacts
<1>2. {y \in S : y > x} = {}
  <2>1. ASSUME NEW y \in S, y > x
        PROVE  FALSE
    <3>1. y \in 0..n /\ x \in 0..n /\ y <= x
      BY <1>1
    <3> QED BY <2>1, <3>1
  <2> QED BY <2>1
<1>3. Cardinality({y \in S : y > x}) = 0
  BY <1>2, FS_EmptySet
<1>4. x \in Highest(S, k)
  BY <1>3 DEF Highest
<1> QED BY <1>4

\* The highest ones hold all above a bound if there is place for them.
LEMMA HighestKeeps ==
  ASSUME NEW S, S \subseteq Nat, IsFiniteSet(S), NEW f \in Nat, NEW k \in Nat,
         k >= Cardinality({x \in S : x > f})
  PROVE  {x \in S : x > f} \subseteq Highest(S, k)
<1> DEFINE T == {x \in S : x > f}
<1> SUFFICES ASSUME NEW x \in T
             PROVE  Cardinality({y \in S : y > x}) < k
  BY DEF Highest
<1> DEFINE V == {y \in S : y > x}
<1>1. V \subseteq T /\ x \in T /\ x \notin V /\ T \subseteq S
  <2>1. \A y \in S : y > x => y > f
    <3>1. x \in Nat /\ x > f
      OBVIOUS
    <3> QED BY <3>1
  <2>2. ~(x > x)
    <3>1. x \in Nat
      OBVIOUS
    <3> QED BY <3>1
  <2> QED BY <2>1, <2>2
<1>2. k >= Cardinality(T)
  OBVIOUS
<1> HIDE DEF T, V
<1>3. IsFiniteSet(T) /\ Cardinality(T) \in Nat
  BY <1>1, PartFinite
<1>4. Cardinality(V) \in Nat /\ Cardinality(V) <= Cardinality(T)
      /\ (Cardinality(T) = Cardinality(V) => T = V)
  BY <1>1, <1>3, FS_Subset, FS_CardinalityType
<1>5. Cardinality(V) < k
  BY <1>1, <1>2, <1>3, <1>4
<1> QED BY <1>5 DEF V

\* A page is a part of the chat without holes; one of older messages is just
\* below the message asked about, one around a message holds what is next to it.
AnswerOf(r, S) ==
  /\ S \subseteq chat
  /\ r.extra = "prepend" =>
       /\ \A p \in S : p < r.from
       /\ \A id \in chat \ S : id < r.from => S # {} /\ IsBelow(id, S)
  /\ r.extra # "prepend" =>
       \A id \in chat \ S : IF r.from # 0 /\ r.from < id THEN IsAbove(id, S) ELSE IsBelow(id, S)

LEMMA AroundFacts ==
  ASSUME NEW n \in Nat, chat \subseteq 1..n, NEW from \in 0..n,
         NEW newer \in 0..(MESSAGE_LIMIT - 1),
         MESSAGE_LIMIT \in Nat \ {0}
  PROVE  /\ Around(from, newer) \subseteq chat
         /\ \A id \in chat \ Around(from, newer) :
              IF from # 0 /\ from < id THEN IsAbove(id, Around(from, newer))
                                      ELSE IsBelow(id, Around(from, newer))
<1> PICK above : above = IF from = 0 THEN {} ELSE Lowest({id \in chat : id > from}, newer)
  OBVIOUS
<1> PICK rest : rest = {id \in chat : from = 0 \/ id <= from}
  OBVIOUS
<1> PICK higher : higher = {id \in chat : id > from}
  OBVIOUS
<1>1. /\ IsFiniteSet(chat) /\ chat \subseteq Nat
      /\ IsFiniteSet(higher) /\ higher \subseteq Nat
      /\ IsFiniteSet(rest) /\ rest \subseteq Nat
  <2>1. IsFiniteSet(1..n)
    BY FS_Interval
  <2>2. chat \subseteq 1..n /\ higher \subseteq 1..n /\ rest \subseteq 1..n
    OBVIOUS
  <2>3. IsFiniteSet(chat) /\ IsFiniteSet(higher) /\ IsFiniteSet(rest)
    BY <2>1, <2>2, FS_Subset
  <2> QED BY <2>2, <2>3
<1>2. /\ Lowest(higher, newer) \subseteq higher
      /\ \A id \in higher \ Lowest(higher, newer) : IsAbove(id, Lowest(higher, newer))
  <2>1. newer \in Int
    OBVIOUS
  <2> QED BY <1>1, <2>1, LowestFacts
<1>3. above \subseteq higher /\ (from = 0 => above = {})
      /\ (from # 0 => \A id \in higher \ above : IsAbove(id, above))
  BY <1>2
<1>4. IsFiniteSet(above) /\ Cardinality(above) \in Nat
  BY <1>1, <1>3, PartFinite
<1> PICK low : low = Highest(rest, MESSAGE_LIMIT - Cardinality(above))
  OBVIOUS
<1>5. low \subseteq rest /\ \A id \in rest \ low : IsBelow(id, low)
  <2>1. MESSAGE_LIMIT - Cardinality(above) \in Int
    BY <1>4
  <2> QED BY <1>1, <2>1, HighestFacts
<1>6. Around(from, newer) = above \cup low
  BY DEF Around
<1>7. ASSUME NEW id \in chat, id \notin above, id \notin low
      PROVE  IF from # 0 /\ from < id THEN IsAbove(id, above \cup low)
                                      ELSE IsBelow(id, above \cup low)
  <2>1. from \in Nat /\ id \in Nat /\ \A x \in rest : x \in Nat
    BY <1>1
  <2>2. CASE from # 0 /\ from < id
    <3>1. id \in higher /\ \A x \in rest : x <= from
      BY <2>2
    <3>2. IsAbove(id, above)
      BY <1>3, <1>7, <2>2, <3>1
    <3>3. IsAbove(id, low)
      BY <1>5, <2>1, <2>2, <3>1 DEF IsAbove
    <3> QED BY <2>2, <3>2, <3>3 DEF IsAbove
  <2>3. CASE ~(from # 0 /\ from < id)
    <3>1. id \in rest
      BY <2>1, <2>3
    <3>2. IsBelow(id, low)
      BY <1>5, <1>7, <3>1
    <3>3. IsBelow(id, above)
      <4>1. CASE from = 0
        BY <1>3, <4>1 DEF IsBelow
      <4>2. CASE from # 0
        <5>1. \A x \in above : x \in chat /\ x > from
          BY <1>3
        <5>2. ~(from < id)
          BY <2>3, <4>2
        <5> QED BY <1>1, <2>1, <5>1, <5>2 DEF IsBelow
      <4> QED BY <4>1, <4>2
    <3> QED BY <2>3, <3>2, <3>3 DEF IsBelow
  <2> QED BY <2>2, <2>3
<1>8. above \cup low \subseteq chat
  BY <1>3, <1>5
<1> QED BY <1>6, <1>7, <1>8

LEMMA AnswersFacts ==
  ASSUME NEW n \in Nat, chat \subseteq 1..n, NEW r \in Request(n), NEW S \in Answers(r)
  PROVE  AnswerOf(r, S)
<1> PICK full :
      full = CASE r.extra = "prepend" -> Highest({id \in chat : id < r.from}, MESSAGE_LIMIT)
               [] r.extra = "append"  -> Around(r.from, MESSAGE_LIMIT - 1)
               [] OTHER               -> Around(r.from, Newer)
  OBVIOUS
<1> PICK newer : newer = IF r.from = 0 THEN {} ELSE {id \in full : id > r.from}
  OBVIOUS
<1>1. PICK k \in 0..Cardinality(full) :
        k >= Cardinality(newer) /\ (k = 0 => full = {}) /\ S = Highest(full, k)
  BY DEF Answers
<1>2. MESSAGE_LIMIT \in Nat \ {0} /\ Newer \in 0..(MESSAGE_LIMIT - 1)
      /\ MESSAGE_LIMIT - 1 \in 0..(MESSAGE_LIMIT - 1)
  BY SizesAssumption
<1>3. r.extra \in Extras /\ r.from \in 0..n
  BY DEF Request
<1> PICK below : below = {id \in chat : id < r.from}
  OBVIOUS
<1>4. IsFiniteSet(chat) /\ chat \subseteq Nat /\ IsFiniteSet(below) /\ below \subseteq chat
  <2>1. IsFiniteSet(1..n)
    <3>1. 1 \in Int /\ n \in Int
      OBVIOUS
    <3> QED BY <3>1, FS_Interval
  <2> QED BY <2>1, FS_Subset
<1>5. CASE r.extra = "prepend"
  <2>1. full = Highest(below, MESSAGE_LIMIT)
    BY <1>5
  <2>2. full \subseteq below /\ \A id \in below \ full : IsBelow(id, full)
    <3>1. MESSAGE_LIMIT \in Int /\ below \subseteq Nat
      BY <1>2, <1>4
    <3>2. /\ Highest(below, MESSAGE_LIMIT) \subseteq below
          /\ \A id \in below \ Highest(below, MESSAGE_LIMIT) :
               IsBelow(id, Highest(below, MESSAGE_LIMIT))
      BY <1>4, <3>1, HighestFacts
    <3> QED BY <2>1, <3>2
  <2>3. full = {} => below = {}
    <3>1. below \subseteq 0..n
      BY <1>4
    <3> QED BY <1>2, <2>1, <3>1, HighestSome
  <2>5. IsFiniteSet(full) /\ full \subseteq Nat /\ Cardinality(full) \in Nat /\ k \in Int
    BY <1>4, <2>2, PartFinite
  <2>6. S \subseteq full /\ \A id \in full \ S : IsBelow(id, S)
    BY <1>1, <2>5, HighestFacts
  <2>7. S = {} => full = {}
    <3>1. full \subseteq 0..n
      BY <1>4, <2>2
    <3>2. k \in Nat
      BY <2>5
    <3>3. full # {} => k > 0
      BY <1>1, <3>2
    <3> QED BY <1>1, <3>1, <3>2, <3>3, HighestSome
  <2>8. \A p \in S : p < r.from
    BY <2>2, <2>6
  <2>9. ASSUME NEW id \in chat \ S, id < r.from
        PROVE  S # {} /\ IsBelow(id, S)
    <3>1. id \in below
      BY <2>9
    <3>2. S # {}
      BY <2>3, <2>7, <3>1
    <3>3. CASE id \in full
      BY <2>6, <3>2, <3>3
    <3>4. CASE id \notin full
      BY <2>2, <2>6, <3>1, <3>2, <3>4 DEF IsBelow
    <3> QED BY <3>3, <3>4
  <2>10. S \subseteq chat
    BY <1>4, <2>2, <2>6
  <2> QED BY <1>5, <2>8, <2>9, <2>10 DEF AnswerOf
<1>6. CASE r.extra # "prepend"
  <2>1. PICK w \in 0..(MESSAGE_LIMIT - 1) : full = Around(r.from, w)
    BY <1>2, <1>3, <1>6
  <2>2. /\ Around(r.from, w) \subseteq chat
        /\ \A id \in chat \ Around(r.from, w) :
             IF r.from # 0 /\ r.from < id THEN IsAbove(id, Around(r.from, w))
                                          ELSE IsBelow(id, Around(r.from, w))
    BY <1>2, <1>3, AroundFacts
  <2>4. /\ full \subseteq chat
        /\ \A id \in chat \ full :
             IF r.from # 0 /\ r.from < id THEN IsAbove(id, full) ELSE IsBelow(id, full)
    BY <2>1, <2>2
  <2>5. IsFiniteSet(full) /\ full \subseteq Nat /\ Cardinality(full) \in Nat /\ k \in Int
    BY <1>4, <2>4, PartFinite
  <2>6. S \subseteq full /\ \A id \in full \ S : IsBelow(id, S)
    BY <1>1, <2>5, HighestFacts
  <2>7. r.from # 0 => newer \subseteq S
    <3> SUFFICES ASSUME r.from # 0
                 PROVE  {id \in full : id > r.from} \subseteq S
      OBVIOUS
    <3>1. newer = {id \in full : id > r.from}
      OBVIOUS
    <3>2. k \in Nat /\ r.from \in Nat
      BY <1>3, <2>5
    <3> QED BY <1>1, <2>5, <3>1, <3>2, HighestKeeps
  <2>8. ASSUME NEW id \in chat \ S
        PROVE  IF r.from # 0 /\ r.from < id THEN IsAbove(id, S) ELSE IsBelow(id, S)
    <3>1. CASE id \in full
      <4>1. ~(r.from # 0 /\ r.from < id)
        <5>1. r.from # 0 /\ r.from < id => id \in newer
          BY <1>3, <1>4, <3>1
        <5> QED BY <2>7, <5>1
      <4> QED BY <2>6, <3>1, <4>1
    <3>2. CASE id \notin full
      <4>1. IF r.from # 0 /\ r.from < id THEN IsAbove(id, full) ELSE IsBelow(id, full)
        BY <2>4, <3>2
      <4> QED BY <2>6, <4>1 DEF IsAbove, IsBelow
    <3> QED BY <3>1, <3>2
  <2> QED BY <1>6, <2>4, <2>6, <2>8 DEF AnswerOf
<1> QED BY <1>5, <1>6

-----------------------------------------------------------------------------
(* Each action keeps the types. *)

LEMMA ShortSequences ==
  ASSUME NEW D, NEW a \in D, NEW b \in D, NEW c \in D
  PROVE  /\ <<a>> \in Seq(D) /\ <<a, b>> \in Seq(D) /\ <<a, b, c>> \in Seq(D)
OBVIOUS

LEMMA GivenIds ==
  ASSUME NEW n \in Nat, NEW id \in 1..n, NEW own \in BOOLEAN
  PROVE  /\ NewMessage(id, own) \in Delivery(n)
         /\ [kind |-> "message", message |-> [id |-> id, sending |-> TRUE]] \in Delivery(n)
         /\ LastMessage(id) \in Delivery(n) /\ LastMessage(0) \in Delivery(n)
         /\ [kind |-> "updateDeleteMessages", id |-> id] \in Delivery(n)
         /\ \A old \in 1..n :
              [kind |-> "updateMessageSendSucceeded", old_message_id |-> old, id |-> id]
                \in Delivery(n)
<1>1. NewMessage(id, own) \in Arrival(n)
  BY DEF NewMessage, Arrival, Msg
<1>2. [kind |-> "message", message |-> [id |-> id, sending |-> TRUE]] \in Echoed(n)
  BY DEF Echoed
<1>3. LastMessage(id) \in Latest(n) /\ LastMessage(0) \in Latest(n)
  BY DEF LastMessage, Latest
<1>4. [kind |-> "updateDeleteMessages", id |-> id] \in Deletion(n)
  BY DEF Deletion
<1>5. \A old \in 1..n :
        [kind |-> "updateMessageSendSucceeded", old_message_id |-> old, id |-> id] \in Renaming(n)
  BY DEF Renaming
<1> QED BY <1>1, <1>2, <1>3, <1>4, <1>5 DEF Delivery

LEMMA PagesGiven ==
  ASSUME NEW n \in Nat, chat \subseteq 1..n, NEW S, S \subseteq chat,
         NEW extra \in Extras \cup {"other"}
  PROVE  Messages(extra, S) \in Delivery(n)
<1>1. IsFiniteSet(S) /\ S \subseteq Nat /\ S \subseteq 1..n
  <2>1. 1 \in Int /\ n \in Int
    OBVIOUS
  <2>2. IsFiniteSet(1..n)
    BY <2>1, FS_Interval
  <2>3. S \subseteq 1..n
    OBVIOUS
  <2>4. IsFiniteSet(S)
    BY <2>2, <2>3, FS_Subset
  <2> QED BY <2>3, <2>4
<1>2. PageOf(S) \in Seq([id : S, sending : BOOLEAN])
  BY <1>1, PageFacts
<1>3. [id : S, sending : BOOLEAN] \subseteq Msg(n)
  BY <1>1 DEF Msg
<1>4. PageOf(S) \in Seq(Msg(n))
  BY <1>2, <1>3, SeqGrows
<1>5. Messages(extra, S) \in Page(n)
  BY <1>4 DEF Messages, Page
<1> QED BY <1>5 DEF Delivery

LEMMA MessageArrivesTypes ==
  ASSUME Types, MessageArrives
  PROVE  Types'
<1>1. PICK n \in Nat : n = newest
  BY DEF Types
<1>2. ServerTypes(n + 1) /\ ViewTypes(n + 1) /\ n + 1 \in 1..(n + 1) /\ n + 1 \in Nat
  BY <1>1, TypesGrow DEF Types
<1>3. newest' = n + 1 /\ chat' = chat \cup {n + 1}
  BY <1>1 DEF MessageArrives
<1>4. inbox' \in Seq(Delivery(n + 1))
  <2>1. inbox' = inbox \o <<NewMessage(n + 1, FALSE), LastMessage(n + 1)>>
    BY <1>1 DEF MessageArrives
  <2>2. NewMessage(n + 1, FALSE) \in Delivery(n + 1) /\ LastMessage(n + 1) \in Delivery(n + 1)
    BY <1>2, GivenIds
  <2>3. <<NewMessage(n + 1, FALSE), LastMessage(n + 1)>> \in Seq(Delivery(n + 1))
    BY <2>2, ShortSequences
  <2>4. inbox \in Seq(Delivery(n + 1))
    BY <1>2 DEF ServerTypes
  <2> QED BY <2>1, <2>3, <2>4, ConcatProperties
<1>5. ServerTypes(newest)'
  BY <1>2, <1>3, <1>4 DEF ServerTypes, MessageArrives, past
<1>6. ViewTypes(newest)'
  BY <1>2, <1>3 DEF ViewTypes, MessageArrives, view, peer
<1>7. OtherTypes'
  BY DEF Types, OtherTypes, MessageArrives, view, peer, flags, past
<1> QED BY <1>2, <1>3, <1>5, <1>6, <1>7 DEF Types

LEMMA sendMessageTypes ==
  ASSUME Types, sendMessage
  PROVE  Types'
<1>1. PICK n \in Nat : n = newest
  BY DEF Types
<1>2. ServerTypes(n + 1) /\ ViewTypes(n + 1) /\ n + 1 \in 1..(n + 1) /\ n + 1 \in Nat
  BY <1>1, TypesGrow DEF Types
<1>3. newest' = n + 1 /\ chat' = chat \cup {n + 1} /\ sending' = sending \cup {n + 1}
  BY <1>1 DEF sendMessage
<1>4. inbox' \in Seq(Delivery(n + 1))
  <2> DEFINE e == [kind |-> "message", message |-> [id |-> n + 1, sending |-> TRUE]]
  <2>1. inbox' = inbox \o <<NewMessage(n + 1, TRUE), LastMessage(n + 1), e>>
    BY <1>1 DEF sendMessage
  <2>2. NewMessage(n + 1, TRUE) \in Delivery(n + 1) /\ LastMessage(n + 1) \in Delivery(n + 1)
        /\ e \in Delivery(n + 1)
    BY <1>2, GivenIds
  <2> HIDE DEF e
  <2>3. <<NewMessage(n + 1, TRUE), LastMessage(n + 1), e>> \in Seq(Delivery(n + 1))
    BY <2>2, ShortSequences
  <2>4. inbox \in Seq(Delivery(n + 1))
    BY <1>2 DEF ServerTypes
  <2> QED BY <2>1, <2>3, <2>4, ConcatProperties
<1>5. ServerTypes(newest)'
  BY <1>2, <1>3, <1>4 DEF ServerTypes, sendMessage, past
<1>6. ViewTypes(newest)'
  BY <1>2, <1>3 DEF ViewTypes, sendMessage, view, peer
<1>7. OtherTypes'
  BY DEF Types, OtherTypes, sendMessage, view, peer, flags, past
<1> QED BY <1>2, <1>3, <1>5, <1>6, <1>7 DEF Types

LEMMA SettleTypes ==
  ASSUME Types, NEW id, Settle(id),
         \/ inbox' = inbox
         \/ inbox' = Append(inbox, [kind |-> "updateMessageSendSucceeded",
                                    old_message_id |-> id, id |-> newest']),
         trouble' \subseteq Troubles
  PROVE  Types'
<1>1. PICK n \in Nat : n = newest
  BY DEF Types
<1>2. ServerTypes(n + 1) /\ ViewTypes(n + 1) /\ n + 1 \in 1..(n + 1) /\ n + 1 \in Nat
  BY <1>1, TypesGrow DEF Types
<1>3. /\ newest' = n + 1 /\ chat' = (chat \ {id}) \cup {n + 1}
      /\ sending' = sending \ {id} /\ id \in sending
  BY <1>1 DEF Settle
<1>4. inbox' \in Seq(Delivery(n + 1))
  <2>1. id \in 1..(n + 1)
    BY <1>2, <1>3 DEF ServerTypes
  <2>2. [kind |-> "updateMessageSendSucceeded", old_message_id |-> id, id |-> n + 1]
          \in Delivery(n + 1)
    BY <1>2, <2>1, GivenIds
  <2>3. inbox \in Seq(Delivery(n + 1))
    BY <1>2 DEF ServerTypes
  <2> QED BY <1>3, <2>2, <2>3, AppendProperties
<1>5. ServerTypes(newest)'
  BY <1>2, <1>3, <1>4 DEF ServerTypes, Settle
<1>6. ViewTypes(newest)'
  BY <1>2, <1>3 DEF ViewTypes, Settle, view, peer
<1>7. OtherTypes'
  BY DEF Types, OtherTypes, Settle, view, peer, flags
<1> QED BY <1>2, <1>3, <1>5, <1>6, <1>7 DEF Types

LEMMA SendSucceedsTypes ==
  ASSUME Types, NEW id, SendSucceeds(id)
  PROVE  Types'
<1>1. trouble' \subseteq Troubles
  BY DEF SendSucceeds, Types, OtherTypes
<1> QED BY <1>1, SettleTypes DEF SendSucceeds

LEMMA SendFailsTypes ==
  ASSUME Types, NEW id, SendFails(id)
  PROVE  Types'
<1>1. trouble' \subseteq Troubles
  BY DEF SendFails, Types, OtherTypes, Troubles
<1> QED BY <1>1, SettleTypes DEF SendFails

\* What Delete does to the chat and its inbox.
LEMMA DeleteTypes ==
  ASSUME Types, NEW id \in chat, Delete(id)
  PROVE  /\ chat' \subseteq 1..newest /\ sending' \subseteq chat'
         /\ inbox' \in Seq(Delivery(newest))
         /\ \E last \in 0..newest :
              /\ inbox' = inbox \o <<[kind |-> "updateDeleteMessages", id |-> id],
                                     LastMessage(last)>>
              /\ \A x \in chat' : x <= last
<1>1. PICK n \in Nat : n = newest
  BY DEF Types
<1>2. chat \subseteq 1..n /\ sending \subseteq chat /\ inbox \in Seq(Delivery(n))
  BY <1>1 DEF Types, ServerTypes
<1> PICK left : left = chat \ {id}
  OBVIOUS
<1> PICK last : last = IF left = {} THEN 0 ELSE Max(left)
  OBVIOUS
<1>3. /\ chat' = left /\ sending' = sending \ {id}
      /\ inbox' = inbox \o <<[kind |-> "updateDeleteMessages", id |-> id], LastMessage(last)>>
  BY DEF Delete
<1>4. last \in 0..n /\ \A x \in left : x <= last
  <2>1. CASE left = {}
    BY <2>1
  <2>2. CASE left # {}
    <3>1. left \subseteq 0..n /\ left \subseteq 1..n
      BY <1>2
    <3>2. Max(left) \in left /\ \A x \in left : x <= Max(left)
      BY <2>2, <3>1, GreatestFacts
    <3> QED BY <2>2, <3>1, <3>2
  <2> QED BY <2>1, <2>2
<1>5. /\ [kind |-> "updateDeleteMessages", id |-> id] \in Delivery(n)
      /\ LastMessage(last) \in Delivery(n)
  <2>1. id \in 1..n
    BY <1>2
  <2>2. last = 0 \/ last \in 1..n
    BY <1>4
  <2>3. [kind |-> "updateDeleteMessages", id |-> id] \in Delivery(n)
        /\ LastMessage(0) \in Delivery(n)
    BY <2>1, GivenIds
  <2>4. last \in 1..n => LastMessage(last) \in Delivery(n)
    BY GivenIds
  <2> QED BY <2>2, <2>3, <2>4
<1>6. inbox' \in Seq(Delivery(n))
  <2>1. <<[kind |-> "updateDeleteMessages", id |-> id], LastMessage(last)>> \in Seq(Delivery(n))
    BY <1>5, ShortSequences
  <2> QED BY <1>2, <1>3, <2>1, ConcatProperties
<1> QED BY <1>1, <1>2, <1>3, <1>4, <1>6

LEMMA MessageDeletedTypes ==
  ASSUME Types, NEW id, MessageDeleted(id)
  PROVE  Types'
<1>1. /\ chat' \subseteq 1..newest /\ sending' \subseteq chat'
      /\ inbox' \in Seq(Delivery(newest))
  BY DeleteTypes DEF MessageDeleted
<1>2. newest' = newest
  BY DEF MessageDeleted
<1>3. ServerTypes(newest)'
  BY <1>1, <1>2 DEF Types, ServerTypes, MessageDeleted, past
<1>4. ViewTypes(newest)'
  BY <1>2 DEF Types, ViewTypes, MessageDeleted, view, peer
<1>5. OtherTypes'
  BY DEF Types, OtherTypes, MessageDeleted, view, peer, flags, past
<1> QED BY <1>2, <1>3, <1>4, <1>5 DEF Types

LEMMA AnswerHistoryTypes ==
  ASSUME Types, NEW i \in 1..Len(requests), AnswerHistory(i)
  PROVE  Types'
<1>1. PICK n \in Nat : n = newest
  BY DEF Types
<1>2. requests \in Seq(Request(n)) /\ inbox \in Seq(Delivery(n)) /\ chat \subseteq 1..n
  BY <1>1 DEF Types, ServerTypes
<1>3. PICK r \in Request(n) : r = requests[i]
  BY <1>2, ElementOfSeq
<1>4. PICK S \in Answers(r) : inbox' = Append(inbox, Messages(r.extra, S))
  BY <1>3 DEF AnswerHistory
<1>5. S \subseteq chat
  BY <1>2, AnswersFacts DEF AnswerOf
<1>6. Messages(r.extra, S) \in Delivery(n)
  <2>1. r.extra \in Extras \cup {"other"}
    BY DEF Request
  <2> QED BY <1>2, <1>5, <2>1, PagesGiven
<1>7. inbox' \in Seq(Delivery(n))
  BY <1>2, <1>4, <1>6, AppendProperties
<1>8. requests' \in Seq(Request(n))
  <2>1. requests' = RemoveAt(requests, i)
    BY DEF AnswerHistory
  <2> QED BY <1>2, <2>1, RemoveAtProperties
<1>9. newest' = n /\ chat' = chat /\ sending' = sending
  BY <1>1 DEF AnswerHistory, server
<1>10. ServerTypes(newest)'
  BY <1>1, <1>7, <1>8, <1>9 DEF Types, ServerTypes, AnswerHistory, past
<1>11. ViewTypes(newest)'
  BY <1>1, <1>9 DEF Types, ViewTypes, AnswerHistory, view, peer
<1>12. OtherTypes'
  BY DEF Types, OtherTypes, AnswerHistory, view, peer, flags, past
<1> QED BY <1>9, <1>10, <1>11, <1>12 DEF Types

LEMMA FailHistoryTypes ==
  ASSUME Types, NEW i \in 1..Len(requests), FailHistory(i)
  PROVE  Types'
<1>1. PICK n \in Nat : n = newest
  BY DEF Types
<1>2. requests \in Seq(Request(n))
  BY <1>1 DEF Types, ServerTypes
<1>3. requests' \in Seq(Request(n))
  <2>1. requests' = RemoveAt(requests, i)
    BY DEF FailHistory
  <2> QED BY <1>2, <2>1, RemoveAtProperties
<1>4. newest' = n
  BY <1>1 DEF FailHistory, server
<1>5. ServerTypes(newest)'
  BY <1>1, <1>3, <1>4 DEF Types, ServerTypes, FailHistory, server
<1>6. ViewTypes(newest)'
  BY <1>1, <1>4 DEF Types, ViewTypes, FailHistory, view, peer
<1>7. OtherTypes'
  BY DEF Types, OtherTypes, FailHistory, view, peer, flags, Troubles
<1> QED BY <1>4, <1>5, <1>6, <1>7 DEF Types

LEMMA AnswerOtherTypes ==
  ASSUME Types, AnswerOther
  PROVE  Types'
<1>1. PICK n \in Nat : n = newest
  BY DEF Types
<1>2. inbox \in Seq(Delivery(n)) /\ chat \subseteq 1..n
  BY <1>1 DEF Types, ServerTypes
<1>3. Highest(chat, 1) \subseteq chat
  BY DEF Highest
<1>4. Messages("other", Highest(chat, 1)) \in Delivery(n)
  <2> PICK S : S = Highest(chat, 1)
    OBVIOUS
  <2> QED BY <1>2, <1>3, PagesGiven
<1>5. inbox' \in Seq(Delivery(n))
  BY <1>2, <1>4, AppendProperties DEF AnswerOther
<1>6. newest' = n
  BY <1>1 DEF AnswerOther, server
<1>7. ServerTypes(newest)'
  BY <1>1, <1>5, <1>6 DEF Types, ServerTypes, AnswerOther, server, past
<1>8. ViewTypes(newest)'
  BY <1>1, <1>6 DEF Types, ViewTypes, AnswerOther, view, peer
<1>9. OtherTypes'
  <2>1. others' \in Nat
    BY DEF Types, OtherTypes, AnswerOther
  <2> QED BY <2>1 DEF Types, OtherTypes, AnswerOther, view, peer, flags, past
<1> QED BY <1>6, <1>7, <1>8, <1>9 DEF Types

LEMMA AnswerElsewhereTypes ==
  ASSUME Types, AnswerElsewhere
  PROVE  Types'
<1>1. PICK n \in Nat : n = newest
  BY DEF Types
<1>2. inbox' \in Seq(Delivery(n))
  <2>1. inbox \in Seq(Delivery(n)) /\ EndElsewhere \in Delivery(n)
    BY <1>1 DEF Types, ServerTypes, Delivery
  <2>2. inbox' = Append(inbox, EndElsewhere)
    BY DEF AnswerElsewhere, EndElsewhere
  <2> QED BY <2>1, <2>2, AppendProperties
<1>3. newest' = n
  BY <1>1 DEF AnswerElsewhere, server
<1>4. ServerTypes(newest)'
  BY <1>1, <1>2, <1>3 DEF Types, ServerTypes, AnswerElsewhere, server, past
<1>5. ViewTypes(newest)'
  BY <1>1, <1>3 DEF Types, ViewTypes, AnswerElsewhere, view, peer
<1>6. OtherTypes'
  BY DEF Types, OtherTypes, AnswerElsewhere, view, peer, flags, past
<1> QED BY <1>3, <1>4, <1>5, <1>6 DEF Types

\* A request for a page.
LEMMA RequestTypes ==
  ASSUME Types, NEW extra \in Extras, NEW from \in 0..newest, getChatHistory(extra, from),
         UNCHANGED <<server, others, inbox, lastMessageId, peer, view, m_reachedHistoryEnd, misled,
                     crashed, dropped, events>>
  PROVE  Types'
<1>1. PICK n \in Nat : n = newest
  BY DEF Types
<1>2. [extra |-> extra, from |-> from] \in Request(n)
  BY <1>1 DEF Request
<1>3. requests' \in Seq(Request(n))
  BY <1>1, <1>2, AppendProperties DEF Types, ServerTypes, getChatHistory
<1>4. newest' = n
  BY <1>1 DEF server
<1>5. ServerTypes(newest)'
  BY <1>1, <1>3, <1>4 DEF Types, ServerTypes, server
<1>6. ViewTypes(newest)'
  BY <1>1, <1>4 DEF Types, ViewTypes, view, peer
<1>7. trouble' \subseteq Troubles
  BY DEF Types, OtherTypes, getChatHistory, Troubles
<1>8. OtherTypes'
  BY <1>7 DEF Types, OtherTypes, view, peer, getChatHistory
<1> QED BY <1>4, <1>5, <1>6, <1>8 DEF Types

\* The first and the last row have ids.
LEMMA EndRows ==
  ASSUME Types, m_messages # <<>>
  PROVE  /\ Len(m_messages) \in Nat /\ Len(m_messages) >= 1
         /\ Head(m_messages) = m_messages[1] /\ Last(m_messages) = m_messages[Len(m_messages)]
         /\ Head(m_messages).id \in 1..newest /\ Last(m_messages).id \in 1..newest
         /\ Head(m_messages).id \in RowIds /\ Last(m_messages).id \in RowIds
<1>1. m_messages \in Seq(ARow(newest))
  BY DEF Types, ViewTypes
<1>2. Len(m_messages) \in Nat /\ Len(m_messages) >= 1
  BY <1>1, EmptySeq, LenProperties
<1>3. \A i \in 1..Len(m_messages) : m_messages[i].id \in 1..newest
  <2>1. PICK n : n = newest
    OBVIOUS
  <2>2. \A i \in 1..Len(m_messages) : m_messages[i] \in ARow(n)
    BY <1>1, <2>1, ElementOfSeq
  <2> QED BY <2>1, <2>2 DEF ARow
<1>4. Head(m_messages) = m_messages[1] /\ Last(m_messages) = m_messages[Len(m_messages)]
  BY <1>1, <1>2 DEF Last
<1>5. 1 \in 1..Len(m_messages) /\ Len(m_messages) \in 1..Len(m_messages)
  BY <1>2
<1> QED BY <1>2, <1>3, <1>4, <1>5 DEF RowIds

LEMMA fetchMoreTypes ==
  ASSUME Types, fetchMore
  PROVE  Types'
<1>1. CASE m_messages = <<>>
  <2>1. PICK from \in 0..newest : getChatHistory("first", from)
    BY <1>1 DEF fetchMore, Types, ViewTypes
  <2> QED BY <2>1, RequestTypes DEF fetchMore, Extras
<1>2. CASE m_messages # <<>>
  <2>1. Last(m_messages).id \in 1..newest
    BY <1>2, EndRows
  <2>2. PICK from \in 0..newest : getChatHistory("append", from)
    <3>1. Last(m_messages).id \in 0..newest
      BY <2>1 DEF Types
    <3> QED BY <1>2, <3>1 DEF fetchMore
  <2> QED BY <2>2, RequestTypes DEF fetchMore, Extras
<1> QED BY <1>1, <1>2

LEMMA fetchOlderTypes ==
  ASSUME Types, fetchOlder
  PROVE  Types'
<1>1. Head(m_messages).id \in 1..newest
  BY EndRows DEF fetchOlder
<1>2. PICK from \in 0..newest : getChatHistory("prepend", from)
  <2>1. Head(m_messages).id \in 0..newest
    BY <1>1 DEF Types
  <2> QED BY <2>1 DEF fetchOlder
<1> QED BY <1>2, RequestTypes DEF fetchOlder, Extras

LEMMA searchTypes ==
  ASSUME Types, searchChatMessages
  PROVE  Types'
<1>1. others' \in Nat
  BY DEF Types, OtherTypes, searchChatMessages
<1> QED BY <1>1 DEF Types, ServerTypes, ViewTypes, OtherTypes, searchChatMessages,
                    server, peer, view, flags, past

LEMMA setPeerIdTypes ==
  ASSUME Types, setPeerId
  PROVE  Types'
<1>1. PICK n \in Nat : n = newest
  BY DEF Types
<1>2. newest' = n /\ lastMessageId \in 0..n /\ chat \subseteq 1..n /\ dropped \subseteq 1..n
  BY <1>1 DEF Types, ServerTypes, setPeerId, server
<1>3. m_lastMessage' \in 0..n /\ m_lastMessageInbox' \in 0..n /\ m_lastOutboxId' \in 0..n
  <2>1. m_lastMessageInbox' \in chat \cup {0} /\ m_lastOutboxId' \in {0, lastMessageId}
        /\ m_lastMessage' = lastMessageId
    BY DEF setPeerId
  <2>2. 0 \in 0..n /\ chat \subseteq 0..n
    BY <1>2
  <2> QED BY <1>2, <2>1, <2>2
<1>4. dropped' \subseteq 1..n
  BY <1>2 DEF setPeerId
<1>5. ServerTypes(newest)'
  BY <1>1, <1>2, <1>4 DEF Types, ServerTypes, setPeerId, server
<1>6. ViewTypes(newest)'
  BY <1>1, <1>2, <1>3 DEF Types, ViewTypes, setPeerId
<1>7. OtherTypes'
  BY DEF Types, OtherTypes, setPeerId, flags
<1> QED BY <1>2, <1>5, <1>6, <1>7 DEF Types

LEMMA deleteMessageTypes ==
  ASSUME Types, NEW i \in 1..Len(m_messages), deleteMessage(i)
  PROVE  Types'
<1>1. PICK n \in Nat : n = newest
  BY DEF Types
<1>2. /\ chat' \subseteq 1..n /\ sending' \subseteq chat'
      /\ inbox' \in Seq(Delivery(n)) /\ trouble' \subseteq Troubles
  <2>1. CASE ~m_messages[i].separator /\ m_messages[i].id \in chat
    <3>1. PICK id \in chat : Delete(id)
      BY <2>1 DEF deleteMessage
    <3>2. trouble' = trouble
      BY <2>1 DEF deleteMessage
    <3> QED BY <1>1, <3>1, <3>2, DeleteTypes DEF Types, OtherTypes
  <2>2. CASE ~(~m_messages[i].separator /\ m_messages[i].id \in chat)
    <3>1. chat' = chat /\ sending' = sending /\ inbox' = inbox
      BY <2>2 DEF deleteMessage
    <3>2. trouble' \subseteq trouble \cup {"renamed"}
      BY <2>2 DEF deleteMessage
    <3> QED BY <1>1, <3>1, <3>2 DEF Types, ServerTypes, OtherTypes, Troubles
  <2> QED BY <2>1, <2>2
<1>3. newest' = n
  BY <1>1 DEF deleteMessage
<1>4. m_messages' \in Seq(ARow(n))
  <2>1. m_messages \in Seq(ARow(n)) /\ m_messages' = RemoveAt(m_messages, i)
    BY <1>1 DEF Types, ViewTypes, deleteMessage
  <2> QED BY <2>1, RemoveAtProperties
<1>5. ServerTypes(newest)'
  BY <1>1, <1>2, <1>3 DEF Types, ServerTypes, deleteMessage
<1>6. ViewTypes(newest)'
  BY <1>1, <1>3, <1>4 DEF Types, ViewTypes, deleteMessage, peer
<1>7. OtherTypes'
  BY <1>2 DEF Types, OtherTypes, deleteMessage, peer, flags
<1> QED BY <1>3, <1>5, <1>6, <1>7 DEF Types

LEMMA OldestEvent ==
  ASSUME Types, NEW kind, Consume(kind)
  PROVE  /\ inbox # <<>> /\ Len(inbox) \in Nat /\ Len(inbox) >= 1
         /\ Received = inbox[1] /\ Received \in Delivery(newest) /\ Received.kind = kind
         /\ inbox' = Tail(inbox) /\ inbox' \in Seq(Delivery(newest))
         /\ Len(inbox') = Len(inbox) - 1
         /\ \A k \in 1..Len(inbox') : inbox'[k] = inbox[k + 1]
<1>1. inbox \in Seq(Delivery(newest)) /\ inbox # <<>> /\ inbox' = Tail(inbox)
      /\ Received.kind = kind
  BY DEF Types, ServerTypes, Consume
<1>2. Len(inbox) \in Nat /\ Len(inbox) >= 1
  BY <1>1, EmptySeq, LenProperties
<1>3. Received = inbox[1] /\ Received \in Delivery(newest)
  BY <1>1, <1>2, HeadTailProperties, ElementOfSeq DEF Received
<1>4. /\ inbox' \in Seq(Delivery(newest)) /\ Len(inbox') = Len(inbox) - 1
      /\ \A k \in 1..Len(inbox') : inbox'[k] = inbox[k + 1]
  BY <1>1, HeadTailProperties
<1> QED BY <1>1, <1>2, <1>3, <1>4

\* A handler leaves the server alone.
LEMMA HandlerTypes ==
  ASSUME Types, NEW kind, Consume(kind), UNCHANGED <<server, requests, peer, trouble, flags>>,
         UNCHANGED crashed, others' \in Nat, isUpdateConnected' \in BOOLEAN,
         m_messages' \in Seq(ARow(newest)), m_lastMessage' \in 0..newest,
         lastMessageId' \in 0..newest, dropped' \subseteq 1..newest
  PROVE  Types'
<1>1. PICK n \in Nat : n = newest
  BY DEF Types
<1>2. newest' = n /\ inbox' \in Seq(Delivery(n))
  BY <1>1, OldestEvent DEF server
<1>3. ServerTypes(newest)'
  BY <1>1, <1>2 DEF Types, ServerTypes, server
<1>4. ViewTypes(newest)'
  BY <1>1, <1>2 DEF Types, ViewTypes, peer
<1>5. OtherTypes'
  BY DEF Types, OtherTypes, peer, flags
<1> QED BY <1>2, <1>3, <1>4, <1>5 DEF Types

\* Rows for messages, after the rows there are or before them.
LEMMA MoreRows ==
  ASSUME Types, NEW messages \in Seq(Msg(newest))
  PROVE  /\ m_messages \o RowsOf(Added(messages)) \in Seq(ARow(newest))
         /\ RowsOf(messages) \o m_messages \in Seq(ARow(newest))
         /\ Added(messages) \in Seq(Msg(newest))
<1>1. PICK n \in Nat : n = newest
  BY DEF Types
<1>2. messages \in Seq(Msg(n)) /\ m_messages \in Seq(ARow(n))
  BY <1>1 DEF Types, ViewTypes
<1>3. Added(messages) \in Seq(Msg(n))
  BY <1>2, AddedFacts
<1>4. RowsOf(messages) \in Seq(ARow(n))
  BY <1>2, RowsOfFacts
<1>5. RowsOf(Added(messages)) \in Seq(ARow(n))
  <2> PICK s \in Seq(Msg(n)) : s = Added(messages)
    BY <1>3
  <2> QED BY RowsOfFacts
<1>6. m_messages \o RowsOf(Added(messages)) \in Seq(ARow(n))
  BY <1>2, <1>5, ConcatProperties
<1>7. RowsOf(messages) \o m_messages \in Seq(ARow(n))
  BY <1>2, <1>4, ConcatProperties
<1> QED BY <1>1, <1>3, <1>6, <1>7

LEMMA OneMessage ==
  ASSUME Types, NEW m \in Msg(newest)
  PROVE  /\ <<m>> \in Seq(Msg(newest))
         /\ Added(<<m>>) = IF m.sending /\ m.id \in RowIds THEN <<>> ELSE <<m>>
         /\ m.id \in 1..newest /\ m.sending \in BOOLEAN
<1>1. PICK n \in Nat : n = newest
  BY DEF Types
<1>2. Added(<<m>>) = IF m.sending /\ m.id \in RowIds THEN <<>> ELSE <<m>>
  BY <1>1, AddedOne
<1> QED BY <1>2 DEF Msg

LEMMA addMessageFromUpdateTypes ==
  ASSUME Types, addMessageFromUpdate
  PROVE  Types'
<1>1. Consume("updateNewMessage")
  BY DEF addMessageFromUpdate
<1>2. PICK n \in Nat : n = newest
  BY DEF Types
<1>3. PICK m \in Msg(n) : m = Received.message
  BY <1>1, <1>2, OldestEvent, DeliveryFacts
<1>4. /\ <<m>> \in Seq(Msg(n)) /\ Added(<<m>>) \in Seq(Msg(n)) /\ m.id \in 1..n
      /\ m_messages \o RowsOf(Added(<<m>>)) \in Seq(ARow(n))
      /\ Added(<<m>>) = IF m.sending /\ m.id \in RowIds THEN <<>> ELSE <<m>>
  BY <1>2, OneMessage, MoreRows
<1>5. CASE isUpdateConnected
  <2>1. /\ appendMessage(<<m>>, m_lastMessage)
        /\ m_lastMessage' = Last(m_messages').id
        /\ getReplies(Added(<<m>>), <<>>, 0)
        /\ dropped' = dropped
    BY <1>3, <1>5 DEF addMessageFromUpdate
  <2>2. m_messages' \in Seq(ARow(n)) /\ m_messages' = m_messages \o RowsOf(Added(<<m>>))
    BY <1>4, <2>1 DEF appendMessage
  <2>3. isUpdateConnected' \in BOOLEAN
    BY <2>1 DEF appendMessage
  <2>4. others' \in Nat
    <3>1. <<>> \in Seq(Msg(n)) /\ others \in Nat /\ 0 \in Nat
      BY EmptySeq DEF Types, OtherTypes
    <3> PICK s \in Seq(Msg(n)) : s = Added(<<m>>)
      BY <1>4
    <3> QED BY <2>1, <3>1, RepliesCounted
  <2>5. m_lastMessage' \in 0..n
    <3>1. m_messages' # <<>>
      <4>1. CASE m.sending /\ m.id \in RowIds
        <5>1. Added(<<m>>) = <<>> /\ RowsOf(<<>>) = <<>>
          BY <1>4, <4>1 DEF RowsOf
        <5>2. m_messages # <<>>
          BY <4>1 DEF RowIds
        <5>3. m_messages' = m_messages
          BY <1>2, <2>2, <5>1 DEF Types, ViewTypes
        <5> QED BY <5>2, <5>3
      <4>2. CASE ~(m.sending /\ m.id \in RowIds)
        <5>1. Added(<<m>>) = <<m>> /\ RowsOf(<<m>>) = <<Row(m.id)>>
          BY <1>4, <4>2 DEF RowsOf
        <5>2. m_messages' = m_messages \o <<Row(m.id)>>
          BY <2>2, <5>1
        <5>3. Row(m.id) \in ARow(n)
          BY <1>4 DEF Row, ARow
        <5>4. m_messages \in Seq(ARow(n)) /\ <<Row(m.id)>> \in Seq(ARow(n))
          BY <1>2, <5>3 DEF Types, ViewTypes
        <5> HIDE DEF Row
        <5> QED BY <5>2, <5>4
      <4> QED BY <4>1, <4>2
    <3>2. PICK s \in Seq(ARow(n)) : s = m_messages'
      BY <2>2
    <3>3. Len(s) \in 1..Len(s)
      BY <3>1, <3>2, EmptySeq, LenProperties
    <3>4. Last(s) = s[Len(s)] /\ s[Len(s)] \in ARow(n)
      BY <3>3, ElementOfSeq DEF Last
    <3> QED BY <2>1, <3>2, <3>4 DEF ARow
  <2>6. UNCHANGED <<server, requests, peer, trouble, flags, crashed, lastMessageId>>
    BY DEF addMessageFromUpdate
  <2>7. lastMessageId \in 0..n /\ dropped \subseteq 1..n
    BY <1>2 DEF Types, ServerTypes
  <2> QED BY <1>1, <1>2, <2>1, <2>2, <2>3, <2>4, <2>5, <2>6, <2>7, HandlerTypes
<1>6. CASE ~isUpdateConnected
  <2>1. /\ dropped' = dropped \cup {m.id}
        /\ UNCHANGED <<view, others, server, requests, peer, trouble, flags, crashed,
                       lastMessageId>>
    BY <1>3, <1>6 DEF addMessageFromUpdate
  <2>2. dropped' \subseteq 1..n
    BY <1>2, <1>4, <2>1 DEF Types, ServerTypes
  <2> QED BY <1>1, <1>2, <2>1, <2>2, HandlerTypes
       DEF Types, ServerTypes, ViewTypes, OtherTypes, view
<1> QED BY <1>5, <1>6

LEMMA onMessageReceivedTypes ==
  ASSUME Types, onMessageReceived
  PROVE  Types'
<1>1. Consume("message")
  BY DEF onMessageReceived
<1>2. PICK n \in Nat : n = newest
  BY DEF Types
<1>3. PICK m \in Msg(n) : m = Received.message
  BY <1>1, <1>2, OldestEvent, DeliveryFacts
<1>4. /\ <<m>> \in Seq(Msg(n)) /\ Added(<<m>>) \in Seq(Msg(n)) /\ m.id \in 1..n
      /\ m_messages \o RowsOf(Added(<<m>>)) \in Seq(ARow(n))
  BY <1>2, OneMessage, MoreRows
<1>5. /\ m_lastMessage' = IF m_lastMessage = 0 /\ Added(<<m>>) # <<>> THEN m.id ELSE m_lastMessage
      /\ m_messages' = m_messages \o RowsOf(Added(<<m>>))
      /\ isUpdateConnected' \in BOOLEAN
      /\ getReplies(Added(<<m>>), <<>>, 0)
      /\ trouble' \subseteq trouble \cup {"early"}
  BY <1>3 DEF onMessageReceived, appendMessage
<1>6. others' \in Nat
  <2>1. <<>> \in Seq(Msg(n)) /\ others \in Nat /\ 0 \in Nat
    BY EmptySeq DEF Types, OtherTypes
  <2> PICK s \in Seq(Msg(n)) : s = Added(<<m>>)
    BY <1>4
  <2> QED BY <1>5, <2>1, RepliesCounted
<1>7. m_lastMessage' \in 0..n
  BY <1>2, <1>4, <1>5 DEF Types, ViewTypes
<1>8. newest' = n /\ inbox' \in Seq(Delivery(n))
  BY <1>1, <1>2, OldestEvent DEF onMessageReceived, server
<1>9. ServerTypes(newest)'
  BY <1>2, <1>8 DEF Types, ServerTypes, server, onMessageReceived
<1>10. ViewTypes(newest)'
  BY <1>2, <1>4, <1>5, <1>7, <1>8 DEF Types, ViewTypes, peer, onMessageReceived
<1>11. OtherTypes'
  BY <1>5, <1>6 DEF Types, OtherTypes, peer, flags, onMessageReceived, Troubles
<1> QED BY <1>8, <1>9, <1>10, <1>11 DEF Types

LEMMA updateMessageSendTypes ==
  ASSUME Types, updateMessageSend
  PROVE  Types'
<1>1. Consume("updateMessageSendSucceeded")
  BY DEF updateMessageSend
<1>2. PICK n \in Nat : n = newest
  BY DEF Types
<1>3. Received.id \in 1..n
  BY <1>1, <1>2, OldestEvent, DeliveryFacts
<1>4. m_messages \in Seq(ARow(n))
  BY <1>2 DEF Types, ViewTypes
<1>5. m_messages' \in Seq(ARow(n))
  <2>1. Row(Received.id) \in ARow(n)
    BY <1>3 DEF Row, ARow
  <2>2. m_messages' = m_messages
        \/ m_messages' = [m_messages EXCEPT ![FirstRow(Received.old_message_id)] = Row(Received.id)]
    BY DEF updateMessageSend
  <2> QED BY <1>4, <2>1, <2>2, ExceptSeq
<1>6. lastMessageId' = lastMessageId /\ m_lastMessage' = m_lastMessage /\ others' = others
      /\ isUpdateConnected' = isUpdateConnected
      /\ UNCHANGED <<server, requests, peer, trouble, flags, crashed, dropped>>
  BY DEF updateMessageSend, past
<1> QED BY <1>1, <1>2, <1>5, <1>6, HandlerTypes DEF Types, ServerTypes, ViewTypes, OtherTypes

LEMMA onMessageDeletedTypes ==
  ASSUME Types, onMessageDeleted
  PROVE  Types'
<1>1. Consume("updateDeleteMessages")
  BY DEF onMessageDeleted
<1>2. PICK n \in Nat : n = newest
  BY DEF Types
<1>3. m_messages \in Seq(ARow(n))
  BY <1>2 DEF Types, ViewTypes
<1>4. m_messages' \in Seq(ARow(n))
  <2>1. CASE Received.id \in RowIds
    <3>1. PICK id \in RowIds : id = Received.id
      BY <2>1
    <3>2. PICK i \in 1..Len(m_messages) : i = FirstRow(id)
      BY <1>3, FirstRowFacts
    <3> QED BY <1>3, <2>1, <3>1, <3>2, RemoveAtProperties DEF onMessageDeleted
  <2>2. CASE Received.id \notin RowIds
    BY <1>3, <2>2 DEF onMessageDeleted
  <2> QED BY <2>1, <2>2
<1>5. lastMessageId' = lastMessageId /\ m_lastMessage' = m_lastMessage /\ others' = others
      /\ isUpdateConnected' = isUpdateConnected
      /\ UNCHANGED <<server, requests, peer, trouble, flags, crashed, dropped>>
  BY DEF onMessageDeleted, past
<1> QED BY <1>1, <1>2, <1>4, <1>5, HandlerTypes DEF Types, ServerTypes, ViewTypes, OtherTypes

LEMMA updateChatLastMessageTypes ==
  ASSUME Types, updateChatLastMessage
  PROVE  Types'
<1>1. Consume("updateChatLastMessage")
  BY DEF updateChatLastMessage
<1>2. PICK n \in Nat : n = newest
  BY DEF Types
<1>3. lastMessageId' \in 0..n
  BY <1>1, <1>2, OldestEvent, DeliveryFacts DEF updateChatLastMessage
<1>4. UNCHANGED <<server, requests, others, peer, view, flags, crashed, past>>
  BY DEF updateChatLastMessage
<1> QED BY <1>1, <1>2, <1>3, <1>4, HandlerTypes
        DEF Types, ServerTypes, ViewTypes, OtherTypes, view, past

\* The rows of a first page.
FirstRows(page) == RowsOf(Added(Reverse(page)))

LEMMA addFirstTypes ==
  ASSUME Types, NEW page \in Seq(Msg(newest)), addFirst(page)
  PROVE  /\ m_messages' \in Seq(ARow(newest)) /\ others' \in Nat /\ isUpdateConnected' \in BOOLEAN
         /\ m_fetching' \in BOOLEAN /\ m_reachedHistoryEnd' \in BOOLEAN /\ crashed' \in BOOLEAN
<1>1. PICK n \in Nat : n = newest
  BY DEF Types
<1>2. PICK messages \in Seq(Msg(n)) : messages = Reverse(page)
  BY <1>1, ReverseFacts
<1>3. PICK rows \in Seq(ARow(n)) : rows = m_messages \o RowsOf(Added(messages))
  BY <1>1, MoreRows
<1>4. PICK added \in Seq(Msg(n)) : added = Added(messages)
  BY <1>1, MoreRows
<1>5. m_messages' = (IF page = <<>> THEN m_messages ELSE InsertSeparator(rows))
  BY <1>2, <1>3 DEF addFirst
<1>6. InsertSeparator(rows) \in Seq(ARow(n))
  <2> PICK result : result = InsertSeparator(rows)
    OBVIOUS
  <2>1. Separated(rows, result)
    BY InsertSeparatorFacts
  <2>2. CASE \E p \in 1..Len(rows) :
               /\ rows[p].id = m_lastMessageInbox
               /\ result = InsertAt(rows, p + 1, Separator(m_lastMessageInbox))
    <3>1. PICK p \in 1..Len(rows) :
            /\ rows[p].id = m_lastMessageInbox
            /\ result = InsertAt(rows, p + 1, Separator(m_lastMessageInbox))
      BY <2>2
    <3>2. PICK e \in ARow(n) : e = Separator(m_lastMessageInbox)
      <4>1. rows[p] \in ARow(n)
        BY ElementOfSeq
      <4> QED BY <3>1, <4>1 DEF Separator, ARow
    <3>3. p + 1 \in 1..(Len(rows) + 1)
      BY LenProperties
    <3> QED BY <3>1, <3>2, <3>3, InsertAtProperties
  <2> QED BY <2>1, <2>2 DEF Separated
<1>7. others' \in Nat
  <2>1. getReplies(added, page, 2) /\ others \in Nat /\ 2 \in Nat
    BY <1>2, <1>4 DEF addFirst, Types, OtherTypes
  <2> QED BY <1>1, <2>1, RepliesCounted
<1>8. isUpdateConnected' \in BOOLEAN
  BY DEF addFirst
<1> QED BY <1>1, <1>5, <1>6, <1>7, <1>8 DEF addFirst, Types, ViewTypes, OtherTypes

LEMMA prependMessagesTypes ==
  ASSUME Types, NEW page \in Seq(Msg(newest)), prependMessages(page)
  PROVE  /\ m_messages' \in Seq(ARow(newest)) /\ others' \in Nat /\ isUpdateConnected' \in BOOLEAN
         /\ m_fetching' \in BOOLEAN /\ m_reachedHistoryEnd' \in BOOLEAN /\ crashed' \in BOOLEAN
<1>1. PICK n \in Nat : n = newest
  BY DEF Types
<1>2. PICK messages \in Seq(Msg(n)) : messages = Reverse(page)
  BY <1>1, ReverseFacts
<1>3. RowsOf(messages) \o m_messages \in Seq(ARow(n))
  BY <1>1, MoreRows
<1>4. others' \in Nat
  <2>1. getReplies(<<>>, page, 1) /\ others \in Nat /\ 1 \in Nat /\ <<>> \in Seq(Msg(n))
    BY EmptySeq DEF prependMessages, Types, OtherTypes
  <2> QED BY <1>1, <2>1, RepliesCounted
<1> QED BY <1>1, <1>2, <1>3, <1>4 DEF prependMessages, Types, OtherTypes

LEMMA appendNewerTypes ==
  ASSUME Types, NEW page \in Seq(Msg(newest)), appendNewer(page)
  PROVE  /\ m_messages' \in Seq(ARow(newest)) /\ others' \in Nat /\ isUpdateConnected' \in BOOLEAN
         /\ m_fetching' \in BOOLEAN /\ m_reachedHistoryEnd' \in BOOLEAN /\ crashed' \in BOOLEAN
<1>1. PICK n \in Nat : n = newest
  BY DEF Types
<1>2. CASE page = <<>> \/ m_messages = <<>>
  BY <1>2 DEF appendNewer, view, flags, Types, ViewTypes, OtherTypes
<1>3. CASE ~(page = <<>> \/ m_messages = <<>>)
  <2>1. PICK newer \in Seq(Msg(n)) : newer = NewerOf(page)
    BY <1>1, NewerOfFacts
  <2>2. PICK added \in Seq(Msg(n)) : added = Added(newer)
    BY <1>1, MoreRows
  <2>3. /\ appendMessage(newer, m_lastMessage)
        /\ others' = others \/ getReplies(added, page, 1)
        /\ m_fetching' = FALSE
        /\ UNCHANGED <<m_reachedHistoryEnd, crashed>>
    BY <1>3, <2>1, <2>2 DEF appendNewer
  <2>4. m_messages' \in Seq(ARow(n)) /\ isUpdateConnected' \in BOOLEAN
    BY <1>1, <2>3, MoreRows DEF appendMessage
  <2>5. others' \in Nat
    <3>1. others \in Nat /\ 1 \in Nat
      BY DEF Types, OtherTypes
    <3> QED BY <1>1, <2>3, <3>1, RepliesCounted
  <2> QED BY <1>1, <2>3, <2>4, <2>5 DEF Types, OtherTypes
<1> QED BY <1>2, <1>3

LEMMA addMessagesTypes ==
  ASSUME Types, addMessages
  PROVE  Types'
<1>1. Consume("messages")
  BY DEF addMessages
<1>2. PICK n \in Nat : n = newest
  BY DEF Types
<1>3. PICK page \in Seq(Msg(n)) : page = Received.messages
  BY <1>1, <1>2, OldestEvent, DeliveryFacts
<1>4. Received.extra \in Extras \cup Foreign
  BY <1>1, <1>2, OldestEvent, DeliveryFacts
<1>5. /\ m_messages' \in Seq(ARow(n)) /\ others' \in Nat /\ isUpdateConnected' \in BOOLEAN
      /\ m_fetching' \in BOOLEAN /\ m_reachedHistoryEnd' \in BOOLEAN /\ crashed' \in BOOLEAN
  <2>1. CASE Received.extra = "first"
    BY <1>2, <1>3, <2>1, addFirstTypes DEF addMessages
  <2>2. CASE Received.extra \in {"prepend", "elsewhere"}
    BY <1>2, <1>3, <2>2, prependMessagesTypes DEF addMessages
  <2>3. CASE Received.extra = "append"
    BY <1>2, <1>3, <2>3, appendNewerTypes DEF addMessages
  <2>4. CASE Received.extra = "other"
    <3>1. ignoreOther(page)
      BY <1>3, <2>4 DEF addMessages
    <3> QED BY <1>2, <3>1 DEF ignoreOther, Types, ViewTypes, OtherTypes
  <2> QED BY <1>4, <2>1, <2>2, <2>3, <2>4 DEF Extras, Foreign
<1>6. newest' = n /\ inbox' \in Seq(Delivery(n))
  BY <1>1, <1>2, OldestEvent DEF addMessages, server
<1>7. ServerTypes(newest)'
  BY <1>2, <1>6 DEF Types, ServerTypes, server, addMessages
<1>8. ViewTypes(newest)'
  BY <1>2, <1>5, <1>6 DEF Types, ViewTypes, peer, addMessages
<1>9. trouble' \subseteq Troubles
  <2>1. trouble' \subseteq trouble \cup {"disorder"}
    BY DEF addMessages
  <2> QED BY <2>1 DEF Types, OtherTypes, Troubles
<1>10. misled' \in BOOLEAN
  BY DEF addMessages
<1>11. OtherTypes'
  BY <1>5, <1>9, <1>10 DEF Types, OtherTypes, peer, addMessages
<1> QED BY <1>6, <1>7, <1>8, <1>11 DEF Types

LEMMA InitTypes == Init => Types
<1> SUFFICES ASSUME Init
             PROVE  Types
  OBVIOUS
<1>1. Stored \in Nat
  BY SizesAssumption
<1>2. <<>> \in Seq(Request(Stored)) /\ <<>> \in Seq(Delivery(Stored)) /\ <<>> \in Seq(ARow(Stored))
  BY EmptySeq
<1>3. ServerTypes(newest)
  BY <1>1, <1>2 DEF Init, ServerTypes
<1>4. ViewTypes(newest)
  BY <1>1, <1>2 DEF Init, ViewTypes
<1> QED BY <1>1, <1>3, <1>4 DEF Init, Types, OtherTypes

LEMMA StepTypes == Types /\ [Next]_vars => Types'
<1> SUFFICES ASSUME Types, [Next]_vars
             PROVE  Types'
  OBVIOUS
<1>1. ASSUME NEW i \in 1..Len(requests), AnswerHistory(i) \/ FailHistory(i)
      PROVE  Types'
  BY <1>1, AnswerHistoryTypes, FailHistoryTypes
<1>2. ASSUME NEW id, SendSucceeds(id) \/ SendFails(id) \/ MessageDeleted(id)
      PROVE  Types'
  BY <1>2, SendSucceedsTypes, SendFailsTypes, MessageDeletedTypes
<1>3. CASE MessageArrives \/ sendMessage \/ AnswerOther \/ AnswerElsewhere
  BY <1>3, MessageArrivesTypes, sendMessageTypes, AnswerOtherTypes, AnswerElsewhereTypes
<1>4. CASE Handle
  BY <1>4, addMessagesTypes, addMessageFromUpdateTypes, onMessageReceivedTypes,
     updateMessageSendTypes, onMessageDeletedTypes, updateChatLastMessageTypes DEF Handle
<1>5. ASSUME NEW i \in 1..Len(m_messages), deleteMessage(i)
      PROVE  Types'
  BY <1>5, deleteMessageTypes
<1>6. CASE setPeerId \/ fetchOlder \/ searchChatMessages \/ fetchMore
  BY <1>6, setPeerIdTypes, fetchOlderTypes, searchTypes, fetchMoreTypes
<1>7. CASE UNCHANGED vars
  BY <1>7 DEF vars, server, peer, view, flags, past, Types, ServerTypes, ViewTypes, OtherTypes
<1> QED BY <1>1, <1>2, <1>3, <1>4, <1>5, <1>6, <1>7 DEF Next, Answer, TDLibStep, User

LEMMA TypesKept == Spec => []Types
BY InitTypes, StepTypes, PTL DEF Spec

(* Every variable keeps its type, whatever the sizes: no answer, update or    *)
(* request names an id that was not given, and no row is made of one.         *)
THEOREM TypeCorrect ==
  Spec => []TypeOK
<1>1. Types => TypeOK
  <2> SUFFICES ASSUME Types
               PROVE  TypeOK
    OBVIOUS
  <2>1. PICK n \in Nat : n = newest
    BY DEF Types
  <2>2. (1..n) \cup {0} = 0..n
    OBVIOUS
  <2>3. requests \in Seq([extra : {"first", "prepend", "append"}, from : 0..n])
    BY <2>1 DEF Types, ServerTypes, Request, Extras
  <2>4. m_messages \in Seq([id : 1..n, separator : BOOLEAN])
    BY <2>1 DEF Types, ViewTypes, ARow
  <2> QED BY <2>1, <2>2, <2>3, <2>4 DEF Types, ServerTypes, ViewTypes, OtherTypes, TypeOK, IdsGiven
<1> QED BY <1>1, TypesKept, PTL

-----------------------------------------------------------------------------
(* No double rows: what is under way brings nothing that has a row. *)

\* A page that was asked for, the ids an event brings, and the events that
\* bring ids nobody has seen.
IsPage(e) == e.kind = "messages" /\ e.extra \notin Foreign
Brings(e) ==
  IF e.kind \in {"updateNewMessage", "message"} THEN {e.message.id}
  ELSE IF e.kind = "updateMessageSendSucceeded" THEN {e.id}
  ELSE IF IsPage(e) THEN IdsOf(e.messages) ELSE {}
IsNew(e) == e.kind \in {"updateNewMessage", "updateMessageSendSucceeded"}

\* One page is under way at most.
Single ==
  /\ Len(requests) <= 1
  /\ \A k \in 1..Len(inbox) : IsPage(inbox[k]) =>
       requests = <<>> /\ \A l \in 1..Len(inbox) : IsPage(inbox[l]) => l = k

\* New ids are above all rows and all ids that come before them.
News ==
  \A k \in 1..Len(inbox) : IsNew(inbox[k]) =>
    \A id \in Brings(inbox[k]) :
      /\ \A row \in RowIds : row < id
      /\ \A j \in 1..(k - 1) : \A y \in Brings(inbox[j]) : y < id

Pages ==
  \A k \in 1..Len(inbox) : IsPage(inbox[k]) =>
    \A i, j \in 1..Len(inbox[k].messages) :
       inbox[k].messages[i].id = inbox[k].messages[j].id => i = j

\* A first page is for an empty list.
FirstUnderWay ==
  \/ \E i \in 1..Len(requests) : requests[i].extra = "first"
  \/ \E k \in 1..Len(inbox) : IsPage(inbox[k]) /\ inbox[k].extra = "first"
FirstOfAll == FirstUnderWay => m_messages = <<>> /\ ~isUpdateConnected

\* Older messages are older than every row and what will be one.
OlderAsked ==
  \A i \in 1..Len(requests) : requests[i].extra = "prepend" =>
    /\ \A row \in RowIds : requests[i].from <= row
    /\ \A k \in 1..Len(inbox) : IsNew(inbox[k]) =>
         \A id \in Brings(inbox[k]) : requests[i].from < id
OlderCame ==
  \A k \in 1..Len(inbox) : IsPage(inbox[k]) /\ inbox[k].extra = "prepend" =>
    \A p \in Brings(inbox[k]) :
      /\ \A row \in RowIds : p < row
      /\ \A j \in 1..(k - 1) : IsNew(inbox[j]) => \A id \in Brings(inbox[j]) : p < id

RowsInv ==
  Single /\ News /\ Pages /\ FirstOfAll /\ OlderAsked /\ OlderCame /\ Distinct(m_messages)

LEMMA GivenBefore ==
  ASSUME Types
  PROVE  /\ newest \in Nat /\ Len(inbox) \in Nat /\ Len(requests) \in Nat /\ Len(m_messages) \in Nat
         /\ \A k \in 1..Len(inbox) : Brings(inbox[k]) \subseteq 1..newest
         /\ RowIds \subseteq 1..newest
         /\ \A i \in 1..Len(requests) : requests[i] \in Request(newest)
<1>1. PICK n \in Nat : n = newest
  BY DEF Types
<1>2. inbox \in Seq(Delivery(n)) /\ requests \in Seq(Request(n)) /\ m_messages \in Seq(ARow(n))
  BY <1>1 DEF Types, ServerTypes, ViewTypes
<1>3. Len(inbox) \in Nat /\ Len(requests) \in Nat /\ Len(m_messages) \in Nat
  BY <1>2, LenProperties
<1>4. ASSUME NEW k \in 1..Len(inbox)
      PROVE  Brings(inbox[k]) \subseteq 1..n
  <2>1. PICK e \in Delivery(n) : e = inbox[k]
    BY <1>2, ElementOfSeq
  <2>2. e.kind \in {"updateNewMessage", "message"} => e.message.id \in 1..n
    BY DeliveryFacts DEF Msg
  <2>3. e.kind = "updateMessageSendSucceeded" => e.id \in 1..n
    BY DeliveryFacts
  <2>4. IsPage(e) => IdsOf(e.messages) \subseteq 1..n
    <3> SUFFICES ASSUME IsPage(e)
                 PROVE  \A i \in 1..Len(e.messages) : e.messages[i].id \in 1..n
      BY DEF IdsOf
    <3>1. e.messages \in Seq(Msg(n))
      BY DeliveryFacts DEF IsPage
    <3>2. \A i \in 1..Len(e.messages) : e.messages[i] \in Msg(n)
      BY <3>1, ElementOfSeq
    <3> QED BY <3>2 DEF Msg
  <2> QED BY <2>1, <2>2, <2>3, <2>4 DEF Brings
<1>5. RowIds \subseteq 1..n
  <2>1. \A i \in 1..Len(m_messages) : m_messages[i] \in ARow(n)
    BY <1>2, ElementOfSeq
  <2> QED BY <2>1 DEF RowIds, ARow
<1>6. \A i \in 1..Len(requests) : requests[i] \in Request(n)
  BY <1>2, ElementOfSeq
<1> QED BY <1>1, <1>3, <1>4, <1>5, <1>6

\* Events that follow those in inbox.
Follow(es) ==
  /\ Len(es) \in Nat
  /\ Len(inbox') = Len(inbox) + Len(es)
  /\ \A k \in 1..Len(inbox) : inbox'[k] = inbox[k]
  /\ \A k \in 1..Len(es) : inbox'[Len(inbox) + k] = es[k]

\* They are updates, and only the first may bring a new id, which is the newest.
Updates(es) ==
  \A k \in 1..Len(es) :
    /\ ~IsPage(es[k])
    /\ IsNew(es[k]) => k = 1 /\ \A id \in Brings(es[k]) : id = newest + 1

LEMMA FollowFacts ==
  ASSUME Types, NEW es, Follow(es)
  PROVE  \A k \in 1..Len(inbox') :
           \/ k \in 1..Len(inbox) /\ inbox'[k] = inbox[k]
           \/ /\ k > Len(inbox) /\ k - Len(inbox) \in 1..Len(es)
              /\ inbox'[k] = es[k - Len(inbox)]
<1> SUFFICES ASSUME NEW k \in 1..Len(inbox')
             PROVE  \/ k \in 1..Len(inbox) /\ inbox'[k] = inbox[k]
                    \/ /\ k > Len(inbox) /\ k - Len(inbox) \in 1..Len(es)
                       /\ inbox'[k] = es[k - Len(inbox)]
  OBVIOUS
<1>1. PICK L \in Nat : L = Len(inbox)
  BY GivenBefore
<1>2. PICK M \in Nat : M = Len(es)
  BY DEF Follow
<1>3. Len(inbox') = L + M
  BY <1>1, <1>2 DEF Follow
<1>4. CASE k <= L
  BY <1>1, <1>3, <1>4 DEF Follow
<1>5. CASE k > L
  <2>1. k - L \in 1..M /\ L + (k - L) = k
    BY <1>3, <1>5
  <2> QED BY <1>1, <1>2, <1>5, <2>1 DEF Follow
<1> QED BY <1>4, <1>5

\* Rows may go while such events are sent.
LEMMA RowsSent ==
  ASSUME Types, RowsInv, NEW es, Follow(es), Updates(es), requests' = requests,
         isUpdateConnected' = isUpdateConnected, RowIds' \subseteq RowIds,
         Distinct(m_messages)', m_messages = <<>> => m_messages' = <<>>
  PROVE  RowsInv'
<1>1. /\ newest \in Nat /\ Len(inbox) \in Nat
      /\ \A k \in 1..Len(inbox) : Brings(inbox[k]) \subseteq 1..newest
      /\ RowIds \subseteq 1..newest
      /\ \A i \in 1..Len(requests) : requests[i] \in Request(newest)
  BY GivenBefore
<1>2. \A k \in 1..Len(inbox') :
        \/ k \in 1..Len(inbox) /\ inbox'[k] = inbox[k]
        \/ /\ k > Len(inbox) /\ k - Len(inbox) \in 1..Len(es)
           /\ inbox'[k] = es[k - Len(inbox)]
  BY FollowFacts
<1>3. \A k \in 1..Len(inbox') : IsPage(inbox'[k]) => k \in 1..Len(inbox) /\ inbox'[k] = inbox[k]
  BY <1>2 DEF Updates
<1>4. \A k \in 1..Len(inbox') : IsNew(inbox'[k]) =>
        \/ k \in 1..Len(inbox) /\ inbox'[k] = inbox[k]
        \/ k = Len(inbox) + 1 /\ \A id \in Brings(inbox'[k]) : id = newest + 1
  <2> SUFFICES ASSUME NEW k \in 1..Len(inbox'), IsNew(inbox'[k]),
                      ~(k \in 1..Len(inbox) /\ inbox'[k] = inbox[k])
               PROVE  k = Len(inbox) + 1 /\ \A id \in Brings(inbox'[k]) : id = newest + 1
    OBVIOUS
  <2>1. k > Len(inbox) /\ k - Len(inbox) \in 1..Len(es) /\ inbox'[k] = es[k - Len(inbox)]
    BY <1>2, Zenon
  <2>2. k - Len(inbox) = 1 /\ \A id \in Brings(inbox'[k]) : id = newest + 1
    BY <2>1 DEF Updates
  <2> QED BY <1>1, <2>1, <2>2
<1>5. Single'
  BY <1>3 DEF RowsInv, Single
<1>6. News'
  <2> SUFFICES ASSUME NEW k \in 1..Len(inbox'), IsNew(inbox'[k]), NEW id \in Brings(inbox'[k])
               PROVE  /\ \A row \in RowIds' : row < id
                      /\ \A j \in 1..(k - 1) : \A y \in Brings(inbox'[j]) : y < id
    BY DEF News
  <2>1. CASE k \in 1..Len(inbox) /\ inbox'[k] = inbox[k]
    <3>1. \A j \in 1..(k - 1) : j \in 1..Len(inbox) /\ inbox'[j] = inbox[j]
      BY <1>1, <2>1 DEF Follow
    <3> QED BY <2>1, <3>1 DEF RowsInv, News
  <2>2. CASE k = Len(inbox) + 1 /\ id = newest + 1
    <3>1. \A j \in 1..(k - 1) : j \in 1..Len(inbox) /\ inbox'[j] = inbox[j]
      BY <1>1, <2>2 DEF Follow
    <3>2. \A j \in 1..(k - 1) : \A y \in Brings(inbox'[j]) : y \in 1..newest
      BY <1>1, <3>1
    <3>3. \A row \in RowIds' : row \in 1..newest
      BY <1>1
    <3> QED BY <1>1, <2>2, <3>2, <3>3
  <2> QED BY <1>4, <2>1, <2>2
<1>7. Pages'
  BY <1>3 DEF RowsInv, Pages
<1>8. FirstOfAll'
  BY <1>3 DEF RowsInv, FirstOfAll, FirstUnderWay
<1>9. OlderAsked'
  <2> SUFFICES ASSUME NEW i \in 1..Len(requests), requests[i].extra = "prepend"
               PROVE  /\ \A row \in RowIds' : requests[i].from <= row
                      /\ \A k \in 1..Len(inbox') : IsNew(inbox'[k]) =>
                           \A id \in Brings(inbox'[k]) : requests[i].from < id
    BY DEF OlderAsked
  <2>1. requests[i].from \in 0..newest
    BY <1>1 DEF Request
  <2>2. /\ \A row \in RowIds : requests[i].from <= row
        /\ \A k \in 1..Len(inbox) : IsNew(inbox[k]) =>
             \A id \in Brings(inbox[k]) : requests[i].from < id
    BY DEF RowsInv, OlderAsked
  <2>3. ASSUME NEW k \in 1..Len(inbox'), IsNew(inbox'[k]), NEW id \in Brings(inbox'[k])
        PROVE  requests[i].from < id
    <3>1. CASE k \in 1..Len(inbox) /\ inbox'[k] = inbox[k]
      BY <2>2, <2>3, <3>1
    <3>2. CASE id = newest + 1
      BY <1>1, <2>1, <3>2
    <3> QED BY <1>4, <2>3, <3>1, <3>2
  <2> QED BY <2>2, <2>3
<1>10. OlderCame'
  <2> SUFFICES ASSUME NEW k \in 1..Len(inbox'), IsPage(inbox'[k]), inbox'[k].extra = "prepend",
                      NEW p \in Brings(inbox'[k])
               PROVE  /\ \A row \in RowIds' : p < row
                      /\ \A j \in 1..(k - 1) : IsNew(inbox'[j]) =>
                           \A id \in Brings(inbox'[j]) : p < id
    BY DEF OlderCame
  <2>1. k \in 1..Len(inbox) /\ inbox'[k] = inbox[k]
    BY <1>3
  <2>2. \A j \in 1..(k - 1) : j \in 1..Len(inbox) /\ inbox'[j] = inbox[j]
    BY <1>1, <2>1 DEF Follow
  <2> QED BY <2>1, <2>2 DEF RowsInv, OlderCame
<1> QED BY <1>5, <1>6, <1>7, <1>8, <1>9, <1>10 DEF RowsInv

\* No page is under way.
Idle == requests = <<>> /\ \A k \in 1..Len(inbox) : ~IsPage(inbox[k])

LEMMA IdleFacts ==
  ASSUME Types
  PROVE  Idle <=> ~Outstanding
<1>1. \A k \in 1..Len(inbox) :
        IsPage(inbox[k]) <=> inbox[k].kind = "messages" /\ inbox[k].extra \notin Foreign
  BY DEF IsPage
<1> QED BY <1>1 DEF Idle, Outstanding

\* After a handler rows have ids they had or the event brought; if a page is
\* still under way, only new ones.
LEMMA RowsHandled ==
  ASSUME Types, RowsInv, NEW kind, Consume(kind), requests' = requests,
         Distinct(m_messages)', RowIds' \subseteq RowIds \cup Brings(inbox[1]),
         Idle' \/ /\ \A id \in RowIds' :
                       id \in RowIds \/ (IsNew(inbox[1]) /\ id \in Brings(inbox[1]))
                  /\ m_messages = <<>> /\ ~isUpdateConnected =>
                       m_messages' = <<>> /\ ~isUpdateConnected'
  PROVE  RowsInv'
<1>1. /\ Len(inbox) \in Nat /\ Len(inbox) >= 1
      /\ Len(inbox') = Len(inbox) - 1
      /\ \A k \in 1..Len(inbox') : inbox'[k] = inbox[k + 1]
  BY OldestEvent
<1>2. /\ newest \in Nat
      /\ \A k \in 1..Len(inbox) : Brings(inbox[k]) \subseteq 1..newest
      /\ RowIds \subseteq 1..newest
      /\ \A i \in 1..Len(requests) : requests[i] \in Request(newest)
  BY GivenBefore
<1>3. \A k \in 1..Len(inbox') : k + 1 \in 1..Len(inbox) /\ 1 \in 1..((k + 1) - 1)
  BY <1>1
<1>4. \A k \in 1..Len(inbox') : \A j \in 1..(k - 1) :
        j \in 1..Len(inbox') /\ j + 1 \in 1..((k + 1) - 1)
  BY <1>1
<1>5. Single'
  <2>1. \A k, l \in 1..Len(inbox') : k + 1 = l + 1 => k = l
    BY <1>1
  <2> QED BY <1>1, <1>3, <2>1 DEF RowsInv, Single
<1>6. News'
  <2> SUFFICES ASSUME NEW k \in 1..Len(inbox'), IsNew(inbox'[k]), NEW id \in Brings(inbox'[k])
               PROVE  /\ \A row \in RowIds' : row < id
                      /\ \A j \in 1..(k - 1) : \A y \in Brings(inbox'[j]) : y < id
    BY DEF News
  <2>1. /\ \A row \in RowIds : row < id
        /\ \A j \in 1..((k + 1) - 1) : \A y \in Brings(inbox[j]) : y < id
    BY <1>1, <1>3 DEF RowsInv, News
  <2>2. \A row \in RowIds' : row < id
    BY <1>3, <2>1
  <2> QED BY <1>1, <1>4, <2>1, <2>2
<1>7. Pages'
  BY <1>1, <1>3 DEF RowsInv, Pages
<1>8. CASE Idle'
  BY <1>5, <1>6, <1>7, <1>8 DEF RowsInv, Idle, FirstOfAll, FirstUnderWay, OlderAsked, OlderCame
<1>9. CASE /\ \A id \in RowIds' : id \in RowIds \/ (IsNew(inbox[1]) /\ id \in Brings(inbox[1]))
           /\ m_messages = <<>> /\ ~isUpdateConnected => m_messages' = <<>> /\ ~isUpdateConnected'
  <2>1. FirstOfAll'
    <3>1. FirstUnderWay' => FirstUnderWay
      BY <1>1, <1>3 DEF FirstUnderWay
    <3> QED BY <1>9, <3>1 DEF RowsInv, FirstOfAll
  <2>2. OlderAsked'
    <3> SUFFICES ASSUME NEW i \in 1..Len(requests), requests[i].extra = "prepend"
                 PROVE  /\ \A row \in RowIds' : requests[i].from <= row
                        /\ \A k \in 1..Len(inbox') : IsNew(inbox'[k]) =>
                             \A id \in Brings(inbox'[k]) : requests[i].from < id
      BY DEF OlderAsked
    <3>1. /\ \A row \in RowIds : requests[i].from <= row
          /\ \A k \in 1..Len(inbox) : IsNew(inbox[k]) =>
               \A id \in Brings(inbox[k]) : requests[i].from < id
      BY DEF RowsInv, OlderAsked
    <3>2. 1 \in 1..Len(inbox) /\ requests[i].from \in 0..newest
      BY <1>1, <1>2 DEF Request
    <3>3. ASSUME NEW row \in RowIds'
          PROVE  requests[i].from <= row
      <4>1. CASE row \in RowIds
        BY <3>1, <4>1
      <4>2. CASE IsNew(inbox[1]) /\ row \in Brings(inbox[1])
        <5>1. requests[i].from < row /\ row \in 1..newest
          BY <1>2, <3>1, <3>2, <4>2
        <5> QED BY <3>2, <5>1
      <4> QED BY <1>9, <4>1, <4>2
    <3> QED BY <1>1, <1>3, <3>1, <3>3
  <2>3. OlderCame'
    <3> SUFFICES ASSUME NEW k \in 1..Len(inbox'), IsPage(inbox'[k]), inbox'[k].extra = "prepend",
                        NEW p \in Brings(inbox'[k])
                 PROVE  /\ \A row \in RowIds' : p < row
                        /\ \A j \in 1..(k - 1) : IsNew(inbox'[j]) =>
                             \A id \in Brings(inbox'[j]) : p < id
      BY DEF OlderCame
    <3>1. /\ \A row \in RowIds : p < row
          /\ \A j \in 1..((k + 1) - 1) : IsNew(inbox[j]) => \A id \in Brings(inbox[j]) : p < id
      BY <1>1, <1>3 DEF RowsInv, OlderCame
    <3>2. \A row \in RowIds' : p < row
      BY <1>3, <1>9, <3>1
    <3> QED BY <1>1, <1>4, <3>1, <3>2
  <2> QED BY <1>5, <1>6, <1>7, <2>1, <2>2, <2>3 DEF RowsInv
<1> QED BY <1>8, <1>9

\* Nothing is under way once the page that was has been handled.
LEMMA PageHandled ==
  ASSUME Types, Single, NEW kind, Consume(kind), IsPage(inbox[1]), requests' = requests
  PROVE  Idle'
<1>1. /\ Len(inbox) \in Nat /\ Len(inbox) >= 1
      /\ Len(inbox') = Len(inbox) - 1
      /\ \A k \in 1..Len(inbox') : inbox'[k] = inbox[k + 1]
  BY OldestEvent
<1>2. 1 \in 1..Len(inbox)
  BY <1>1
<1>3. requests = <<>> /\ \A l \in 1..Len(inbox) : IsPage(inbox[l]) => l = 1
  BY <1>2 DEF Single
<1>4. \A k \in 1..Len(inbox') : k + 1 \in 1..Len(inbox) /\ k + 1 # 1
  BY <1>1
<1> QED BY <1>1, <1>3, <1>4 DEF Idle

LEMMA IdleStays ==
  ASSUME Types, Idle, NEW kind, Consume(kind), requests' = requests
  PROVE  Idle'
<1>1. /\ Len(inbox) \in Nat /\ Len(inbox) >= 1
      /\ Len(inbox') = Len(inbox) - 1
      /\ \A k \in 1..Len(inbox') : inbox'[k] = inbox[k + 1]
  BY OldestEvent
<1>2. \A k \in 1..Len(inbox') : k + 1 \in 1..Len(inbox)
  BY <1>1
<1> QED BY <1>1, <1>2 DEF Idle

\* A page is asked for when none is under way.
LEMMA RowsAsked ==
  ASSUME Types, RowsInv, Idle, NEW r \in Request(newest), requests' = Append(requests, r),
         inbox' = inbox, m_messages' = m_messages, isUpdateConnected' = isUpdateConnected,
         r.extra = "first" => m_messages = <<>> /\ ~isUpdateConnected,
         r.extra = "prepend" => r.from \in RowIds /\ \A row \in RowIds : r.from <= row
  PROVE  RowsInv'
<1>1. requests' = <<r>> /\ requests = <<>>
  <2>1. PICK n : n = newest
    OBVIOUS
  <2>2. requests = <<>> /\ Append(<<>>, r) = <<r>>
    BY DEF Idle
  <2> QED BY <2>2
<1>2. Len(requests') = 1 /\ requests'[1] = r
  BY <1>1
<1>3. RowIds' = RowIds
  BY DEF RowIds
<1>4. Single'
  BY <1>2 DEF Idle, Single
<1>5. News' /\ Pages' /\ OlderCame' /\ Distinct(m_messages)'
  BY <1>3 DEF RowsInv, News, Pages, OlderCame, Distinct
<1>6. FirstOfAll'
  BY <1>2 DEF RowsInv, FirstOfAll, FirstUnderWay, Idle
<1>7. OlderAsked'
  <2> SUFFICES ASSUME r.extra = "prepend"
               PROVE  /\ \A row \in RowIds : r.from <= row
                      /\ \A k \in 1..Len(inbox) : IsNew(inbox[k]) =>
                           \A id \in Brings(inbox[k]) : r.from < id
    BY <1>2, <1>3 DEF OlderAsked
  <2> QED BY DEF RowsInv, News
<1> QED BY <1>4, <1>5, <1>6, <1>7 DEF RowsInv

\* The page that was asked for.
Answered(r, S, e) ==
  /\ AnswerOf(r, S)
  /\ Follow(<<e>>)
  /\ e.kind = "messages" /\ e.extra = r.extra /\ IsPage(e) /\ ~IsNew(e) /\ Brings(e) = S
  /\ \A k, l \in 1..Len(e.messages) : e.messages[k].id = e.messages[l].id => k = l
  /\ Len(requests) = 1 /\ requests[1] = r /\ requests' = <<>>

LEMMA HistorySent ==
  ASSUME Types, Single, NEW i \in 1..Len(requests), AnswerHistory(i)
  PROVE  \E r \in Request(newest) : \E S, e : Answered(r, S, e)
<1>1. PICK n \in Nat : n = newest
  BY DEF Types
<1>2. requests \in Seq(Request(n)) /\ inbox \in Seq(Delivery(n)) /\ chat \subseteq 1..n
  BY <1>1 DEF Types, ServerTypes
<1>3. i = 1 /\ Len(requests) = 1
  <2>1. PICK L \in Nat : L = Len(requests) /\ L <= 1
    BY <1>2, LenProperties DEF Single
  <2>2. i \in 1..L
    BY <2>1
  <2>3. i = 1 /\ L = 1
    BY <2>1, <2>2
  <2> QED BY <2>1, <2>3
<1>4. PICK r \in Request(n) : r = requests[i]
  BY <1>2, ElementOfSeq
<1>5. PICK S \in Answers(r) : inbox' = Append(inbox, Messages(r.extra, S))
  BY <1>4 DEF AnswerHistory
<1>6. AnswerOf(r, S)
  BY <1>2, AnswersFacts
<1>7. S \subseteq chat /\ S \subseteq Nat /\ IsFiniteSet(S)
  <2>1. 1 \in Int /\ n \in Int
    OBVIOUS
  <2>2. IsFiniteSet(1..n) /\ S \subseteq 1..n
    BY <1>2, <1>6, <2>1, FS_Interval DEF AnswerOf
  <2>3. IsFiniteSet(S)
    BY <2>2, FS_Subset
  <2> QED BY <1>6, <2>2, <2>3 DEF AnswerOf
<1>8. /\ Len(PageOf(S)) = Cardinality(S) /\ Cardinality(S) \in Nat
      /\ \A k, l \in 1..Cardinality(S) : k < l => PageOf(S)[l].id < PageOf(S)[k].id
      /\ IdsOf(PageOf(S)) = S
      /\ PageOf(S) \in Seq([id : S, sending : BOOLEAN])
  BY <1>7, PageFacts
<1> PICK page : page = PageOf(S)
  OBVIOUS
<1> PICK e : e = Messages(r.extra, S)
  OBVIOUS
<1>9. /\ e.kind = "messages" /\ IsPage(e) /\ ~IsNew(e) /\ e.extra = r.extra /\ e.messages = page
      /\ Brings(e) = S
  BY <1>8 DEF Messages, IsPage, IsNew, Brings, Request, Extras, Foreign
<1>10. Follow(<<e>>)
  BY <1>2, <1>5, AppendProperties DEF Follow
<1>11. requests' = <<>>
  <2>1. requests' = RemoveAt(requests, i)
    BY DEF AnswerHistory
  <2>2. requests' \in Seq(Request(n)) /\ Len(requests') = Len(requests) - 1
    BY <1>2, <2>1, RemoveAtProperties
  <2>3. Len(requests') = 0
    BY <1>3, <2>2
  <2> QED BY <2>2, <2>3, EmptySeq
<1>12. \A k, l \in 1..Len(page) : page[k].id = page[l].id => k = l
  <2> SUFFICES ASSUME NEW k \in 1..Len(page), NEW l \in 1..Len(page), page[k].id = page[l].id
               PROVE  k = l
    OBVIOUS
  <2>1. k \in 1..Cardinality(S) /\ l \in 1..Cardinality(S) /\ page[k].id \in Nat
    <3>1. page[k] \in [id : S, sending : BOOLEAN]
      BY <1>8, ElementOfSeq
    <3> QED BY <1>7, <1>8, <3>1
  <2>2. ~(k < l) /\ ~(l < k)
    BY <1>8, <2>1
  <2> QED BY <2>1, <2>2
<1> QED BY <1>1, <1>3, <1>4, <1>6, <1>9, <1>10, <1>11, <1>12 DEF Answered

LEMMA RowsAnswered ==
  ASSUME Types, RowsInv, NEW i \in 1..Len(requests), AnswerHistory(i)
  PROVE  RowsInv'
<1>1. PICK n \in Nat : n = newest
  BY DEF Types
<1>2. PICK r \in Request(n) : \E S, e : Answered(r, S, e)
  BY <1>1, HistorySent DEF RowsInv
<1>3. PICK S, e : Answered(r, S, e)
  BY <1>2
<1>4. /\ e.extra = r.extra /\ IsPage(e) /\ ~IsNew(e) /\ Brings(e) = S /\ AnswerOf(r, S)
      /\ Len(requests) = 1 /\ requests[1] = r /\ requests' = <<>> /\ Follow(<<e>>)
  BY <1>3 DEF Answered
<1>5. Len(inbox) \in Nat /\ Len(<<e>>) = 1 /\ <<e>>[1] = e
  BY GivenBefore
<1>6. \A k \in 1..Len(inbox') :
        \/ k \in 1..Len(inbox) /\ inbox'[k] = inbox[k]
        \/ k = Len(inbox) + 1 /\ inbox'[k] = e
  <2> SUFFICES ASSUME NEW k \in 1..Len(inbox')
               PROVE  \/ k \in 1..Len(inbox) /\ inbox'[k] = inbox[k]
                      \/ k = Len(inbox) + 1 /\ inbox'[k] = e
    OBVIOUS
  <2> PICK es : es = <<e>>
    OBVIOUS
  <2>1. \/ k \in 1..Len(inbox) /\ inbox'[k] = inbox[k]
        \/ /\ k > Len(inbox) /\ k - Len(inbox) \in 1..Len(es)
           /\ inbox'[k] = es[k - Len(inbox)]
    BY <1>4, FollowFacts
  <2>2. k - Len(inbox) \in 1..1 => k = Len(inbox) + 1 /\ k - Len(inbox) = 1
    BY <1>4, <1>5 DEF Follow
  <2> QED BY <1>5, <2>1, <2>2
<1>7. \A k \in 1..Len(inbox) : ~IsPage(inbox[k])
  <2>1. requests # <<>>
    BY <1>4
  <2> QED BY <2>1 DEF RowsInv, Single
<1>8. \A k \in 1..Len(inbox') : IsPage(inbox'[k]) => k = Len(inbox) + 1 /\ inbox'[k] = e
  BY <1>6, <1>7
<1>9. \A k \in 1..Len(inbox') : IsNew(inbox'[k]) => k \in 1..Len(inbox) /\ inbox'[k] = inbox[k]
  BY <1>4, <1>6
<1>10. m_messages' = m_messages /\ RowIds' = RowIds /\ isUpdateConnected' = isUpdateConnected
  BY DEF AnswerHistory, view, RowIds
<1>11. Single'
  BY <1>4, <1>8 DEF Single
<1>12. News'
  <2> SUFFICES ASSUME NEW k \in 1..Len(inbox), IsNew(inbox[k]), NEW id \in Brings(inbox[k])
               PROVE  /\ \A row \in RowIds : row < id
                      /\ \A j \in 1..(k - 1) : \A y \in Brings(inbox'[j]) : y < id
    BY <1>9, <1>10 DEF News
  <2>1. \A j \in 1..(k - 1) : j \in 1..Len(inbox) /\ inbox'[j] = inbox[j]
    BY <1>4, <1>5 DEF Follow
  <2> QED BY <2>1 DEF RowsInv, News
<1>13. Pages'
  BY <1>3, <1>8 DEF Pages, Answered
<1>14. FirstOfAll'
  <2>1. 1 \in 1..Len(requests)
    BY <1>4
  <2>2. FirstUnderWay' => FirstUnderWay
    BY <1>4, <1>8, <2>1 DEF FirstUnderWay
  <2> QED BY <1>10, <2>2 DEF RowsInv, FirstOfAll
<1>15. OlderAsked'
  BY <1>4 DEF OlderAsked
<1>16. OlderCame'
  <2> SUFFICES ASSUME r.extra = "prepend", NEW p \in S
               PROVE  /\ \A row \in RowIds : p < row
                      /\ \A j \in 1..Len(inbox) : IsNew(inbox'[j]) =>
                           \A id \in Brings(inbox'[j]) : p < id
    <3>1. Len(inbox) \in Nat /\ \A k : k = Len(inbox) + 1 => 1..(k - 1) = 1..Len(inbox)
      BY <1>5
    <3> QED BY <1>4, <1>8, <1>10, <3>1 DEF OlderCame
  <2>1. chat \subseteq 1..n
    BY <1>1 DEF Types, ServerTypes
  <2>2. p < r.from /\ p \in Nat /\ r.from \in 0..n
    BY <1>4, <2>1 DEF AnswerOf, Request
  <2>3. 1 \in 1..Len(requests)
    BY <1>4
  <2>4. /\ \A row \in RowIds : r.from <= row
        /\ \A k \in 1..Len(inbox) : IsNew(inbox[k]) => \A id \in Brings(inbox[k]) : r.from < id
    BY <1>4, <2>3 DEF RowsInv, OlderAsked
  <2>5. /\ \A row \in RowIds : row \in Nat
        /\ \A k \in 1..Len(inbox) : \A id \in Brings(inbox[k]) : id \in Nat
    <3>1. RowIds \subseteq 1..n /\ \A k \in 1..Len(inbox) : Brings(inbox[k]) \subseteq 1..n
      BY <1>1, GivenBefore
    <3>2. \A x \in 1..n : x \in Nat
      OBVIOUS
    <3>3. \A row \in RowIds : row \in Nat
      BY <3>1, <3>2
    <3>4. \A k \in 1..Len(inbox) : \A id \in Brings(inbox[k]) : id \in Nat
      BY <3>1, <3>2, Zenon
    <3> QED BY <3>3, <3>4
  <2>6. \A k \in 1..Len(inbox) : inbox'[k] = inbox[k]
    BY <1>4 DEF Follow
  <2>7. \A row \in RowIds : p < row
    BY <2>2, <2>4, <2>5
  <2>8. ASSUME NEW k \in 1..Len(inbox), IsNew(inbox[k]), NEW id \in Brings(inbox[k])
        PROVE  p < id
    <3>1. r.from < id /\ id \in Nat
      BY <2>4, <2>5, <2>8
    <3> QED BY <2>2, <3>1
  <2> QED BY <2>6, <2>7, <2>8
<1> QED BY <1>10, <1>11, <1>12, <1>13, <1>14, <1>15, <1>16 DEF RowsInv, Distinct


-----------------------------------------------------------------------------
(* Rows that come and go. *)

\* What comes of adding rows for messages with new ids.
Grown(rows, ids, result) ==
  /\ Distinct(result)
  /\ IdsOf(result) = IdsOf(rows) \cup ids
  /\ TrueOf(result) = TrueOf(rows) \cup ids
  /\ SeparatorBelow(rows) => SeparatorBelow(result)

LEMMA AppendedRows ==
  ASSUME NEW n \in Nat, NEW rows \in Seq(ARow(n)), NEW more \in Seq(Msg(n)), Distinct(rows),
         \A i, j \in 1..Len(more) : more[i].id = more[j].id => i = j,
         IdsOf(more) \cap IdsOf(rows) = {},
         NEW result, result = rows \o RowsOf(more)
  PROVE  Grown(rows, IdsOf(more), result)
<1>1. PICK L \in Nat : L = Len(rows)
  BY LenProperties
<1>2. PICK M \in Nat : M = Len(more)
  BY LenProperties
<1>3. /\ RowsOf(more) \in Seq(ARow(n)) /\ Len(RowsOf(more)) = M
      /\ \A i \in 1..M : RowsOf(more)[i].id = more[i].id /\ RowsOf(more)[i].separator = FALSE
  BY <1>2, RowsOfFacts
<1>4. /\ Len(result) = L + M
      /\ \A i \in 1..(L + M) : result[i] = IF i <= L THEN rows[i] ELSE RowsOf(more)[i - L]
  BY <1>1, <1>3, ConcatProperties
<1>5. \A i \in 1..L : i \in 1..(L + M) /\ i <= L /\ result[i] = rows[i]
  BY <1>4
<1>6. \A i \in 1..M : /\ i + L \in 1..(L + M) /\ ~(i + L <= L)
                      /\ result[i + L].id = more[i].id /\ result[i + L].separator = FALSE
  <2> SUFFICES ASSUME NEW i \in 1..M
               PROVE  /\ i + L \in 1..(L + M) /\ ~(i + L <= L)
                      /\ result[i + L].id = more[i].id /\ result[i + L].separator = FALSE
    OBVIOUS
  <2>1. i + L \in 1..(L + M) /\ ~(i + L <= L) /\ (i + L) - L = i
    OBVIOUS
  <2>2. result[i + L] = RowsOf(more)[i]
    BY <1>4, <2>1
  <2> QED BY <1>3, <2>1, <2>2
<1>7. \A i \in 1..(L + M) : i \in 1..L \/ (i > L /\ i - L \in 1..M /\ (i - L) + L = i)
  OBVIOUS
<1>8. \A i \in 1..L : rows[i].id \in IdsOf(rows)
  BY <1>1 DEF IdsOf
<1>9. \A i \in 1..M : more[i].id \in IdsOf(more) /\ more[i].id \notin IdsOf(rows)
  BY <1>2 DEF IdsOf
<1>10. \A i \in 1..(L + M) : i > L => result[i].id \in IdsOf(more) /\ result[i].separator = FALSE
  <2> SUFFICES ASSUME NEW i \in 1..(L + M), i > L
               PROVE  result[i].id \in IdsOf(more) /\ result[i].separator = FALSE
    OBVIOUS
  <2>1. PICK k \in 1..M : k + L = i
    BY <1>7
  <2>2. result[k + L].id = more[k].id /\ result[k + L].separator = FALSE
    BY <1>6
  <2> QED BY <1>9, <2>1, <2>2
<1>11. Distinct(result)
  <2> SUFFICES ASSUME NEW i \in 1..(L + M), NEW j \in 1..(L + M), result[i] = result[j]
               PROVE  i = j
    BY <1>4 DEF Distinct
  <2>1. CASE i \in 1..L /\ j \in 1..L
    BY <1>1, <1>5, <2>1 DEF Distinct
  <2>2. CASE i \in 1..L /\ j \notin 1..L
    <3>1. result[j].id \notin IdsOf(rows) /\ result[i].id \in IdsOf(rows)
      BY <1>5, <1>7, <1>8, <1>10, <2>2
    <3> QED BY <3>1
  <2>3. CASE i \notin 1..L /\ j \in 1..L
    <3>1. result[i].id \notin IdsOf(rows) /\ result[j].id \in IdsOf(rows)
      BY <1>5, <1>7, <1>8, <1>10, <2>3
    <3> QED BY <3>1
  <2>4. CASE i \notin 1..L /\ j \notin 1..L
    <3>1. PICK k \in 1..M : k + L = i
      BY <1>7, <2>4
    <3>2. PICK l \in 1..M : l + L = j
      BY <1>7, <2>4
    <3>3. result[k + L].id = more[k].id /\ result[l + L].id = more[l].id
      BY <1>6
    <3>4. more[k].id = more[l].id
      BY <3>1, <3>2, <3>3
    <3>5. k = l
      BY <1>2, <3>4
    <3> QED BY <3>1, <3>2, <3>5
  <2> QED BY <2>1, <2>2, <2>3, <2>4
<1>12. IdsOf(result) = IdsOf(rows) \cup IdsOf(more)
  <2>1. IdsOf(result) = {result[i].id : i \in 1..(L + M)}
    BY <1>4 DEF IdsOf
  <2>2. \A i \in 1..(L + M) : result[i].id \in IdsOf(rows) \cup IdsOf(more)
    BY <1>5, <1>7, <1>8, <1>10
  <2>3. \A i \in 1..L : rows[i].id \in IdsOf(result)
    BY <1>5, <2>1
  <2>4. \A i \in 1..M : more[i].id \in IdsOf(result)
    BY <1>6, <2>1
  <2>5. IdsOf(rows) \subseteq IdsOf(result)
    BY <1>1, <2>3 DEF IdsOf
  <2>6. IdsOf(more) \subseteq IdsOf(result)
    BY <1>2, <2>4 DEF IdsOf
  <2>7. IdsOf(result) \subseteq IdsOf(rows) \cup IdsOf(more)
    BY <2>1, <2>2
  <2> QED BY <2>5, <2>6, <2>7
<1>13. TrueOf(result) = TrueOf(rows) \cup IdsOf(more)
  <2>1. TrueOf(result) = {result[i].id : i \in {j \in 1..(L + M) : ~result[j].separator}}
    BY <1>4 DEF TrueOf
  <2>2. TrueOf(rows) = {rows[i].id : i \in {j \in 1..L : ~rows[j].separator}}
    BY <1>1 DEF TrueOf
  <2>3. TrueOf(rows) \subseteq TrueOf(result)
    <3> SUFFICES ASSUME NEW i \in 1..L, ~rows[i].separator
                 PROVE  rows[i].id \in TrueOf(result)
      BY <2>2
    <3>1. i \in 1..(L + M) /\ result[i] = rows[i]
      BY <1>5
    <3> QED BY <2>1, <3>1
  <2>4. \A i \in 1..M : more[i].id \in TrueOf(result)
    BY <1>6, <2>1
  <2>5. IdsOf(more) \subseteq TrueOf(result)
    BY <1>2, <2>4 DEF IdsOf
  <2>6. ASSUME NEW i \in 1..(L + M), ~result[i].separator
        PROVE  result[i].id \in TrueOf(rows) \cup IdsOf(more)
    <3>1. CASE i \in 1..L
      BY <1>5, <2>2, <2>6, <3>1
    <3>2. CASE i \notin 1..L
      BY <1>7, <1>10, <3>2
    <3> QED BY <3>1, <3>2
  <2>7. TrueOf(result) \subseteq TrueOf(rows) \cup IdsOf(more)
    BY <2>1, <2>6
  <2> QED BY <2>3, <2>5, <2>7
<1>14. ASSUME SeparatorBelow(rows)
       PROVE  SeparatorBelow(result)
  <2> SUFFICES ASSUME NEW i \in 1..(L + M), result[i].separator
               PROVE  /\ result[i].id <= m_lastMessageInbox
                      /\ \A j \in 1..(L + M) :
                           ~result[j].separator /\ result[j].id = result[i].id => j < i
    BY <1>4 DEF SeparatorBelow
  <2>1. i \in 1..L /\ result[i] = rows[i] /\ rows[i].separator
    BY <1>5, <1>7, <1>10
  <2>2. /\ rows[i].id <= m_lastMessageInbox
        /\ \A j \in 1..L : ~rows[j].separator /\ rows[j].id = rows[i].id => j < i
    BY <1>1, <1>14, <2>1 DEF SeparatorBelow
  <2>3. ASSUME NEW j \in 1..(L + M), ~result[j].separator, result[j].id = result[i].id
        PROVE  j < i
    <3>1. result[j].id \in IdsOf(rows)
      BY <1>8, <2>1, <2>3
    <3>2. j \in 1..L
      BY <1>7, <1>9, <1>10, <3>1
    <3> QED BY <1>5, <2>1, <2>2, <2>3, <3>2
  <2> QED BY <2>1, <2>2, <2>3
<1> QED BY <1>11, <1>12, <1>13, <1>14 DEF Grown

LEMMA PrependedRows ==
  ASSUME NEW n \in Nat, NEW rows \in Seq(ARow(n)), NEW more \in Seq(Msg(n)), Distinct(rows),
         \A i, j \in 1..Len(more) : more[i].id = more[j].id => i = j,
         IdsOf(more) \cap IdsOf(rows) = {},
         NEW result, result = RowsOf(more) \o rows
  PROVE  Grown(rows, IdsOf(more), result)
<1>1. PICK L \in Nat : L = Len(rows)
  BY LenProperties
<1>2. PICK M \in Nat : M = Len(more)
  BY LenProperties
<1>3. /\ RowsOf(more) \in Seq(ARow(n)) /\ Len(RowsOf(more)) = M
      /\ \A i \in 1..M : RowsOf(more)[i].id = more[i].id /\ RowsOf(more)[i].separator = FALSE
  BY <1>2, RowsOfFacts
<1>4. /\ Len(result) = M + L
      /\ \A i \in 1..(M + L) : result[i] = IF i <= M THEN RowsOf(more)[i] ELSE rows[i - M]
  <2> PICK s \in Seq(ARow(n)) : s = RowsOf(more)
    BY <1>3
  <2>1. Len(s) = M /\ Len(rows) = L /\ result = s \o rows
    BY <1>1, <1>3
  <2>2. /\ Len(s \o rows) = Len(s) + Len(rows)
        /\ \A i \in 1..(Len(s) + Len(rows)) :
             (s \o rows)[i] = IF i <= Len(s) THEN s[i] ELSE rows[i - Len(s)]
    BY ConcatProperties
  <2> QED BY <2>1, <2>2
<1>5. \A i \in 1..M : /\ i \in 1..(M + L) /\ i <= M
                      /\ result[i].id = more[i].id /\ result[i].separator = FALSE
  BY <1>3, <1>4
<1>6. \A i \in 1..L : i + M \in 1..(M + L) /\ ~(i + M <= M) /\ result[i + M] = rows[i]
  <2> SUFFICES ASSUME NEW i \in 1..L
               PROVE  i + M \in 1..(M + L) /\ ~(i + M <= M) /\ result[i + M] = rows[i]
    OBVIOUS
  <2>1. i + M \in 1..(M + L) /\ ~(i + M <= M) /\ (i + M) - M = i
    OBVIOUS
  <2> QED BY <1>4, <2>1
<1>7. \A i \in 1..(M + L) : i \in 1..M \/ (i > M /\ i - M \in 1..L /\ (i - M) + M = i)
  OBVIOUS
<1>8. \A i \in 1..L : rows[i].id \in IdsOf(rows)
  BY <1>1 DEF IdsOf
<1>9. \A i \in 1..M : more[i].id \in IdsOf(more) /\ more[i].id \notin IdsOf(rows)
  BY <1>2 DEF IdsOf
<1>10. \A i \in 1..M : result[i].id \in IdsOf(more) /\ result[i].id \notin IdsOf(rows)
  BY <1>5, <1>9
<1>11. \A i \in 1..(M + L) : i > M => i - M \in 1..L /\ result[i] = rows[i - M]
  <2> SUFFICES ASSUME NEW i \in 1..(M + L), i > M
               PROVE  i - M \in 1..L /\ result[i] = rows[i - M]
    OBVIOUS
  <2>1. PICK k \in 1..L : k + M = i /\ k = i - M
    BY <1>7
  <2>2. result[k + M] = rows[k]
    BY <1>6
  <2> QED BY <2>1, <2>2
<1>12. Distinct(result)
  <2> SUFFICES ASSUME NEW i \in 1..(M + L), NEW j \in 1..(M + L), result[i] = result[j]
               PROVE  i = j
    BY <1>4 DEF Distinct
  <2>1. CASE i \in 1..M /\ j \in 1..M
    <3>1. more[i].id = more[j].id
      BY <1>5, <2>1
    <3> QED BY <1>2, <2>1, <3>1
  <2>2. CASE i \in 1..M /\ j > M
    BY <1>8, <1>10, <1>11, <2>2
  <2>3. CASE i > M /\ j \in 1..M
    BY <1>8, <1>10, <1>11, <2>3
  <2>4. CASE i > M /\ j > M
    <3>1. i - M \in 1..L /\ j - M \in 1..L /\ rows[i - M] = rows[j - M]
      BY <1>11, <2>4
    <3>2. i - M = j - M
      BY <1>1, <3>1 DEF Distinct
    <3> QED BY <3>2
  <2> QED BY <1>7, <2>1, <2>2, <2>3, <2>4
<1>13. IdsOf(result) = IdsOf(rows) \cup IdsOf(more)
  <2>1. IdsOf(result) = {result[i].id : i \in 1..(M + L)}
    BY <1>4 DEF IdsOf
  <2>2. \A i \in 1..(M + L) : result[i].id \in IdsOf(rows) \cup IdsOf(more)
    BY <1>7, <1>8, <1>10, <1>11
  <2>3. \A i \in 1..L : rows[i].id \in IdsOf(result)
    BY <1>6, <2>1
  <2>4. \A i \in 1..M : more[i].id \in IdsOf(result)
    BY <1>5, <2>1
  <2>5. IdsOf(rows) \subseteq IdsOf(result)
    BY <1>1, <2>3 DEF IdsOf
  <2>6. IdsOf(more) \subseteq IdsOf(result)
    BY <1>2, <2>4 DEF IdsOf
  <2>7. IdsOf(result) \subseteq IdsOf(rows) \cup IdsOf(more)
    BY <2>1, <2>2
  <2> QED BY <2>5, <2>6, <2>7
<1>14. TrueOf(result) = TrueOf(rows) \cup IdsOf(more)
  <2>1. TrueOf(result) = {result[i].id : i \in {j \in 1..(M + L) : ~result[j].separator}}
    BY <1>4 DEF TrueOf
  <2>2. TrueOf(rows) = {rows[i].id : i \in {j \in 1..L : ~rows[j].separator}}
    BY <1>1 DEF TrueOf
  <2>3. TrueOf(rows) \subseteq TrueOf(result)
    <3> SUFFICES ASSUME NEW i \in 1..L, ~rows[i].separator
                 PROVE  rows[i].id \in TrueOf(result)
      BY <2>2
    <3>1. i + M \in 1..(M + L) /\ result[i + M] = rows[i]
      BY <1>6
    <3> QED BY <2>1, <3>1
  <2>4. \A i \in 1..M : more[i].id \in TrueOf(result)
    BY <1>5, <2>1
  <2>5. IdsOf(more) \subseteq TrueOf(result)
    BY <1>2, <2>4 DEF IdsOf
  <2>6. ASSUME NEW i \in 1..(M + L), ~result[i].separator
        PROVE  result[i].id \in TrueOf(rows) \cup IdsOf(more)
    <3>1. CASE i > M
      BY <1>11, <2>2, <2>6, <3>1
    <3>2. CASE i \in 1..M
      BY <1>10, <3>2
    <3> QED BY <1>7, <3>1, <3>2
  <2>7. TrueOf(result) \subseteq TrueOf(rows) \cup IdsOf(more)
    BY <2>1, <2>6
  <2> QED BY <2>3, <2>5, <2>7
<1>15. ASSUME SeparatorBelow(rows)
       PROVE  SeparatorBelow(result)
  <2> SUFFICES ASSUME NEW i \in 1..(M + L), result[i].separator
               PROVE  /\ result[i].id <= m_lastMessageInbox
                      /\ \A j \in 1..(M + L) :
                           ~result[j].separator /\ result[j].id = result[i].id => j < i
    BY <1>4 DEF SeparatorBelow
  <2>1. i > M
    BY <1>5, <1>7
  <2>2. i - M \in 1..L /\ result[i] = rows[i - M]
    BY <1>11, <2>1
  <2>3. /\ rows[i - M].id <= m_lastMessageInbox
        /\ \A j \in 1..L : ~rows[j].separator /\ rows[j].id = rows[i - M].id => j < i - M
    BY <1>1, <1>15, <2>2 DEF SeparatorBelow
  <2>4. ASSUME NEW j \in 1..(M + L), ~result[j].separator, result[j].id = result[i].id
        PROVE  j < i
    <3>1. result[j].id \in IdsOf(rows)
      BY <1>8, <2>2, <2>4
    <3>2. j > M
      BY <1>7, <1>10, <3>1
    <3>3. j - M \in 1..L /\ result[j] = rows[j - M]
      BY <1>11, <3>2
    <3>4. j - M < i - M
      BY <2>2, <2>3, <2>4, <3>3
    <3> QED BY <3>4
  <2> QED BY <2>2, <2>3, <2>4
<1> QED BY <1>12, <1>13, <1>14, <1>15 DEF Grown

LEMMA SameRow ==
  ASSUME NEW n, NEW a \in ARow(n), NEW b \in ARow(n), a.id = b.id, a.separator = b.separator
  PROVE  a = b
BY DEF ARow

\* What comes of removing row i.
Removed(rows, i, result) ==
  /\ Distinct(result)
  /\ IdsOf(result) \subseteq IdsOf(rows)
  /\ TrueOf(result) = IF rows[i].separator THEN TrueOf(rows) ELSE TrueOf(rows) \ {rows[i].id}
  /\ SeparatorBelow(rows) => SeparatorBelow(result)

LEMMA RemovedRow ==
  ASSUME NEW n \in Nat, NEW rows \in Seq(ARow(n)), NEW i \in 1..Len(rows), Distinct(rows),
         NEW result, result = RemoveAt(rows, i)
  PROVE  Removed(rows, i, result)
<1>1. PICK L \in Nat : L = Len(rows)
  BY LenProperties
<1>2. i \in 1..L
  BY <1>1
<1>3. /\ Len(result) = L - 1
      /\ \A j \in 1..(L - 1) : result[j] = IF j < i THEN rows[j] ELSE rows[j + 1]
  BY <1>1, RemoveAtProperties
<1> DEFINE o(j) == IF j < i THEN j ELSE j + 1
           up(k) == IF k < i THEN k ELSE k - 1
<1>4. \A j \in 1..(L - 1) : o(j) \in 1..L /\ o(j) # i /\ result[j] = rows[o(j)]
  BY <1>2, <1>3
<1>5. \A k \in 1..L : k # i => up(k) \in 1..(L - 1) /\ o(up(k)) = k
  BY <1>2
<1>6. \A j, k \in 1..(L - 1) : (o(j) = o(k) => j = k) /\ (o(j) < o(k) => j < k)
  BY <1>2
<1> HIDE DEF o, up
<1>7. \A k \in 1..L : k # i => result[up(k)] = rows[k]
  BY <1>4, <1>5
<1>8. Distinct(result)
  <2> SUFFICES ASSUME NEW j \in 1..(L - 1), NEW k \in 1..(L - 1), result[j] = result[k]
               PROVE  j = k
    BY <1>3 DEF Distinct
  <2>1. o(j) = o(k)
    BY <1>1, <1>4 DEF Distinct
  <2> QED BY <1>6, <2>1
<1>9. \A j \in 1..(L - 1) : result[j].id \in IdsOf(rows)
  BY <1>1, <1>4 DEF IdsOf
<1>10. IdsOf(result) \subseteq IdsOf(rows)
  BY <1>3, <1>9 DEF IdsOf
<1>11. TrueOf(result) = {result[j].id : j \in {k \in 1..(L - 1) : ~result[k].separator}}
  BY <1>3 DEF TrueOf
<1>12. TrueOf(rows) = {rows[j].id : j \in {k \in 1..L : ~rows[k].separator}}
  BY <1>1 DEF TrueOf
<1>13. TrueOf(result) \subseteq TrueOf(rows)
  <2> SUFFICES ASSUME NEW j \in 1..(L - 1), ~result[j].separator
               PROVE  result[j].id \in TrueOf(rows)
    BY <1>11
  <2>1. o(j) \in 1..L /\ result[j] = rows[o(j)]
    BY <1>4
  <2> QED BY <1>12, <2>1
<1>14. \A k \in 1..L : k # i /\ ~rows[k].separator => rows[k].id \in TrueOf(result)
  <2> SUFFICES ASSUME NEW k \in 1..L, k # i, ~rows[k].separator
               PROVE  rows[k].id \in TrueOf(result)
    OBVIOUS
  <2>1. up(k) \in 1..(L - 1) /\ result[up(k)] = rows[k]
    BY <1>5, <1>7
  <2> QED BY <1>11, <2>1
<1>15. ASSUME rows[i].separator
       PROVE  TrueOf(result) = TrueOf(rows)
  <2>1. TrueOf(rows) \subseteq TrueOf(result)
    BY <1>12, <1>14, <1>15
  <2> QED BY <1>13, <2>1
<1>16. ASSUME ~rows[i].separator
       PROVE  TrueOf(result) = TrueOf(rows) \ {rows[i].id}
  <2>1. ASSUME NEW j \in 1..(L - 1), ~result[j].separator
        PROVE  result[j].id # rows[i].id
    <3>1. o(j) \in 1..L /\ o(j) # i /\ result[j] = rows[o(j)]
      BY <1>4
    <3>2. rows[i] \in ARow(n) /\ rows[o(j)] \in ARow(n)
      BY <1>1, <1>2, <3>1, ElementOfSeq
    <3>3. rows[i].separator = rows[o(j)].separator
      BY <1>16, <2>1, <3>1, <3>2 DEF ARow
    <3>4. rows[i].id = rows[o(j)].id => rows[i] = rows[o(j)]
      BY <3>2, <3>3, SameRow
    <3>5. rows[i].id = rows[o(j)].id => i = o(j)
      BY <1>1, <1>2, <3>1, <3>4 DEF Distinct
    <3> QED BY <3>1, <3>5
  <2>2. rows[i].id \notin TrueOf(result)
    BY <1>11, <2>1
  <2>3. \A x \in TrueOf(rows) : x # rows[i].id => x \in TrueOf(result)
    BY <1>12, <1>14
  <2> QED BY <1>13, <2>2, <2>3
<1>17. ASSUME SeparatorBelow(rows)
       PROVE  SeparatorBelow(result)
  <2> SUFFICES ASSUME NEW j \in 1..(L - 1), result[j].separator
               PROVE  /\ result[j].id <= m_lastMessageInbox
                      /\ \A k \in 1..(L - 1) :
                           ~result[k].separator /\ result[k].id = result[j].id => k < j
    BY <1>3 DEF SeparatorBelow
  <2>1. o(j) \in 1..L /\ result[j] = rows[o(j)]
    BY <1>4
  <2>2. /\ rows[o(j)].id <= m_lastMessageInbox
        /\ \A k \in 1..L : ~rows[k].separator /\ rows[k].id = rows[o(j)].id => k < o(j)
    BY <1>1, <1>17, <2>1 DEF SeparatorBelow
  <2>3. ASSUME NEW k \in 1..(L - 1), ~result[k].separator, result[k].id = result[j].id
        PROVE  k < j
    <3>1. o(k) < o(j)
      BY <1>4, <2>1, <2>2, <2>3
    <3> QED BY <1>6, <3>1
  <2> QED BY <2>1, <2>2, <2>3
<1> QED BY <1>8, <1>10, <1>15, <1>16, <1>17 DEF Removed

\* What comes of giving the row i the message y.
Replaced(rows, i, y, result) ==
  /\ Distinct(result)
  /\ IdsOf(result) \subseteq IdsOf(rows) \cup {y}
  /\ TrueOf(rows) \ {rows[i].id} \subseteq TrueOf(result) /\ y \in TrueOf(result)
  /\ TrueOf(result) \subseteq TrueOf(rows) \cup {y}
  /\ ~rows[i].separator => rows[i].id \notin TrueOf(result)
  /\ SeparatorBelow(rows) => SeparatorBelow(result)

LEMMA ReplacedRow ==
  ASSUME NEW n \in Nat, NEW rows \in Seq(ARow(n)), NEW i \in 1..Len(rows), Distinct(rows),
         NEW y \in 1..n, y \notin IdsOf(rows),
         NEW result, result = [rows EXCEPT ![i] = Row(y)]
  PROVE  Replaced(rows, i, y, result)
<1>1. PICK L \in Nat : L = Len(rows)
  BY LenProperties
<1>2. i \in 1..L
  BY <1>1
<1>3. /\ Len(result) = L
      /\ \A j \in 1..L : result[j] = IF j = i THEN Row(y) ELSE rows[j]
  <2>1. PICK e \in ARow(n) : e = Row(y)
    BY DEF Row, ARow
  <2>2. DOMAIN rows = 1..L
    BY <1>1, LenProperties
  <2>3. /\ Len([rows EXCEPT ![i] = e]) = L
        /\ \A j \in 1..L : [rows EXCEPT ![i] = e][j] = IF j = i THEN e ELSE rows[j]
    BY <1>1, <1>2, <2>2, ExceptSeq
  <2> QED BY <2>1, <2>3
<1>4. result[i].id = y /\ result[i].separator = FALSE
  BY <1>2, <1>3 DEF Row
<1>5. \A j \in 1..L : j # i => result[j] = rows[j]
  BY <1>3
<1>6. \A j \in 1..L : rows[j].id \in IdsOf(rows) /\ rows[j].id # y
  BY <1>1 DEF IdsOf
<1>7. Distinct(result)
  <2> SUFFICES ASSUME NEW j \in 1..L, NEW k \in 1..L, result[j] = result[k]
               PROVE  j = k
    BY <1>3 DEF Distinct
  <2>1. CASE j # i /\ k # i
    BY <1>1, <1>5, <2>1 DEF Distinct
  <2>2. CASE j = i \/ k = i
    BY <1>4, <1>5, <1>6, <2>2
  <2> QED BY <2>1, <2>2
<1>8. \A j \in 1..L : result[j].id \in IdsOf(rows) \cup {y}
  BY <1>4, <1>5, <1>6
<1>9. IdsOf(result) \subseteq IdsOf(rows) \cup {y}
  BY <1>3, <1>8 DEF IdsOf
<1>10. TrueOf(result) = {result[j].id : j \in {k \in 1..L : ~result[k].separator}}
  BY <1>3 DEF TrueOf
<1>11. TrueOf(rows) = {rows[j].id : j \in {k \in 1..L : ~rows[k].separator}}
  BY <1>1 DEF TrueOf
<1>12. y \in TrueOf(result)
  BY <1>2, <1>4, <1>10
<1>13. \A j \in 1..L : ~rows[j].separator /\ j # i => rows[j].id \in TrueOf(result)
  BY <1>5, <1>10
<1>14. TrueOf(rows) \ {rows[i].id} \subseteq TrueOf(result)
  BY <1>11, <1>13
<1>15. TrueOf(result) \subseteq TrueOf(rows) \cup {y}
  <2> SUFFICES ASSUME NEW j \in 1..L, ~result[j].separator
               PROVE  result[j].id \in TrueOf(rows) \cup {y}
    BY <1>10
  <2> QED BY <1>4, <1>5, <1>11
<1>16. ASSUME ~rows[i].separator
       PROVE  rows[i].id \notin TrueOf(result)
  <2> SUFFICES ASSUME NEW j \in 1..L, ~result[j].separator, result[j].id = rows[i].id
               PROVE  FALSE
    BY <1>10
  <2>1. j # i
    BY <1>2, <1>4, <1>6
  <2>2. result[j] = rows[j] /\ rows[j] \in ARow(n) /\ rows[i] \in ARow(n)
    BY <1>1, <1>2, <1>5, <2>1, ElementOfSeq
  <2>3. rows[j].separator = rows[i].separator
    BY <1>16, <2>2 DEF ARow
  <2>4. rows[j] = rows[i]
    BY <2>2, <2>3, SameRow
  <2> QED BY <1>1, <1>2, <2>1, <2>4 DEF Distinct
<1>17. ASSUME SeparatorBelow(rows)
       PROVE  SeparatorBelow(result)
  <2> SUFFICES ASSUME NEW j \in 1..L, result[j].separator
               PROVE  /\ result[j].id <= m_lastMessageInbox
                      /\ \A k \in 1..L :
                           ~result[k].separator /\ result[k].id = result[j].id => k < j
    BY <1>3 DEF SeparatorBelow
  <2>1. j # i /\ result[j] = rows[j]
    BY <1>4, <1>5
  <2>2. /\ rows[j].id <= m_lastMessageInbox
        /\ \A k \in 1..L : ~rows[k].separator /\ rows[k].id = rows[j].id => k < j
    BY <1>1, <1>17, <2>1 DEF SeparatorBelow
  <2>3. \A k \in 1..L : result[k].id = result[j].id => k # i
    BY <1>4, <1>6, <2>1
  <2> QED BY <1>5, <2>1, <2>2, <2>3
<1> QED BY <1>7, <1>9, <1>12, <1>14, <1>15, <1>16, <1>17 DEF Replaced

-----------------------------------------------------------------------------
(* What each action does to the rows, while nothing has gone wrong. *)

\* The ids an event takes away.
Removes(e) ==
  IF e.kind = "updateDeleteMessages" THEN {e.id}
  ELSE IF e.kind = "updateMessageSendSucceeded" THEN {e.old_message_id} ELSE {}

LEMMA EventKinds ==
  /\ \A id, own : LET e == NewMessage(id, own)
                  IN  ~IsPage(e) /\ IsNew(e) /\ Brings(e) = {id} /\ Removes(e) = {}
  /\ \A id : LET e == LastMessage(id)
             IN  ~IsPage(e) /\ ~IsNew(e) /\ Brings(e) = {} /\ Removes(e) = {}
  /\ \A m : LET e == [kind |-> "message", message |-> m]
            IN  ~IsPage(e) /\ ~IsNew(e) /\ Brings(e) = {m.id} /\ Removes(e) = {}
  /\ \A old, id : LET e == [kind |-> "updateMessageSendSucceeded",
                            old_message_id |-> old, id |-> id]
                  IN  ~IsPage(e) /\ IsNew(e) /\ Brings(e) = {id} /\ Removes(e) = {old}
  /\ \A id : LET e == [kind |-> "updateDeleteMessages", id |-> id]
             IN  ~IsPage(e) /\ ~IsNew(e) /\ Brings(e) = {} /\ Removes(e) = {id}
  /\ \A S : LET e == Messages("other", S)
            IN  ~IsPage(e) /\ ~IsNew(e) /\ Brings(e) = {} /\ Removes(e) = {}
  /\ LET e == EndElsewhere
     IN  ~IsPage(e) /\ ~IsNew(e) /\ Brings(e) = {} /\ Removes(e) = {}
<1>1. \A id, own : LET e == NewMessage(id, own)
                   IN  ~IsPage(e) /\ IsNew(e) /\ Brings(e) = {id} /\ Removes(e) = {}
  BY DEF NewMessage, IsPage, IsNew, Brings, Removes
<1>2. \A id : LET e == LastMessage(id)
              IN  ~IsPage(e) /\ ~IsNew(e) /\ Brings(e) = {} /\ Removes(e) = {}
  BY DEF LastMessage, IsPage, IsNew, Brings, Removes
<1>3. \A m : LET e == [kind |-> "message", message |-> m]
             IN  ~IsPage(e) /\ ~IsNew(e) /\ Brings(e) = {m.id} /\ Removes(e) = {}
  BY DEF IsPage, IsNew, Brings, Removes
<1>4. \A old, id :
        LET e == [kind |-> "updateMessageSendSucceeded", old_message_id |-> old, id |-> id]
        IN  ~IsPage(e) /\ IsNew(e) /\ Brings(e) = {id} /\ Removes(e) = {old}
  BY DEF IsPage, IsNew, Brings, Removes
<1>5. \A id : LET e == [kind |-> "updateDeleteMessages", id |-> id]
              IN  ~IsPage(e) /\ ~IsNew(e) /\ Brings(e) = {} /\ Removes(e) = {id}
  BY DEF IsPage, IsNew, Brings, Removes
<1>6. \A S : LET e == Messages("other", S)
             IN  ~IsPage(e) /\ ~IsNew(e) /\ Brings(e) = {} /\ Removes(e) = {}
  BY DEF Messages, IsPage, IsNew, Brings, Removes, Foreign
<1>7. LET e == EndElsewhere
      IN  ~IsPage(e) /\ ~IsNew(e) /\ Brings(e) = {} /\ Removes(e) = {}
  BY DEF EndElsewhere, IsPage, IsNew, Brings, Removes, Foreign
<1> QED BY <1>1, <1>2, <1>3, <1>4, <1>5, <1>6, <1>7

LEMMA ConcatFollow ==
  ASSUME Types, NEW n \in Nat, newest <= n, NEW es \in Seq(Delivery(n)), inbox' = inbox \o es
  PROVE  Follow(es)
<1>1. PICK D : \A e : e \in Delivery(n) \/ e \in Delivery(newest) => e \in D
  <2> WITNESS Delivery(n) \cup Delivery(newest)
  <2> QED OBVIOUS
<1>2. inbox \in Seq(D) /\ es \in Seq(D)
  <2>1. PICK old : old = Delivery(newest) /\ inbox \in Seq(old)
    BY DEF Types, ServerTypes
  <2>2. PICK new : new = Delivery(n) /\ es \in Seq(new)
    OBVIOUS
  <2>3. old \subseteq D /\ new \subseteq D
    BY <1>1, <2>1, <2>2
  <2> QED BY <2>1, <2>2, <2>3, SeqGrows
<1>3. PICK L \in Nat : L = Len(inbox)
  BY <1>2, LenProperties
<1>4. PICK M \in Nat : M = Len(es)
  BY <1>2, LenProperties
<1>5. /\ Len(inbox') = L + M
      /\ \A k \in 1..(L + M) : inbox'[k] = IF k <= L THEN inbox[k] ELSE es[k - L]
  BY <1>2, <1>3, <1>4, ConcatProperties
<1>6. \A k \in 1..L : k \in 1..(L + M) /\ k <= L
  OBVIOUS
<1>7. \A k \in 1..M : L + k \in 1..(L + M) /\ ~(L + k <= L) /\ (L + k) - L = k
  OBVIOUS
<1>8. \A k \in 1..M : inbox'[L + k] = es[k]
  BY <1>5, <1>7
<1> QED BY <1>3, <1>4, <1>5, <1>6, <1>8 DEF Follow

LEMMA ArrivesSent ==
  ASSUME Types, MessageArrives
  PROVE  Follow(<<NewMessage(newest + 1, FALSE), LastMessage(newest + 1)>>)
<1>1. PICK n \in Nat : n = newest
  BY DEF Types
<1>2. n + 1 \in 1..(n + 1) /\ n + 1 \in Nat /\ newest <= n + 1
  BY <1>1
<1> PICK es : es = <<NewMessage(n + 1, FALSE), LastMessage(n + 1)>>
  OBVIOUS
<1>3. inbox' = inbox \o es
  BY <1>1 DEF MessageArrives
<1>4. NewMessage(n + 1, FALSE) \in Delivery(n + 1) /\ LastMessage(n + 1) \in Delivery(n + 1)
  BY <1>2, GivenIds
<1>5. es \in Seq(Delivery(n + 1))
  BY <1>4, ShortSequences
<1> QED BY <1>1, <1>2, <1>3, <1>5, ConcatFollow

LEMMA SendSent ==
  ASSUME Types, sendMessage
  PROVE  Follow(<<NewMessage(newest + 1, TRUE), LastMessage(newest + 1),
                  [kind |-> "message", message |-> [id |-> newest + 1, sending |-> TRUE]]>>)
<1>1. PICK n \in Nat : n = newest
  BY DEF Types
<1>2. n + 1 \in 1..(n + 1) /\ n + 1 \in Nat /\ newest <= n + 1
  BY <1>1
<1> PICK es : es = <<NewMessage(n + 1, TRUE), LastMessage(n + 1),
                     [kind |-> "message", message |-> [id |-> n + 1, sending |-> TRUE]]>>
  OBVIOUS
<1>3. inbox' = inbox \o es
  BY <1>1 DEF sendMessage
<1>4. /\ NewMessage(n + 1, TRUE) \in Delivery(n + 1) /\ LastMessage(n + 1) \in Delivery(n + 1)
      /\ [kind |-> "message", message |-> [id |-> n + 1, sending |-> TRUE]] \in Delivery(n + 1)
  BY <1>2, GivenIds
<1>5. es \in Seq(Delivery(n + 1))
  BY <1>4, ShortSequences
<1> QED BY <1>1, <1>2, <1>3, <1>5, ConcatFollow

LEMMA SuccessSent ==
  ASSUME Types, NEW id, SendSucceeds(id)
  PROVE  Follow(<<[kind |-> "updateMessageSendSucceeded", old_message_id |-> id,
                   id |-> newest + 1]>>)
<1>1. PICK n \in Nat : n = newest
  BY DEF Types
<1>2. n + 1 \in 1..(n + 1) /\ n + 1 \in Nat /\ newest <= n + 1 /\ id \in 1..(n + 1)
  BY <1>1 DEF Types, ServerTypes, SendSucceeds, Settle
<1> PICK e : e = [kind |-> "updateMessageSendSucceeded", old_message_id |-> id, id |-> n + 1]
  OBVIOUS
<1>3. inbox' = Append(inbox, e)
  BY <1>1 DEF SendSucceeds, Settle
<1>4. e \in Delivery(n + 1)
  BY <1>2, GivenIds
<1>5. <<e>> \in Seq(Delivery(n + 1))
  BY <1>4, ShortSequences
<1>6. inbox' = inbox \o <<e>>
  BY <1>1, <1>3, AppendIsConcat DEF Types, ServerTypes
<1> QED BY <1>1, <1>2, <1>5, <1>6, ConcatFollow

LEMMA DeleteSent ==
  ASSUME Types, NEW id \in chat, Delete(id)
  PROVE  \E last \in 0..newest :
           /\ Follow(<<[kind |-> "updateDeleteMessages", id |-> id], LastMessage(last)>>)
           /\ \A x \in chat' : x <= last
<1>1. PICK n \in Nat : n = newest
  BY DEF Types
<1>2. PICK last \in 0..n :
        /\ inbox' = inbox \o <<[kind |-> "updateDeleteMessages", id |-> id], LastMessage(last)>>
        /\ \A x \in chat' : x <= last
  BY <1>1, DeleteTypes
<1> PICK es : es = <<[kind |-> "updateDeleteMessages", id |-> id], LastMessage(last)>>
  OBVIOUS
<1>3. /\ [kind |-> "updateDeleteMessages", id |-> id] \in Delivery(n)
      /\ LastMessage(last) \in Delivery(n)
  <2>1. id \in 1..n
    BY <1>1 DEF Types, ServerTypes
  <2>2. /\ [kind |-> "updateDeleteMessages", id |-> id] \in Deletion(n)
        /\ LastMessage(last) \in Latest(n)
    BY <2>1 DEF Deletion, Latest, LastMessage
  <2> QED BY <2>2 DEF Delivery
<1>4. es \in Seq(Delivery(n))
  BY <1>3, ShortSequences
<1>5. newest <= n
  BY <1>1
<1>6. Follow(es)
  BY <1>2, <1>4, <1>5, ConcatFollow
<1> QED BY <1>1, <1>2, <1>6

LEMMA OtherSent ==
  ASSUME Types, AnswerOther
  PROVE  Follow(<<Messages("other", Highest(chat, 1))>>)
<1>1. PICK n \in Nat : n = newest
  BY DEF Types
<1>2. inbox \in Seq(Delivery(n)) /\ chat \subseteq 1..n
  BY <1>1 DEF Types, ServerTypes
<1> PICK S : S = Highest(chat, 1)
  OBVIOUS
<1>3. S \subseteq chat
  BY DEF Highest
<1> PICK e : e = Messages("other", S)
  OBVIOUS
<1>4. e \in Delivery(n)
  BY <1>2, <1>3, PagesGiven
<1>5. <<e>> \in Seq(Delivery(n))
  BY <1>4, ShortSequences
<1>6. inbox' = Append(inbox, e)
  BY DEF AnswerOther
<1>7. inbox' = inbox \o <<e>>
  BY <1>2, <1>4, <1>6, AppendIsConcat
<1>8. newest <= n
  BY <1>1
<1> QED BY <1>5, <1>7, <1>8, ConcatFollow

LEMMA EndSent ==
  ASSUME Types, AnswerElsewhere
  PROVE  Follow(<<EndElsewhere>>)
<1>1. PICK n \in Nat : n = newest
  BY DEF Types
<1>2. inbox \in Seq(Delivery(n)) /\ EndElsewhere \in Delivery(n)
  BY <1>1 DEF Types, ServerTypes, Delivery
<1>3. <<EndElsewhere>> \in Seq(Delivery(n))
  BY <1>2, ShortSequences
<1>4. inbox' = Append(inbox, EndElsewhere)
  BY DEF AnswerElsewhere, EndElsewhere
<1>5. inbox' = inbox \o <<EndElsewhere>>
  BY <1>2, <1>4, AppendIsConcat
<1>6. newest <= n
  BY <1>1
<1> QED BY <1>3, <1>5, <1>6, ConcatFollow

LEMMA NothingSent ==
  ASSUME Types, inbox' = inbox
  PROVE  Follow(<<>>) /\ Updates(<<>>)
<1>1. Len(inbox) \in Nat
  BY GivenBefore
<1> QED BY <1>1 DEF Follow, Updates

LEMMA MessageArrivesRows ==
  ASSUME Types, RowsInv, MessageArrives
  PROVE  RowsInv'
<1>0. PICK es : es = <<NewMessage(newest + 1, FALSE), LastMessage(newest + 1)>>
  OBVIOUS
<1>1. Follow(es)
  BY <1>0, ArrivesSent
<1>2. Updates(es)
  <2>1. PICK a, b : a = NewMessage(newest + 1, FALSE) /\ b = LastMessage(newest + 1)
    OBVIOUS
  <2>2. ~IsPage(a) /\ Brings(a) = {newest + 1}
    BY <2>1, EventKinds, Zenon
  <2>3. ~IsPage(b) /\ ~IsNew(b)
    BY <2>1, EventKinds, Zenon
  <2>4. es = <<a, b>>
    BY <1>0, <2>1
  <2>5. Len(es) = 2 /\ es[1] = a /\ es[2] = b
    BY <2>4
  <2>6. \A k \in 1..Len(es) : k = 1 \/ k = 2
    BY <2>5
  <2>7. \A id \in Brings(es[1]) : id = newest + 1
    BY <2>2, <2>5
  <2> QED BY <2>2, <2>3, <2>5, <2>6, <2>7 DEF Updates
<1> QED BY <1>1, <1>2, RowsSent DEF MessageArrives, view, RowIds, RowsInv, Distinct

LEMMA sendMessageRows ==
  ASSUME Types, RowsInv, sendMessage
  PROVE  RowsInv'
<1>0. PICK es : es = <<NewMessage(newest + 1, TRUE), LastMessage(newest + 1),
                     [kind |-> "message", message |-> [id |-> newest + 1, sending |-> TRUE]]>>
  OBVIOUS
<1>1. Follow(es)
  BY <1>0, SendSent
<1>2. Updates(es)
  <2>1. PICK a, b : a = NewMessage(newest + 1, TRUE) /\ b = LastMessage(newest + 1)
    OBVIOUS
  <2>2. PICK m : m = [id |-> newest + 1, sending |-> TRUE]
    OBVIOUS
  <2>3. PICK c : c = [kind |-> "message", message |-> m]
    OBVIOUS
  <2>4. ~IsPage(a) /\ Brings(a) = {newest + 1}
    BY <2>1, EventKinds, Zenon
  <2>5. ~IsPage(b) /\ ~IsNew(b)
    BY <2>1, EventKinds, Zenon
  <2>6. ~IsPage(c) /\ ~IsNew(c)
    BY <2>3, EventKinds, Zenon
  <2>7. es = <<a, b, c>>
    BY <1>0, <2>1, <2>2, <2>3
  <2>8. Len(es) = 3 /\ es[1] = a /\ es[2] = b /\ es[3] = c
    BY <2>7
  <2>9. \A k \in 1..Len(es) : k = 1 \/ k = 2 \/ k = 3
    BY <2>8
  <2>10. \A id \in Brings(es[1]) : id = newest + 1
    BY <2>4, <2>8
  <2> QED BY <2>4, <2>5, <2>6, <2>8, <2>9, <2>10 DEF Updates
<1> QED BY <1>1, <1>2, RowsSent DEF sendMessage, view, RowIds, RowsInv, Distinct

LEMMA SendSucceedsRows ==
  ASSUME Types, RowsInv, NEW id, SendSucceeds(id)
  PROVE  RowsInv'
<1> PICK es : es = <<[kind |-> "updateMessageSendSucceeded", old_message_id |-> id,
                      id |-> newest + 1]>>
  OBVIOUS
<1>1. Follow(es)
  BY SuccessSent
<1>2. Updates(es)
  BY EventKinds DEF Updates
<1> QED BY <1>1, <1>2, RowsSent DEF SendSucceeds, Settle, view, RowIds, RowsInv, Distinct

LEMMA MessageDeletedRows ==
  ASSUME Types, RowsInv, NEW id, MessageDeleted(id)
  PROVE  RowsInv'
<1>1. PICK last \in 0..newest :
        Follow(<<[kind |-> "updateDeleteMessages", id |-> id], LastMessage(last)>>)
  BY DeleteSent DEF MessageDeleted
<1> PICK es : es = <<[kind |-> "updateDeleteMessages", id |-> id], LastMessage(last)>>
  OBVIOUS
<1>2. Updates(es)
  BY EventKinds DEF Updates
<1> QED BY <1>1, <1>2, RowsSent DEF MessageDeleted, view, RowIds, RowsInv, Distinct

LEMMA AnswerOtherRows ==
  ASSUME Types, RowsInv, AnswerOther
  PROVE  RowsInv'
<1> PICK es : es = <<Messages("other", Highest(chat, 1))>>
  OBVIOUS
<1>1. Follow(es)
  BY OtherSent
<1>2. Updates(es)
  BY EventKinds DEF Updates
<1> QED BY <1>1, <1>2, RowsSent DEF AnswerOther, view, RowIds, RowsInv, Distinct

LEMMA AnswerElsewhereRows ==
  ASSUME Types, RowsInv, AnswerElsewhere
  PROVE  RowsInv'
<1> PICK es : es = <<EndElsewhere>>
  OBVIOUS
<1>1. Follow(es)
  BY EndSent
<1>2. Updates(es)
  BY EventKinds DEF Updates
<1> QED BY <1>1, <1>2, RowsSent DEF AnswerElsewhere, view, RowIds, RowsInv, Distinct

LEMMA RowsUntouched ==
  ASSUME Types, RowsInv, inbox' = inbox, requests' = requests, view' = view
  PROVE  RowsInv'
<1>1. Follow(<<>>) /\ Updates(<<>>)
  BY NothingSent
<1> QED BY <1>1, RowsSent DEF view, RowIds, RowsInv, Distinct

LEMMA setPeerIdRows ==
  ASSUME Types, RowsInv, setPeerId
  PROVE  RowsInv'
<1>1. Follow(<<>>) /\ Updates(<<>>)
  BY NothingSent DEF setPeerId
<1> QED BY <1>1, RowsSent DEF setPeerId, RowIds, RowsInv, Distinct

LEMMA deleteMessageRows ==
  ASSUME Types, RowsInv, NEW i \in 1..Len(m_messages), deleteMessage(i)
  PROVE  RowsInv'
<1>1. PICK n \in Nat : n = newest
  BY DEF Types
<1>2. PICK rows \in Seq(ARow(n)) : rows = m_messages
  BY <1>1 DEF Types, ViewTypes
<1>3. PICK result : result = m_messages'
  OBVIOUS
<1>4. Removed(rows, i, result)
  BY <1>2, <1>3, RemovedRow DEF deleteMessage, RowsInv
<1>5. Distinct(m_messages)' /\ RowIds' \subseteq RowIds
  <2>1. Distinct(result) /\ IdsOf(result) \subseteq IdsOf(rows)
    BY <1>4 DEF Removed
  <2>2. Distinct(m_messages)'
    BY <1>3, <2>1 DEF Distinct
  <2>3. RowIds = IdsOf(rows) /\ RowIds' = IdsOf(result)
    BY <1>2, <1>3 DEF RowIds, IdsOf
  <2> QED BY <2>1, <2>2, <2>3
<1>6. m_messages # <<>>
  BY <1>2
<1>7. PICK es : Follow(es) /\ Updates(es)
  <2>1. CASE ~m_messages[i].separator /\ m_messages[i].id \in chat
    <3>1. PICK id \in chat : Delete(id)
      BY <2>1 DEF deleteMessage
    <3>2. PICK last \in 0..newest :
            Follow(<<[kind |-> "updateDeleteMessages", id |-> id], LastMessage(last)>>)
      BY <3>1, DeleteSent
    <3> PICK es : es = <<[kind |-> "updateDeleteMessages", id |-> id], LastMessage(last)>>
      OBVIOUS
    <3>3. Updates(es)
      BY EventKinds DEF Updates
    <3> QED BY <3>2, <3>3
  <2>2. CASE ~(~m_messages[i].separator /\ m_messages[i].id \in chat)
    <3>1. inbox' = inbox
      BY <2>2 DEF deleteMessage
    <3> QED BY <3>1, NothingSent
  <2> QED BY <2>1, <2>2
<1> QED BY <1>5, <1>6, <1>7, RowsSent DEF deleteMessage

\* Nothing is asked for while a page is under way, or own messages are out of
\* order, unless trouble says so.
LEMMA AskedInOrder ==
  ASSUME Types, NEW extra, NEW from, getChatHistory(extra, from), trouble' = {}
  PROVE  /\ Idle /\ Ascending /\ trouble = {}
         /\ extra = "first" => ~isUpdateConnected
<1>1. ~Outstanding /\ Ascending /\ ~(extra = "first" /\ isUpdateConnected) /\ trouble = {}
  BY DEF getChatHistory
<1> QED BY <1>1, IdleFacts

\* In order, the first row has the lowest id and the last row the highest.
LEMMA AscendingEnds ==
  ASSUME Types, Ascending, m_messages # <<>>
  PROVE  \A row \in RowIds : Head(m_messages).id <= row /\ row <= Last(m_messages).id
<1>1. /\ Len(m_messages) \in Nat /\ Len(m_messages) >= 1
      /\ Head(m_messages) = m_messages[1] /\ Last(m_messages) = m_messages[Len(m_messages)]
      /\ Head(m_messages).id \in 1..newest /\ Last(m_messages).id \in 1..newest
  BY EndRows
<1>2. newest \in Nat /\ RowIds \subseteq 1..newest
  BY GivenBefore
<1> SUFFICES ASSUME NEW i \in 1..Len(m_messages)
             PROVE  /\ Head(m_messages).id <= m_messages[i].id
                    /\ m_messages[i].id <= Last(m_messages).id
  BY DEF RowIds
<1>3. m_messages[i].id \in Nat
  <2>1. m_messages[i].id \in RowIds
    BY DEF RowIds
  <2>2. m_messages[i].id \in 1..newest
    BY <1>2, <2>1
  <2> QED BY <1>2, <2>2
<1>4. PICK L \in Nat : L = Len(m_messages) /\ L >= 1
  BY <1>1
<1>5. i \in 1..L /\ 1 \in 1..L /\ L \in 1..L
  BY <1>4
<1>6. 1 < i => m_messages[1].id < m_messages[i].id \/ m_messages[1].id = m_messages[i].id
  BY <1>4, <1>5 DEF Ascending
<1>7. i < L => m_messages[i].id < m_messages[L].id \/ m_messages[i].id = m_messages[L].id
  BY <1>4, <1>5 DEF Ascending
<1>8. Head(m_messages).id <= m_messages[i].id
  BY <1>1, <1>2, <1>3, <1>5, <1>6
<1>9. m_messages[i].id <= Last(m_messages).id
  BY <1>1, <1>2, <1>3, <1>4, <1>5, <1>7
<1> QED BY <1>8, <1>9

LEMMA fetchMoreRows ==
  ASSUME Types, RowsInv, fetchMore, trouble' = {}
  PROVE  RowsInv'
<1>1. PICK extra \in {"first", "append"}, from \in 0..newest :
        getChatHistory(extra, from) /\ (extra = "first" => m_messages = <<>>)
  <2>1. CASE m_messages = <<>>
    <3>1. (IF m_lastOutboxId = m_lastMessage THEN m_lastOutboxId ELSE m_lastMessageInbox)
            \in 0..newest
      BY DEF Types, ViewTypes
    <3> QED BY <2>1, <3>1 DEF fetchMore
  <2>2. CASE m_messages # <<>>
    <3>1. Last(m_messages).id \in 0..newest
      BY <2>2, EndRows DEF Types
    <3> QED BY <2>2, <3>1 DEF fetchMore
  <2> QED BY <2>1, <2>2
<1>2. Idle /\ (extra = "first" => ~isUpdateConnected)
  BY <1>1, AskedInOrder
<1> PICK r : r = [extra |-> extra, from |-> from]
  OBVIOUS
<1>3. r \in Request(newest) /\ r.extra = extra
  BY DEF Request, Extras
<1>4. requests' = Append(requests, r)
  BY <1>1 DEF getChatHistory
<1> QED BY <1>1, <1>2, <1>3, <1>4, RowsAsked DEF fetchMore, view

LEMMA fetchOlderRows ==
  ASSUME Types, RowsInv, fetchOlder, trouble' = {}
  PROVE  RowsInv'
<1>1. m_messages # <<>> /\ getChatHistory("prepend", Head(m_messages).id)
  BY DEF fetchOlder
<1>2. Idle /\ Ascending
  BY <1>1, AskedInOrder
<1>3. Head(m_messages).id \in 0..newest /\ Head(m_messages).id \in RowIds
  BY <1>1, EndRows DEF Types
<1>4. \A row \in RowIds : Head(m_messages).id <= row
  BY <1>1, <1>2, AscendingEnds
<1> PICK r : r = [extra |-> "prepend", from |-> Head(m_messages).id]
  OBVIOUS
<1>5. r \in Request(newest) /\ r.extra = "prepend" /\ r.from = Head(m_messages).id
  BY <1>3 DEF Request, Extras
<1>6. requests' = Append(requests, r)
  BY <1>1 DEF getChatHistory
<1> QED BY <1>2, <1>3, <1>4, <1>5, <1>6, RowsAsked DEF fetchOlder, view

\* Reversing keeps the messages of a page.
LEMMA ReversedPage ==
  ASSUME NEW n \in Nat, NEW page \in Seq(Msg(n)),
         \A i, j \in 1..Len(page) : page[i].id = page[j].id => i = j
  PROVE  /\ Reverse(page) \in Seq(Msg(n)) /\ Len(Reverse(page)) = Len(page)
         /\ IdsOf(Reverse(page)) = IdsOf(page)
         /\ \A i, j \in 1..Len(page) : Reverse(page)[i].id = Reverse(page)[j].id => i = j
<1>1. PICK s : s = Reverse(page)
  OBVIOUS
<1>2. PICK L \in Nat : L = Len(page)
  BY LenProperties
<1>3. /\ s \in Seq(Msg(n)) /\ Len(s) = L
      /\ \A i \in 1..L : s[i] = page[L - i + 1] /\ L - i + 1 \in 1..L
  BY <1>1, <1>2, ReverseFacts
<1>4. \A i \in 1..L : L - (L - i + 1) + 1 = i
  OBVIOUS
<1>5. \A i \in 1..L : page[i] = s[L - i + 1]
  BY <1>3, <1>4
<1>6. IdsOf(s) = {s[i].id : i \in 1..L} /\ IdsOf(page) = {page[i].id : i \in 1..L}
  BY <1>2, <1>3 DEF IdsOf
<1>7. \A i \in 1..L : s[i].id \in IdsOf(page) /\ page[i].id \in IdsOf(s)
  <2> SUFFICES ASSUME NEW i \in 1..L
               PROVE  s[i].id \in IdsOf(page) /\ page[i].id \in IdsOf(s)
    OBVIOUS
  <2>1. s[i] = page[L - i + 1] /\ page[i] = s[L - i + 1] /\ L - i + 1 \in 1..L
    BY <1>3, <1>5
  <2> QED BY <1>6, <2>1
<1>8. IdsOf(s) \subseteq IdsOf(page) /\ IdsOf(page) \subseteq IdsOf(s)
  BY <1>6, <1>7
<1>9. ASSUME NEW i \in 1..L, NEW j \in 1..L, s[i].id = s[j].id
      PROVE  i = j
  <2>1. L - i + 1 \in 1..L /\ L - j + 1 \in 1..L /\ page[L - i + 1].id = page[L - j + 1].id
    BY <1>3, <1>9
  <2>2. L - i + 1 = L - j + 1
    BY <1>2, <2>1
  <2> QED BY <2>2
<1> QED BY <1>1, <1>2, <1>3, <1>8, <1>9

\* None of these messages has a row: all of them are added.
LEMMA AllAdded ==
  ASSUME NEW n \in Nat, NEW messages \in Seq(Msg(n)), IdsOf(messages) \cap RowIds = {},
         \A i, j \in 1..Len(messages) : messages[i].id = messages[j].id => i = j
  PROVE  /\ Added(messages) \in Seq(Msg(n))
         /\ IdsOf(Added(messages)) = IdsOf(messages)
         /\ \A k, l \in 1..Len(Added(messages)) :
              Added(messages)[k].id = Added(messages)[l].id => k = l
<1>1. PICK s : s = Added(messages)
  OBVIOUS
<1>2. PICK P : P = Taken(messages)
  OBVIOUS
<1>3. /\ s \in Seq(Msg(n))
      /\ \A k \in 1..Len(s) : \E i \in P : s[k] = messages[i]
      /\ \A k, l \in 1..Len(s) : k < l =>
           \E i, j \in P : i < j /\ s[k] = messages[i] /\ s[l] = messages[j]
      /\ \A i \in P : \E k \in 1..Len(s) : s[k] = messages[i]
  <2>1. /\ Added(messages) \in Seq(Msg(n))
        /\ \A k \in 1..Len(Added(messages)) :
             \E i \in Taken(messages) : Added(messages)[k] = messages[i]
        /\ \A k, l \in 1..Len(Added(messages)) : k < l =>
             \E i, j \in Taken(messages) :
               i < j /\ Added(messages)[k] = messages[i] /\ Added(messages)[l] = messages[j]
        /\ \A i \in Taken(messages) :
             \E k \in 1..Len(Added(messages)) : Added(messages)[k] = messages[i]
    BY AddedFacts
  <2> QED BY <1>1, <1>2, <2>1
<1>4. PICK L \in Nat : L = Len(s)
  BY <1>3, LenProperties
<1>5. P = 1..Len(messages)
  <2>1. \A i \in 1..Len(messages) : messages[i].id \notin RowIds
    BY DEF IdsOf
  <2> QED BY <1>2, <2>1 DEF Taken
<1>6. IdsOf(s) = IdsOf(messages)
  <2>1. \A k \in 1..Len(s) : s[k].id \in IdsOf(messages)
    <3> SUFFICES ASSUME NEW k \in 1..Len(s)
                 PROVE  s[k].id \in IdsOf(messages)
      OBVIOUS
    <3>1. PICK i \in 1..Len(messages) : s[k] = messages[i]
      BY <1>3, <1>5
    <3> QED BY <3>1 DEF IdsOf
  <2>2. \A i \in 1..Len(messages) : messages[i].id \in IdsOf(s)
    <3> SUFFICES ASSUME NEW i \in 1..Len(messages)
                 PROVE  messages[i].id \in IdsOf(s)
      OBVIOUS
    <3>1. PICK k \in 1..Len(s) : s[k] = messages[i]
      BY <1>3, <1>5
    <3> QED BY <3>1 DEF IdsOf
  <2>3. IdsOf(s) \subseteq IdsOf(messages)
    BY <2>1 DEF IdsOf
  <2>4. IdsOf(messages) \subseteq IdsOf(s)
    BY <2>2 DEF IdsOf
  <2> QED BY <2>3, <2>4
<1>7. ASSUME NEW k \in 1..L, NEW l \in 1..L, s[k].id = s[l].id
      PROVE  k = l
  <2>1. ASSUME NEW a \in 1..L, NEW b \in 1..L, a < b, s[a].id = s[b].id
        PROVE  FALSE
    <3>1. PICK i \in P, j \in P : i < j /\ s[a] = messages[i] /\ s[b] = messages[j]
      BY <1>3, <1>4, <2>1
    <3>2. messages[i].id = messages[j].id
      BY <2>1, <3>1
    <3>3. i = j
      BY <1>5, <3>2
    <3>4. PICK N \in Nat : N = Len(messages)
      BY LenProperties
    <3>5. i \in 1..N
      BY <1>5, <3>4
    <3> QED BY <3>1, <3>3, <3>5
  <2>2. ~(k < l) /\ ~(l < k)
    BY <1>7, <2>1
  <2> QED BY <2>2
<1> QED BY <1>1, <1>3, <1>4, <1>6, <1>7

\* One message at the end.
OneAppended(m, last) ==
  \/ /\ m.id \notin RowIds /\ Added(<<m>>) = <<m>>
     /\ Grown(m_messages, {m.id}, m_messages')
     /\ isUpdateConnected' = (isUpdateConnected \/ last = m.id)
  \/ /\ m.id \in RowIds /\ m_messages # <<>> /\ Added(<<m>>) = <<>>
     /\ m_messages' = m_messages
     /\ isUpdateConnected' = (isUpdateConnected \/ last = Last(m_messages).id)

LEMMA AppendOne ==
  ASSUME Types, Distinct(m_messages), NEW m \in Msg(newest), NEW last, appendMessage(<<m>>, last),
         m.sending \/ m.id \notin RowIds
  PROVE  OneAppended(m, last)
<1>1. PICK n \in Nat : n = newest
  BY DEF Types
<1>2. PICK rows \in Seq(ARow(n)) : rows = m_messages
  BY <1>1 DEF Types, ViewTypes
<1>3. PICK result : result = m_messages'
  OBVIOUS
<1>4. /\ <<m>> \in Seq(Msg(n)) /\ m.sending \in BOOLEAN
      /\ Added(<<m>>) = IF m.sending /\ m.id \in RowIds THEN <<>> ELSE <<m>>
  BY <1>1, OneMessage
<1>5. <<m>> # <<>> /\ Head(<<m>>) = m /\ Len(<<m>>) = 1 /\ <<m>>[1] = m
  OBVIOUS
<1>6. IdsOf(<<m>>) = {m.id} /\ IdsOf(<<>>) = {}
  <2>1. \A i \in 1..Len(<<m>>) : i = 1
    BY <1>5
  <2>2. 1 \in 1..Len(<<m>>)
    BY <1>5
  <2>3. \A i \in 1..Len(<<>>) : FALSE
    OBVIOUS
  <2> QED BY <1>5, <2>1, <2>2, <2>3 DEF IdsOf
<1>7. CASE m.id \notin RowIds
  <2>1. Added(<<m>>) = <<m>>
    BY <1>4, <1>7
  <2>2. result = rows \o RowsOf(<<m>>)
    BY <1>2, <1>3, <2>1 DEF appendMessage
  <2>3. IdsOf(<<m>>) \cap IdsOf(rows) = {}
    BY <1>2, <1>6, <1>7 DEF RowIds, IdsOf
  <2>4. \A i, j \in 1..Len(<<m>>) : <<m>>[i].id = <<m>>[j].id => i = j
    BY <1>5
  <2>5. Grown(rows, IdsOf(<<m>>), result)
    <3>1. PICK more : more = <<m>>
      OBVIOUS
    <3>2. more \in Seq(Msg(n)) /\ IdsOf(more) \cap IdsOf(rows) = {} /\ result = rows \o RowsOf(more)
      BY <1>4, <2>2, <2>3, <3>1
    <3>3. \A i, j \in 1..Len(more) : more[i].id = more[j].id => i = j
      BY <2>4, <3>1
    <3> QED BY <1>2, <3>1, <3>2, <3>3, AppendedRows
  <2>6. LastRows(<<m>>) = {m.id}
    BY <1>5, <1>6, <2>1 DEF LastRows
  <2>7. isUpdateConnected' = (isUpdateConnected \/ last = m.id)
    BY <2>6 DEF appendMessage
  <2> QED BY <1>2, <1>3, <1>6, <1>7, <2>1, <2>5, <2>7 DEF OneAppended
<1>8. CASE m.id \in RowIds
  <2>1. Added(<<m>>) = <<>>
    BY <1>4, <1>8
  <2>2. m_messages' = m_messages
    <3>1. RowsOf(<<>>) = <<>>
      BY DEF RowsOf
    <3>2. rows \o <<>> = rows
      BY ConcatEmptySeq
    <3> QED BY <1>2, <2>1, <3>1, <3>2 DEF appendMessage
  <2>3. LastRows(<<m>>) = {Last(m_messages).id}
    BY <1>5, <1>6, <2>1 DEF LastRows
  <2>4. isUpdateConnected' = (isUpdateConnected \/ last = Last(m_messages).id)
    BY <2>3 DEF appendMessage
  <2>5. m_messages # <<>>
    BY <1>8 DEF RowIds
  <2> QED BY <1>8, <2>1, <2>2, <2>4, <2>5 DEF OneAppended
<1> QED BY <1>7, <1>8

\* The first page, in an empty list.
LEMMA FirstPage ==
  ASSUME Types, m_messages = <<>>, NEW page \in Seq(Msg(newest)), addFirst(page),
         \A i, j \in 1..Len(page) : page[i].id = page[j].id => i = j
  PROVE  /\ Distinct(m_messages') /\ SeparatorBelow(m_messages')
         /\ IdsOf(m_messages') = IdsOf(page) /\ TrueOf(m_messages') = IdsOf(page)
         /\ isUpdateConnected' = (isUpdateConnected \/ m_lastMessage \in IdsOf(page))
<1>1. PICK n \in Nat : n = newest
  BY DEF Types
<1>2. PICK messages : messages = Reverse(page)
  OBVIOUS
<1>3. /\ messages \in Seq(Msg(n)) /\ Len(messages) = Len(page)
      /\ IdsOf(messages) = IdsOf(page)
      /\ \A i, j \in 1..Len(page) : messages[i].id = messages[j].id => i = j
  BY <1>1, <1>2, ReversedPage
<1>4. RowIds = {}
  BY DEF RowIds
<1>5. PICK added : added = Added(messages)
  OBVIOUS
<1>6. /\ added \in Seq(Msg(n)) /\ IdsOf(added) = IdsOf(messages)
      /\ \A k, l \in 1..Len(added) : added[k].id = added[l].id => k = l
  BY <1>3, <1>4, <1>5, AllAdded
<1>7. PICK rows : rows = RowsOf(added)
  OBVIOUS
<1>8. /\ rows \in Seq(ARow(n)) /\ Len(rows) = Len(added) /\ IdsOf(rows) = IdsOf(added)
      /\ \A i \in 1..Len(added) : rows[i].id = added[i].id /\ rows[i].separator = FALSE
  BY <1>6, <1>7, RowsOfFacts
<1>9. PICK result : result = m_messages'
  OBVIOUS
<1>10. IdsOf(<<>>) = {} /\ Len(<<>>) = 0
  BY DEF IdsOf
<1>11. CASE page = <<>>
  <2>1. result = <<>>
    BY <1>9, <1>11 DEF addFirst
  <2>2. \A i \in 1..Len(<<>>) : FALSE
    OBVIOUS
  <2>3. Distinct(<<>>) /\ SeparatorBelow(<<>>) /\ TrueOf(<<>>) = {}
    BY <2>2 DEF Distinct, SeparatorBelow, TrueOf
  <2>4. messages = <<>>
    <3>1. Len(messages) = 0
      BY <1>3, <1>10, <1>11
    <3> QED BY <1>3, <3>1, EmptySeq
  <2>5. LastRows(messages) = {}
    BY <1>3, <1>5, <1>6, <1>10, <1>11, <2>4 DEF LastRows
  <2>6. isUpdateConnected' = isUpdateConnected
    BY <1>2, <2>5 DEF addFirst, Types, OtherTypes
  <2> QED BY <1>9, <1>10, <1>11, <2>1, <2>3, <2>6 DEF Types, OtherTypes
<1>12. CASE page # <<>>
  <2>1. result = InsertSeparator(rows)
    <3>1. <<>> \o rows = rows
      BY <1>8, ConcatEmptySeq
    <3>2. m_messages' = InsertSeparator(m_messages \o RowsOf(Added(Reverse(page))))
      BY <1>12 DEF addFirst
    <3> QED BY <1>2, <1>5, <1>7, <1>9, <3>1, <3>2
  <2>2. Separated(rows, result)
    BY <1>8, <2>1, InsertSeparatorFacts
  <2>3. m_lastMessageInbox \in 0..n
    BY <1>1 DEF Types, ViewTypes
  <2>4. \A i, j \in 1..Len(rows) : rows[i].id = rows[j].id => i = j
    BY <1>6, <1>8
  <2>5. \A i \in 1..Len(rows) : rows[i].separator = FALSE
    BY <1>8
  <2>6. /\ IdsOf(result) = IdsOf(rows) /\ TrueOf(result) = IdsOf(rows)
        /\ Distinct(result) /\ SeparatorBelow(result)
    BY <1>8, <2>2, <2>3, <2>4, <2>5, SeparatedFacts
  <2>7. LastRows(messages) = IdsOf(page)
    <3>1. Len(page) \in Nat /\ Len(page) # 0
      BY <1>12, EmptySeq, LenProperties
    <3>2. messages # <<>>
      BY <1>3, <1>10, <3>1
    <3>3. Head(messages) \in Msg(n)
      BY <1>3, <3>2, HeadTailProperties
    <3>4. PICK m \in Msg(n) : m = Head(messages)
      BY <3>3
    <3>5. Added(<<m>>) = <<m>>
      BY <1>1, <1>4, <3>4, OneMessage
    <3>6. Added(<<Head(messages)>>) # <<>>
      <4>1. <<m>> # <<>>
        OBVIOUS
      <4> QED BY <3>4, <3>5, <4>1
    <3> QED BY <1>3, <1>5, <1>6, <3>6 DEF LastRows
  <2>8. isUpdateConnected' = (isUpdateConnected \/ m_lastMessage \in IdsOf(page))
    BY <1>2, <2>7 DEF addFirst
  <2> QED BY <1>3, <1>6, <1>8, <1>9, <2>6, <2>8
<1> QED BY <1>11, <1>12

\* Older messages.
LEMMA OlderPage ==
  ASSUME Types, Distinct(m_messages), NEW page \in Seq(Msg(newest)), prependMessages(page),
         \A i, j \in 1..Len(page) : page[i].id = page[j].id => i = j,
         IdsOf(page) \cap RowIds = {}
  PROVE  Grown(m_messages, IdsOf(page), m_messages')
<1>1. PICK n \in Nat : n = newest
  BY DEF Types
<1>2. PICK messages : messages = Reverse(page)
  OBVIOUS
<1>3. /\ messages \in Seq(Msg(n)) /\ Len(messages) = Len(page)
      /\ IdsOf(messages) = IdsOf(page)
      /\ \A i, j \in 1..Len(page) : messages[i].id = messages[j].id => i = j
  BY <1>1, <1>2, ReversedPage
<1>4. PICK rows \in Seq(ARow(n)) : rows = m_messages
  BY <1>1 DEF Types, ViewTypes
<1>5. PICK result : result = m_messages'
  OBVIOUS
<1>6. result = RowsOf(messages) \o rows
  BY <1>2, <1>4, <1>5 DEF prependMessages
<1>7. IdsOf(messages) \cap IdsOf(rows) = {}
  <2>1. IdsOf(rows) = RowIds
    BY <1>4 DEF RowIds, IdsOf
  <2> QED BY <1>3, <2>1
<1>8. \A i, j \in 1..Len(messages) : messages[i].id = messages[j].id => i = j
  BY <1>3
<1>9. Grown(rows, IdsOf(messages), result)
  BY <1>3, <1>4, <1>6, <1>7, <1>8, PrependedRows
<1> QED BY <1>3, <1>4, <1>5, <1>9

\* Newer messages, of a page that is not empty.
LEMMA NewerPage ==
  ASSUME Types, Distinct(m_messages), Ascending, m_messages # <<>>,
         NEW page \in Seq(Msg(newest)), page # <<>>, appendNewer(page),
         \A i, j \in 1..Len(page) : page[i].id = page[j].id => i = j
  PROVE  \E ids : /\ ids = {id \in IdsOf(page) : id > Last(m_messages).id}
                  /\ Grown(m_messages, ids, m_messages')
                  /\ isUpdateConnected' = (isUpdateConnected \/ m_lastMessage \in ids)
<1>1. PICK n \in Nat : n = newest
  BY DEF Types
<1>2. PICK more : more = NewerOf(page)
  OBVIOUS
<1>3. PICK z : z = Last(m_messages).id
  OBVIOUS
<1>4. PICK L \in Nat : L = Len(page)
  BY LenProperties
<1>5. /\ more \in Seq(Msg(n))
      /\ \A k \in 1..Len(more) : \E i \in 1..L : more[k] = page[i] /\ page[i].id > z
      /\ \A k, l \in 1..Len(more) : k < l =>
           \E i, j \in 1..L : i # j /\ more[k] = page[i] /\ more[l] = page[j]
      /\ \A i \in 1..L : page[i].id > z => \E k \in 1..Len(more) : more[k] = page[i]
  <2>1. page \in Seq(Msg(n))
    BY <1>1
  <2>2. /\ NewerOf(page) \in Seq(Msg(n))
        /\ \A k \in 1..Len(NewerOf(page)) :
             \E i \in 1..Len(page) :
               NewerOf(page)[k] = page[i] /\ page[i].id > Last(m_messages).id
        /\ \A k, l \in 1..Len(NewerOf(page)) : k < l =>
             \E i, j \in 1..Len(page) :
               i # j /\ NewerOf(page)[k] = page[i] /\ NewerOf(page)[l] = page[j]
        /\ \A i \in 1..Len(page) : page[i].id > Last(m_messages).id =>
             \E k \in 1..Len(NewerOf(page)) : NewerOf(page)[k] = page[i]
    BY <2>1, NewerOfFacts
  <2> QED BY <1>2, <1>3, <1>4, <2>2
<1>6. PICK ids : ids = {id \in IdsOf(page) : id > z}
  OBVIOUS
<1>7. IdsOf(more) = ids
  <2>1. \A k \in 1..Len(more) : more[k].id \in ids
    <3> SUFFICES ASSUME NEW k \in 1..Len(more)
                 PROVE  more[k].id \in ids
      OBVIOUS
    <3>1. PICK i \in 1..L : more[k] = page[i] /\ page[i].id > z
      BY <1>5
    <3>2. page[i].id \in IdsOf(page)
      BY <1>4 DEF IdsOf
    <3> QED BY <1>6, <3>1, <3>2
  <2>2. \A i \in 1..L : page[i].id > z => page[i].id \in IdsOf(more)
    <3> SUFFICES ASSUME NEW i \in 1..L, page[i].id > z
                 PROVE  page[i].id \in IdsOf(more)
      OBVIOUS
    <3>1. PICK k \in 1..Len(more) : more[k] = page[i]
      BY <1>5
    <3> QED BY <3>1 DEF IdsOf
  <2>3. IdsOf(more) \subseteq ids
    BY <2>1 DEF IdsOf
  <2>4. IdsOf(page) = {page[i].id : i \in 1..L}
    BY <1>4 DEF IdsOf
  <2>5. ids \subseteq IdsOf(more)
    BY <1>6, <2>2, <2>4
  <2> QED BY <2>3, <2>5
<1>8. PICK M \in Nat : M = Len(more)
  BY <1>5, LenProperties
<1>9. \A k, l \in 1..Len(more) : more[k].id = more[l].id => k = l
  <2> SUFFICES ASSUME NEW k \in 1..M, NEW l \in 1..M, more[k].id = more[l].id
               PROVE  k = l
    BY <1>8
  <2>1. ASSUME NEW a \in 1..M, NEW b \in 1..M, a < b, more[a].id = more[b].id
        PROVE  FALSE
    <3>1. PICK i \in 1..L, j \in 1..L : i # j /\ more[a] = page[i] /\ more[b] = page[j]
      BY <1>5, <1>8, <2>1
    <3>2. page[i].id = page[j].id
      BY <2>1, <3>1
    <3> QED BY <1>4, <3>1, <3>2
  <2>2. ~(k < l) /\ ~(l < k)
    BY <2>1
  <2> QED BY <2>2
<1>10. ids \cap RowIds = {}
  <2>1. \A row \in RowIds : row <= z
    BY <1>3, AscendingEnds
  <2>2. RowIds \subseteq 1..n /\ z \in 1..n
    BY <1>1, <1>3, GivenBefore, EndRows
  <2>3. ASSUME NEW id \in ids, id \in RowIds
        PROVE  FALSE
    <3>1. id > z /\ id <= z
      BY <1>6, <2>1, <2>3
    <3>2. id \in Nat /\ z \in Nat
      BY <2>2, <2>3
    <3> QED BY <3>1, <3>2
  <2> QED BY <2>3
<1>11. PICK added : added = Added(more)
  OBVIOUS
<1>12. /\ added \in Seq(Msg(n)) /\ IdsOf(added) = ids
       /\ \A k, l \in 1..Len(added) : added[k].id = added[l].id => k = l
  BY <1>5, <1>7, <1>9, <1>10, <1>11, AllAdded
<1>13. PICK rows \in Seq(ARow(n)) : rows = m_messages
  BY <1>1 DEF Types, ViewTypes
<1>14. PICK result : result = m_messages'
  OBVIOUS
<1>15. appendMessage(more, m_lastMessage)
  BY <1>2 DEF appendNewer
<1>16. result = rows \o RowsOf(added)
  BY <1>11, <1>13, <1>14, <1>15 DEF appendMessage
<1>17. IdsOf(rows) = RowIds
  BY <1>13 DEF RowIds, IdsOf
<1>18. Grown(rows, ids, result)
  BY <1>10, <1>12, <1>13, <1>16, <1>17, AppendedRows
<1>19. LastRows(more) = ids
  <2>1. CASE more = <<>>
    BY <1>11, <1>12, <2>1 DEF LastRows
  <2>2. CASE more # <<>>
    <3>1. PICK m \in Msg(n) : m = Head(more) /\ m = more[1]
      BY <1>5, <2>2, HeadTailProperties
    <3>2. 1 \in 1..Len(more)
      BY <1>5, <1>8, <2>2, EmptySeq
    <3>3. m.id \in ids
      BY <1>7, <3>1, <3>2 DEF IdsOf
    <3>4. Added(<<m>>) = <<m>>
      BY <1>1, <1>10, <3>1, <3>3, OneMessage
    <3>5. Added(<<Head(more)>>) # <<>>
      <4>1. <<m>> # <<>>
        OBVIOUS
      <4> QED BY <3>1, <3>4, <4>1
    <3> QED BY <1>11, <1>12, <3>5 DEF LastRows
  <2> QED BY <2>1, <2>2
<1>20. isUpdateConnected' = (isUpdateConnected \/ m_lastMessage \in ids)
  BY <1>15, <1>19 DEF appendMessage
<1>21. ids = {id \in IdsOf(page) : id > Last(m_messages).id}
  BY <1>3, <1>6
<1> QED BY <1>13, <1>14, <1>18, <1>20, <1>21

\* A new id is above all rows.
LEMMA NewAbove ==
  ASSUME Types, News, NEW kind, Consume(kind), IsNew(inbox[1])
  PROVE  \A id \in Brings(inbox[1]) : id \notin RowIds /\ \A row \in RowIds : row < id
<1>1. 1 \in 1..Len(inbox)
  BY OldestEvent
<1>2. \A id \in Brings(inbox[1]) : \A row \in RowIds : row < id
  BY <1>1 DEF News
<1>3. RowIds \subseteq 1..newest /\ newest \in Nat
  BY GivenBefore
<1>4. \A row \in RowIds : ~(row < row)
  BY <1>3
<1> QED BY <1>2, <1>4

\* The message of an update or of the answer to sendMessage.
LEMMA MessageBrought ==
  ASSUME Types, NEW kind \in {"updateNewMessage", "message"}, Consume(kind)
  PROVE  /\ Received = inbox[1] /\ Received.message \in Msg(newest)
         /\ Brings(inbox[1]) = {Received.message.id}
         /\ IsNew(inbox[1]) <=> kind = "updateNewMessage"
         /\ kind = "message" => Received.message.sending = TRUE
         /\ ~IsPage(inbox[1])
<1>1. PICK n \in Nat : n = newest
  BY DEF Types
<1>2. PICK e \in Delivery(n) : e = inbox[1] /\ e = Received /\ e.kind = kind
  BY <1>1, OldestEvent
<1>3. e.message \in Msg(n) /\ (kind = "message" => e.message.sending = TRUE)
  BY <1>2, DeliveryFacts
<1>4. Brings(e) = {e.message.id} /\ (IsNew(e) <=> kind = "updateNewMessage") /\ ~IsPage(e)
  BY <1>2 DEF Brings, IsNew, IsPage
<1> QED BY <1>1, <1>2, <1>3, <1>4

LEMMA addMessageFromUpdateRows ==
  ASSUME Types, RowsInv, addMessageFromUpdate
  PROVE  RowsInv'
<1>1. Consume("updateNewMessage") /\ requests' = requests
  BY DEF addMessageFromUpdate
<1>2. PICK m \in Msg(newest) : m = Received.message
  BY <1>1, MessageBrought
<1>3. Brings(inbox[1]) = {m.id} /\ IsNew(inbox[1])
  BY <1>1, <1>2, MessageBrought
<1>4. m.id \notin RowIds
  BY <1>1, <1>3, NewAbove DEF RowsInv
<1>5. CASE isUpdateConnected
  <2>1. appendMessage(<<m>>, m_lastMessage)
    BY <1>2, <1>5 DEF addMessageFromUpdate
  <2>2. OneAppended(m, m_lastMessage)
    BY <1>4, <2>1, AppendOne DEF RowsInv
  <2>3. Grown(m_messages, {m.id}, m_messages')
    BY <1>4, <2>2 DEF OneAppended
  <2>4. Distinct(m_messages') /\ IdsOf(m_messages') = IdsOf(m_messages) \cup {m.id}
    BY <2>3 DEF Grown
  <2>5. Distinct(m_messages)' /\ RowIds' = RowIds \cup {m.id}
    BY <2>4 DEF Distinct, RowIds, IdsOf
  <2> QED BY <1>1, <1>3, <1>5, <2>5, RowsHandled
<1>6. CASE ~isUpdateConnected
  <2>1. view' = view
    BY <1>6 DEF addMessageFromUpdate
  <2>2. m_messages' = m_messages /\ isUpdateConnected' = isUpdateConnected
    BY <2>1 DEF view
  <2>3. Distinct(m_messages)' /\ RowIds' = RowIds
    BY <2>2 DEF Distinct, RowIds, RowsInv
  <2> QED BY <1>1, <2>2, <2>3, RowsHandled
<1> QED BY <1>5, <1>6

LEMMA onMessageReceivedRows ==
  ASSUME Types, RowsInv, onMessageReceived, trouble' = {}
  PROVE  RowsInv'
<1>1. Consume("message") /\ requests' = requests
  BY DEF onMessageReceived
<1>2. PICK m \in Msg(newest) : m = Received.message /\ m.sending
  BY <1>1, MessageBrought
<1>3. Brings(inbox[1]) = {m.id}
  BY <1>1, <1>2, MessageBrought
<1>4. PICK last : last = m_lastMessage' /\ appendMessage(<<m>>, last)
  BY <1>2 DEF onMessageReceived
<1>5. OneAppended(m, last)
  BY <1>2, <1>4, AppendOne DEF RowsInv
<1>6. CASE m.id \notin RowIds
  <2>1. Added(<<m>>) = <<m>> /\ Grown(m_messages, {m.id}, m_messages')
    BY <1>5, <1>6 DEF OneAppended
  <2>2. Distinct(m_messages') /\ IdsOf(m_messages') = IdsOf(m_messages) \cup {m.id}
    BY <2>1 DEF Grown
  <2>3. Distinct(m_messages)' /\ RowIds' = RowIds \cup {m.id}
    BY <2>2 DEF Distinct, RowIds, IdsOf
  <2>4. ~Outstanding
    <3>1. <<m>> # <<>>
      OBVIOUS
    <3> QED BY <1>2, <2>1, <3>1 DEF onMessageReceived
  <2>5. Idle'
    BY <1>1, <2>4, IdleFacts, IdleStays
  <2> QED BY <1>1, <1>3, <2>3, <2>5, RowsHandled
<1>7. CASE m.id \in RowIds
  <2>1. m_messages' = m_messages /\ m_messages # <<>>
    BY <1>5, <1>7 DEF OneAppended
  <2>2. Distinct(m_messages)' /\ RowIds' = RowIds
    BY <2>1 DEF Distinct, RowIds, RowsInv
  <2> QED BY <1>1, <2>1, <2>2, RowsHandled
<1> QED BY <1>6, <1>7

\* What a message's new id does to the rows.
LEMMA RowRenamed ==
  ASSUME Types, RowsInv, updateMessageSend
  PROVE  /\ Consume("updateMessageSendSucceeded") /\ Received = inbox[1] /\ IsNew(inbox[1])
         /\ Received.id \in 1..newest /\ Received.old_message_id \in 1..newest
         /\ Brings(inbox[1]) = {Received.id} /\ Removes(inbox[1]) = {Received.old_message_id}
         /\ Received.old_message_id \notin RowIds => m_messages' = m_messages
         /\ Received.old_message_id \in RowIds =>
              \E i \in 1..Len(m_messages) :
                 /\ m_messages[i].id = Received.old_message_id
                 /\ \A j \in 1..Len(m_messages) :
                      m_messages[j].id = Received.old_message_id => i <= j
                 /\ Replaced(m_messages, i, Received.id, m_messages')
<1>1. Consume("updateMessageSendSucceeded")
  BY DEF updateMessageSend
<1>2. PICK n \in Nat : n = newest
  BY DEF Types
<1>3. PICK e \in Delivery(n) : e = inbox[1] /\ e = Received /\ e.kind = "updateMessageSendSucceeded"
  BY <1>1, <1>2, OldestEvent
<1>4. e.id \in 1..n /\ e.old_message_id \in 1..n
  BY <1>3, DeliveryFacts
<1>5. Brings(e) = {e.id} /\ Removes(e) = {e.old_message_id} /\ IsNew(e)
  BY <1>3 DEF Brings, Removes, IsNew
<1>6. e.id \notin RowIds
  BY <1>1, <1>3, <1>5, NewAbove DEF RowsInv
<1>7. ASSUME e.old_message_id \in RowIds
      PROVE  \E i \in 1..Len(m_messages) :
               /\ m_messages[i].id = e.old_message_id
               /\ \A j \in 1..Len(m_messages) : m_messages[j].id = e.old_message_id => i <= j
               /\ Replaced(m_messages, i, e.id, m_messages')
  <2>1. PICK rows \in Seq(ARow(n)) : rows = m_messages
    BY <1>2 DEF Types, ViewTypes
  <2>2. PICK old \in RowIds : old = e.old_message_id
    BY <1>7
  <2>3. PICK i : i = FirstRow(old)
    OBVIOUS
  <2>4. /\ i \in 1..Len(rows) /\ rows[i].id = old
        /\ \A j \in 1..Len(rows) : rows[j].id = old => i <= j
    BY <2>1, <2>2, <2>3, FirstRowFacts
  <2>5. PICK result : result = m_messages'
    OBVIOUS
  <2>6. result = [rows EXCEPT ![i] = Row(e.id)]
    BY <1>3, <2>1, <2>2, <2>3, <2>5 DEF updateMessageSend
  <2>7. e.id \notin IdsOf(rows)
    BY <1>6, <2>1 DEF IdsOf, RowIds
  <2>8. Distinct(rows)
    BY <2>1 DEF RowsInv
  <2>9. Replaced(rows, i, e.id, result)
    BY <1>4, <2>4, <2>6, <2>7, <2>8, ReplacedRow
  <2> QED BY <2>1, <2>2, <2>4, <2>5, <2>9
<1>8. e.old_message_id \notin RowIds => m_messages' = m_messages
  BY <1>3 DEF updateMessageSend
<1> QED BY <1>1, <1>2, <1>3, <1>4, <1>5, <1>7, <1>8

LEMMA updateMessageSendRows ==
  ASSUME Types, RowsInv, updateMessageSend
  PROVE  RowsInv'
<1>1. requests' = requests /\ isUpdateConnected' = isUpdateConnected
  BY DEF updateMessageSend
<1>2. /\ Consume("updateMessageSendSucceeded") /\ IsNew(inbox[1])
      /\ Brings(inbox[1]) = {Received.id}
  BY RowRenamed
<1>3. CASE Received.old_message_id \in RowIds
  <2>1. PICK i \in 1..Len(m_messages) : Replaced(m_messages, i, Received.id, m_messages')
    BY <1>3, RowRenamed
  <2>2. Distinct(m_messages') /\ IdsOf(m_messages') \subseteq IdsOf(m_messages) \cup {Received.id}
    BY <2>1 DEF Replaced
  <2>3. Distinct(m_messages)' /\ RowIds' \subseteq RowIds \cup {Received.id}
    BY <2>2 DEF Distinct, RowIds, IdsOf
  <2>4. m_messages # <<>>
    BY <1>3 DEF RowIds
  <2> QED BY <1>1, <1>2, <2>3, <2>4, RowsHandled
<1>4. CASE Received.old_message_id \notin RowIds
  <2>1. m_messages' = m_messages
    BY <1>4, RowRenamed
  <2>2. Distinct(m_messages)' /\ RowIds' = RowIds
    BY <2>1 DEF Distinct, RowIds, RowsInv
  <2> QED BY <1>1, <1>2, <2>1, <2>2, RowsHandled
<1> QED BY <1>3, <1>4

\* What the deletion of a message does to the rows.
LEMMA RowDeleted ==
  ASSUME Types, RowsInv, onMessageDeleted
  PROVE  /\ Consume("updateDeleteMessages") /\ Received = inbox[1]
         /\ ~IsPage(inbox[1]) /\ ~IsNew(inbox[1])
         /\ Brings(inbox[1]) = {} /\ Removes(inbox[1]) = {Received.id}
         /\ Received.id \notin RowIds => m_messages' = m_messages
         /\ Received.id \in RowIds =>
              \E i \in 1..Len(m_messages) :
                 /\ m_messages[i].id = Received.id
                 /\ \A j \in 1..Len(m_messages) : m_messages[j].id = Received.id => i <= j
                 /\ Removed(m_messages, i, m_messages')
<1>1. Consume("updateDeleteMessages")
  BY DEF onMessageDeleted
<1>2. PICK n \in Nat : n = newest
  BY DEF Types
<1>3. PICK e \in Delivery(n) : e = inbox[1] /\ e = Received /\ e.kind = "updateDeleteMessages"
  BY <1>1, <1>2, OldestEvent
<1>4. Brings(e) = {} /\ Removes(e) = {e.id} /\ ~IsNew(e) /\ ~IsPage(e)
  BY <1>3 DEF Brings, Removes, IsNew, IsPage
<1>5. ASSUME e.id \in RowIds
      PROVE  \E i \in 1..Len(m_messages) :
               /\ m_messages[i].id = e.id
               /\ \A j \in 1..Len(m_messages) : m_messages[j].id = e.id => i <= j
               /\ Removed(m_messages, i, m_messages')
  <2>1. PICK rows \in Seq(ARow(n)) : rows = m_messages
    BY <1>2 DEF Types, ViewTypes
  <2>2. PICK old \in RowIds : old = e.id
    BY <1>5
  <2>3. PICK i : i = FirstRow(old)
    OBVIOUS
  <2>4. /\ i \in 1..Len(rows) /\ rows[i].id = old
        /\ \A j \in 1..Len(rows) : rows[j].id = old => i <= j
    BY <2>1, <2>2, <2>3, FirstRowFacts
  <2>5. PICK result : result = m_messages'
    OBVIOUS
  <2>6. result = RemoveAt(rows, i)
    BY <1>3, <2>1, <2>2, <2>3, <2>5 DEF onMessageDeleted
  <2>7. Distinct(rows)
    BY <2>1 DEF RowsInv
  <2>8. Removed(rows, i, result)
    BY <2>4, <2>6, <2>7, RemovedRow
  <2> QED BY <2>1, <2>2, <2>4, <2>5, <2>8
<1>6. e.id \notin RowIds => m_messages' = m_messages
  BY <1>3 DEF onMessageDeleted
<1> QED BY <1>1, <1>3, <1>4, <1>5, <1>6

LEMMA onMessageDeletedRows ==
  ASSUME Types, RowsInv, onMessageDeleted
  PROVE  RowsInv'
<1>1. requests' = requests /\ isUpdateConnected' = isUpdateConnected
  BY DEF onMessageDeleted
<1>2. Consume("updateDeleteMessages")
  BY RowDeleted
<1>3. CASE Received.id \in RowIds
  <2>1. PICK i \in 1..Len(m_messages) : Removed(m_messages, i, m_messages')
    BY <1>3, RowDeleted
  <2>2. Distinct(m_messages') /\ IdsOf(m_messages') \subseteq IdsOf(m_messages)
    BY <2>1 DEF Removed
  <2>3. Distinct(m_messages)' /\ RowIds' \subseteq RowIds
    BY <2>2 DEF Distinct, RowIds, IdsOf
  <2>4. m_messages # <<>>
    BY <1>3 DEF RowIds
  <2> QED BY <1>1, <1>2, <2>3, <2>4, RowsHandled
<1>4. CASE Received.id \notin RowIds
  <2>1. m_messages' = m_messages
    BY <1>4, RowDeleted
  <2>2. Distinct(m_messages)' /\ RowIds' = RowIds
    BY <2>1 DEF Distinct, RowIds, RowsInv
  <2> QED BY <1>1, <1>2, <2>1, <2>2, RowsHandled
<1> QED BY <1>3, <1>4

LEMMA updateChatLastMessageRows ==
  ASSUME Types, RowsInv, updateChatLastMessage
  PROVE  RowsInv'
<1>1. /\ Consume("updateChatLastMessage") /\ requests' = requests
      /\ m_messages' = m_messages /\ isUpdateConnected' = isUpdateConnected
  BY DEF updateChatLastMessage, view
<1>2. Distinct(m_messages)' /\ RowIds' = RowIds
  BY <1>1 DEF Distinct, RowIds, RowsInv
<1> QED BY <1>1, <1>2, RowsHandled

\* An empty older page changes no row.
LEMMA EmptyOlder ==
  ASSUME Types, prependMessages(<<>>)
  PROVE  m_messages' = m_messages /\ isUpdateConnected' = isUpdateConnected
<1>1. PICK n \in Nat : n = newest
  BY DEF Types
<1>2. <<>> \in Seq(Msg(n))
  BY EmptySeq
<1>3. PICK messages \in Seq(Msg(n)) : messages = Reverse(<<>>) /\ Len(messages) = 0
  <2>1. PICK page \in Seq(Msg(n)) : page = <<>> /\ Len(page) = 0
    BY <1>2
  <2> QED BY <2>1, ReverseFacts
<1>4. RowsOf(messages) = <<>>
  BY <1>3 DEF RowsOf
<1>5. <<>> \o m_messages = m_messages
  BY <1>1, ConcatEmptySeq DEF Types, ViewTypes
<1> QED BY <1>3, <1>4, <1>5 DEF prependMessages

\* The page a handler is given.
LEMMA PageReceived ==
  ASSUME Types, RowsInv, addMessages
  PROVE  /\ Consume("messages") /\ Received = inbox[1] /\ ~IsNew(inbox[1])
         /\ Received.messages \in Seq(Msg(newest)) /\ Received.extra \in Extras \cup Foreign
         /\ IsPage(inbox[1]) <=> Received.extra \notin Foreign
         /\ Removes(inbox[1]) = {}
         /\ Received.extra = "elsewhere" => Received.messages = <<>>
         /\ Received.extra \notin Foreign =>
              /\ Brings(inbox[1]) = IdsOf(Received.messages)
              /\ \A i, j \in 1..Len(Received.messages) :
                   Received.messages[i].id = Received.messages[j].id => i = j
         /\ Received.extra = "first" => m_messages = <<>> /\ ~isUpdateConnected
         /\ Received.extra = "prepend" =>
              /\ IdsOf(Received.messages) \cap RowIds = {}
              /\ \A p \in IdsOf(Received.messages) : \A row \in RowIds : p < row
<1>1. Consume("messages")
  BY DEF addMessages
<1>2. PICK n \in Nat : n = newest
  BY DEF Types
<1>3. PICK e \in Delivery(n) : e = inbox[1] /\ e = Received /\ e.kind = "messages"
  BY <1>1, <1>2, OldestEvent
<1>4. /\ e.messages \in Seq(Msg(n)) /\ e.extra \in Extras \cup Foreign
      /\ e.extra = "elsewhere" => e.messages = <<>>
  BY <1>3, DeliveryFacts
<1>5. /\ ~IsNew(e) /\ Removes(e) = {} /\ (IsPage(e) <=> e.extra \notin Foreign)
      /\ e.extra \notin Foreign => Brings(e) = IdsOf(e.messages)
  BY <1>3 DEF IsNew, IsPage, Brings, Removes
<1>6. 1 \in 1..Len(inbox)
  BY <1>1, OldestEvent
<1>7. e.extra \notin Foreign =>
        \A i, j \in 1..Len(e.messages) : e.messages[i].id = e.messages[j].id => i = j
  BY <1>3, <1>5, <1>6 DEF RowsInv, Pages
<1>8. e.extra = "first" => m_messages = <<>> /\ ~isUpdateConnected
  BY <1>3, <1>5, <1>6 DEF RowsInv, FirstOfAll, FirstUnderWay, Foreign
<1>9. e.extra = "prepend" => \A p \in IdsOf(e.messages) : \A row \in RowIds : p < row
  BY <1>3, <1>5, <1>6 DEF RowsInv, OlderCame, Foreign
<1>10. e.extra = "prepend" => IdsOf(e.messages) \cap RowIds = {}
  <2>1. \A row \in RowIds : ~(row < row)
    BY GivenBefore
  <2> QED BY <1>9, <2>1
<1> QED BY <1>1, <1>2, <1>3, <1>4, <1>5, <1>7, <1>8, <1>9, <1>10

\* What each page does to the rows.
PageAdded ==
  \/ /\ Received.extra = "first" /\ addFirst(Received.messages) /\ m_messages = <<>>
     /\ Distinct(m_messages') /\ SeparatorBelow(m_messages')
     /\ IdsOf(m_messages') = IdsOf(Received.messages)
     /\ TrueOf(m_messages') = IdsOf(Received.messages)
     /\ isUpdateConnected' = (m_lastMessage \in IdsOf(Received.messages))
  \/ /\ Received.extra = "prepend" /\ prependMessages(Received.messages)
     /\ Grown(m_messages, IdsOf(Received.messages), m_messages')
     /\ isUpdateConnected' = isUpdateConnected
  \/ /\ Received.extra = "append" /\ appendNewer(Received.messages)
     /\ \/ /\ Received.messages # <<>> /\ m_messages # <<>> /\ Ascending
           /\ \E ids : /\ ids = {id \in IdsOf(Received.messages) : id > Last(m_messages).id}
                       /\ Grown(m_messages, ids, m_messages')
                       /\ isUpdateConnected' = (isUpdateConnected \/ m_lastMessage \in ids)
        \/ /\ Received.messages = <<>> \/ m_messages = <<>>
           /\ m_messages' = m_messages /\ isUpdateConnected' = isUpdateConnected
  \/ /\ Received.extra \in Foreign
     /\ Received.extra = "elsewhere" \/ ignoreOther(Received.messages)
     /\ m_messages' = m_messages /\ isUpdateConnected' = isUpdateConnected

LEMMA PagesAdded ==
  ASSUME Types, RowsInv, addMessages, trouble' = {}
  PROVE  PageAdded
<1>1. PICK page \in Seq(Msg(newest)) : page = Received.messages
  BY PageReceived
<1>2. Received.extra \in Extras \cup Foreign
  BY PageReceived
<1>3. Received.extra \notin Foreign =>
        /\ Ascending
        /\ \A i, j \in 1..Len(page) : page[i].id = page[j].id => i = j
  BY <1>1, PageReceived DEF addMessages, Foreign
<1>4. Distinct(m_messages)
  BY DEF RowsInv
<1>5. CASE Received.extra = "first"
  <2>1. addFirst(page) /\ m_messages = <<>> /\ ~isUpdateConnected
    BY <1>1, <1>5, PageReceived DEF addMessages
  <2>2. /\ Distinct(m_messages') /\ SeparatorBelow(m_messages')
        /\ IdsOf(m_messages') = IdsOf(page) /\ TrueOf(m_messages') = IdsOf(page)
        /\ isUpdateConnected' = (isUpdateConnected \/ m_lastMessage \in IdsOf(page))
    BY <1>3, <1>5, <2>1, FirstPage DEF Foreign
  <2> QED BY <1>1, <1>5, <2>1, <2>2 DEF PageAdded
<1>6. CASE Received.extra = "prepend"
  <2>1. prependMessages(page) /\ IdsOf(page) \cap RowIds = {}
    BY <1>1, <1>6, PageReceived DEF addMessages
  <2>2. Grown(m_messages, IdsOf(page), m_messages')
    BY <1>3, <1>4, <1>6, <2>1, OlderPage DEF Foreign
  <2>3. isUpdateConnected' = isUpdateConnected
    BY <2>1 DEF prependMessages
  <2> QED BY <1>1, <1>6, <2>1, <2>2, <2>3 DEF PageAdded
<1>7. CASE Received.extra = "append"
  <2>1. appendNewer(page)
    BY <1>1, <1>7 DEF addMessages
  <2>2. CASE page # <<>> /\ m_messages # <<>>
    <3>1. \E ids : /\ ids = {id \in IdsOf(page) : id > Last(m_messages).id}
                   /\ Grown(m_messages, ids, m_messages')
                   /\ isUpdateConnected' = (isUpdateConnected \/ m_lastMessage \in ids)
      BY <1>3, <1>4, <1>7, <2>1, <2>2, NewerPage DEF Foreign
    <3> QED BY <1>1, <1>3, <1>7, <2>1, <2>2, <3>1 DEF PageAdded, Foreign
  <2>3. CASE page = <<>> \/ m_messages = <<>>
    <3>1. m_messages' = m_messages /\ isUpdateConnected' = isUpdateConnected
      BY <2>1, <2>3 DEF appendNewer, view
    <3> QED BY <1>1, <1>7, <2>1, <2>3, <3>1 DEF PageAdded
  <2> QED BY <2>2, <2>3
<1>8. CASE Received.extra = "other"
  <2>1. ignoreOther(page)
    BY <1>1, <1>8 DEF addMessages
  <2>2. m_messages' = m_messages /\ isUpdateConnected' = isUpdateConnected
    BY <2>1 DEF ignoreOther
  <2> QED BY <1>1, <1>8, <2>1, <2>2 DEF PageAdded, Foreign
<1>9. CASE Received.extra = "elsewhere"
  <2>1. prependMessages(<<>>)
    BY <1>1, <1>9, PageReceived DEF addMessages
  <2>2. m_messages' = m_messages /\ isUpdateConnected' = isUpdateConnected
    BY <2>1, EmptyOlder
  <2> QED BY <1>9, <2>2 DEF PageAdded, Foreign
<1> QED BY <1>2, <1>5, <1>6, <1>7, <1>8, <1>9 DEF Extras, Foreign

LEMMA addMessagesRows ==
  ASSUME Types, RowsInv, addMessages, trouble' = {}
  PROVE  RowsInv'
<1>1. Consume("messages") /\ requests' = requests
  BY DEF addMessages
<1>2. PICK page : page = Received.messages
  OBVIOUS
<1>3. RowIds' = IdsOf(m_messages') /\ RowIds = IdsOf(m_messages)
  BY DEF RowIds, IdsOf
<1>4. PageAdded
  BY PagesAdded
<1>5. CASE Received.extra \notin Foreign
  <2>1. Idle' /\ Brings(inbox[1]) = IdsOf(page)
    BY <1>1, <1>2, <1>5, PageReceived, PageHandled DEF RowsInv
  <2>2. Distinct(m_messages') /\ RowIds' \subseteq RowIds \cup IdsOf(page)
    <3>1. CASE Received.extra = "first"
      BY <1>2, <1>3, <1>4, <3>1 DEF PageAdded, Foreign
    <3>2. CASE Received.extra = "prepend"
      BY <1>2, <1>3, <1>4, <3>2 DEF PageAdded, Grown, Foreign
    <3>3. CASE Received.extra = "append" /\ m_messages' = m_messages
      BY <1>3, <3>3 DEF RowsInv
    <3>4. CASE Received.extra = "append" /\ m_messages' # m_messages
      <4>1. PICK ids : ids \subseteq IdsOf(page) /\ Grown(m_messages, ids, m_messages')
        BY <1>2, <1>4, <3>4 DEF PageAdded
      <4> QED BY <1>3, <4>1 DEF Grown
    <3> QED BY <1>5, <3>1, <3>2, <3>3, <3>4, PageReceived DEF Extras
  <2>3. Distinct(m_messages)'
    BY <2>2 DEF Distinct
  <2> QED BY <1>1, <2>1, <2>2, <2>3, RowsHandled
<1>6. CASE Received.extra \in Foreign
  <2>1. m_messages' = m_messages /\ isUpdateConnected' = isUpdateConnected
    BY <1>4, <1>6 DEF PageAdded, Foreign
  <2>2. Distinct(m_messages)' /\ RowIds' = RowIds
    BY <2>1 DEF Distinct, RowIds, RowsInv
  <2> QED BY <1>1, <2>1, <2>2, RowsHandled
<1> QED BY <1>5, <1>6

-----------------------------------------------------------------------------
(* What went wrong stays on record. *)

LEMMA TroubleStays ==
  ASSUME [Next]_vars, trouble' = {}
  PROVE  trouble = {}
<1>1. CASE UNCHANGED vars
  BY <1>1 DEF vars, past
<1>2. CASE Answer
  BY <1>2 DEF Answer, AnswerHistory, FailHistory, AnswerOther, past
<1>3. CASE TDLibStep
  BY <1>3 DEF TDLibStep, MessageArrives, sendMessage, AnswerElsewhere, SendSucceeds, SendFails,
             MessageDeleted, past
<1>4. CASE Handle
  <2>1. CASE addMessages
    BY <2>1 DEF addMessages
  <2>2. CASE addMessageFromUpdate
    BY <2>2 DEF addMessageFromUpdate
  <2>3. CASE onMessageReceived
    BY <2>3 DEF onMessageReceived
  <2>4. CASE updateMessageSend \/ onMessageDeleted \/ updateChatLastMessage
    BY <2>4 DEF updateMessageSend, onMessageDeleted, updateChatLastMessage, past
  <2> QED BY <1>4, <2>1, <2>2, <2>3, <2>4 DEF Handle
<1>5. CASE User
  <2>1. CASE setPeerId \/ searchChatMessages
    BY <2>1 DEF setPeerId, searchChatMessages, past
  <2>2. CASE fetchOlder
    BY <2>2 DEF fetchOlder, getChatHistory
  <2>3. CASE \E i \in 1..Len(m_messages) : deleteMessage(i)
    BY <2>3 DEF deleteMessage
  <2> QED BY <1>5, <2>1, <2>2, <2>3 DEF User
<1>6. CASE fetchMore
  BY <1>6 DEF fetchMore, getChatHistory
<1> QED BY <1>1, <1>2, <1>3, <1>4, <1>5, <1>6 DEF Next

LEMMA InitRows ==
  ASSUME Init
  PROVE  RowsInv
<1>1. Len(requests) = 0 /\ Len(inbox) = 0 /\ Len(m_messages) = 0 /\ m_messages = <<>>
      /\ ~isUpdateConnected
  BY DEF Init
<1> QED BY <1>1 DEF RowsInv, Single, News, Pages, FirstOfAll, OlderAsked, OlderCame, Distinct

LEMMA StepRows ==
  ASSUME Types, RowsInv, [Next]_vars, trouble' = {}
  PROVE  RowsInv'
<1>1. CASE UNCHANGED vars
  BY <1>1, RowsUntouched DEF vars
<1>2. CASE Answer
  <2>1. CASE \E i \in 1..Len(requests) : AnswerHistory(i)
    BY <2>1, RowsAnswered
  <2>2. CASE \E i \in 1..Len(requests) : FailHistory(i)
    BY <2>2 DEF FailHistory
  <2>3. CASE AnswerOther
    BY <2>3, AnswerOtherRows
  <2> QED BY <1>2, <2>1, <2>2, <2>3 DEF Answer
<1>3. CASE TDLibStep
  <2>1. CASE MessageArrives
    BY <2>1, MessageArrivesRows
  <2>2. CASE sendMessage
    BY <2>2, sendMessageRows
  <2>3. CASE \E id \in sending : SendSucceeds(id)
    BY <2>3, SendSucceedsRows
  <2>4. CASE \E id \in sending : SendFails(id)
    BY <2>4 DEF SendFails
  <2>5. CASE \E id \in chat : MessageDeleted(id)
    BY <2>5, MessageDeletedRows
  <2>6. CASE AnswerElsewhere
    BY <2>6, AnswerElsewhereRows
  <2> QED BY <1>3, <2>1, <2>2, <2>3, <2>4, <2>5, <2>6 DEF TDLibStep
<1>4. CASE Handle
  BY <1>4, addMessagesRows, addMessageFromUpdateRows, onMessageReceivedRows, updateMessageSendRows,
     onMessageDeletedRows, updateChatLastMessageRows DEF Handle
<1>5. CASE User
  <2>1. CASE setPeerId
    BY <2>1, setPeerIdRows
  <2>2. CASE fetchOlder
    BY <2>2, fetchOlderRows
  <2>3. CASE searchChatMessages
    BY <2>3, RowsUntouched DEF searchChatMessages
  <2>4. CASE \E i \in 1..Len(m_messages) : deleteMessage(i)
    BY <2>4, deleteMessageRows
  <2> QED BY <1>5, <2>1, <2>2, <2>3, <2>4 DEF User
<1>6. CASE fetchMore
  BY <1>6, fetchMoreRows
<1> QED BY <1>1, <1>2, <1>3, <1>4, <1>5, <1>6 DEF Next

LEMMA RowsKept ==
  Spec => [](trouble = {} => RowsInv)
<1>1. Init => (trouble = {} => RowsInv)
  BY InitRows
<1>2. Types /\ (trouble = {} => RowsInv) /\ [Next]_vars => (trouble = {} => RowsInv)'
  BY StepRows, TroubleStays
<1> QED BY <1>1, <1>2, TypesKept, PTL DEF Spec

(* No message has two rows, although pages, updates and the answers to
   sendMessage bring the same message several times, whatever the sizes of the
   chat and of the pages: RowsInv says that what is under way brings nothing
   that has a row. *)
THEOREM NoDoubles ==
  Spec => []NoDoubleRow
<1>1. (trouble = {} => RowsInv) => NoDoubleRow
  BY DEF RowsInv, Distinct, NoDoubleRow
<1> QED BY <1>1, RowsKept, PTL

-----------------------------------------------------------------------------
(* No gap: every message of the chat without a row is on one side of the      *)
(* rows, and on the upper side only while pages are still to come.            *)

TrueRows == TrueOf(m_messages)
Announced(id) == \E k \in 1..Len(inbox) : IsNew(inbox[k]) /\ id \in Brings(inbox[k])

\* The messages no update and no row speaks of.
Unseen == {id \in chat : id \notin TrueRows /\ id \notin dropped /\ ~Announced(id)}

\* Where the first page starts, and whether nothing is above it any more.
From == IF m_lastOutboxId = m_lastMessage THEN m_lastOutboxId ELSE m_lastMessageInbox
AtTop == isUpdateConnected \/ From = 0
BelowRows(u) == \A row \in RowIds : u < row
AboveRows(u) == ~AtTop /\ From < u /\ \A row \in RowIds : row < u

Covered == \A u \in Unseen : BelowRows(u) \/ AboveRows(u)

\* The same of what a page will bring that was asked for, or that came.
Asked ==
  \A i \in 1..Len(requests) :
    /\ requests[i].extra = "first" => requests[i].from = From
    /\ requests[i].extra = "prepend" =>
         \A u \in Unseen : u < requests[i].from \/ AboveRows(u)
    /\ requests[i].extra = "append" =>
         /\ requests[i].from # 0
         /\ \A u \in Unseen : \/ u < requests[i].from /\ BelowRows(u)
                              \/ requests[i].from < u /\ AboveRows(u)
CameFor(u, e) ==
  /\ e.extra = "first" =>
       IF From # 0 /\ From < u THEN IsAbove(u, Brings(e)) ELSE IsBelow(u, Brings(e))
  /\ e.extra = "prepend" =>
       \/ Brings(e) # {} /\ IsBelow(u, Brings(e))
       \/ IsAbove(u, Brings(e)) /\ AboveRows(u)
  /\ e.extra = "append" => BelowRows(u) \/ (IsAbove(u, Brings(e)) /\ AboveRows(u))
Came ==
  \A k \in 1..Len(inbox) : IsPage(inbox[k]) =>
    \A u \in Unseen \ Brings(inbox[k]) : CameFor(u, inbox[k])

\* The end of the history, if it is not another chat's.
Ended == m_reachedHistoryEnd /\ ~misled
HistEnd ==
  Ended =>
    /\ \A u \in Unseen : AboveRows(u)
    /\ \A i \in 1..Len(requests) : requests[i].extra # "prepend"
    /\ \A k \in 1..Len(inbox) : IsPage(inbox[k]) => inbox[k].extra # "prepend"

Coverage == Covered /\ Asked /\ Came /\ HistEnd

\* An own message on its way is newer than all that is unseen, and it has a row
\* once the answer to sendMessage has been handled.
IsEcho(e, x) == e.kind = "message" /\ e.message.id = x
IsRenaming(e, x) == e.kind = "updateMessageSendSucceeded" /\ e.old_message_id = x
Own ==
  {x \in 1..newest : \/ x \in sending
                     \/ \E k \in 1..Len(inbox) : IsEcho(inbox[k], x) \/ IsRenaming(inbox[k], x)}
OwnNewest ==
  \A x \in Own :
    /\ \A u \in Unseen : u < x
    /\ m_lastMessageInbox < x
    /\ ~isUpdateConnected => m_lastMessage < x
EchoBefore(x, k) == \E j \in 1..(k - 1) : IsEcho(inbox[j], x)
OwnRows ==
  /\ \A x \in sending : x \in TrueRows \/ EchoBefore(x, Len(inbox) + 1)
  /\ \A k \in 1..Len(inbox) : inbox[k].kind = "updateMessageSendSucceeded" =>
       inbox[k].old_message_id \in TrueRows \/ EchoBefore(inbox[k].old_message_id, k)

\* A message goes once, and what is under way came before it went.
Once ==
  \A k \in 1..Len(inbox) :
    /\ Removes(inbox[k]) \cap chat = {}
    /\ \A l \in 1..Len(inbox) : l # k => Removes(inbox[k]) \cap Removes(inbox[l]) = {}
GoneAfter(id, k) == \E l \in (k + 1)..Len(inbox) : id \in Removes(inbox[l])
Live ==
  /\ \A id \in TrueRows : id \in chat \/ GoneAfter(id, 0)
  /\ \A k \in 1..Len(inbox) : \A id \in Brings(inbox[k]) : id \in chat \/ GoneAfter(id, k)
NewsLast ==
  \A k \in 1..Len(inbox) : IsNew(inbox[k]) =>
    \A y \in Brings(inbox[k]) : \A id \in chat : Announced(id) \/ id < y

\* Before the chat is opened; from then on the list is connected or
\* m_lastMessage bounds what is unseen.
AnnouncedAfter(id, k) == \E j \in (k + 1)..Len(inbox) : IsNew(inbox[j]) /\ id \in Brings(inbox[j])
Closed ==
  ~m_peerId =>
    /\ m_messages = <<>> /\ ~isUpdateConnected /\ requests = <<>> /\ sending = {}
    /\ ~Ended /\ m_lastMessage = 0
    /\ \A k \in 1..Len(inbox) :
         ~IsPage(inbox[k]) /\ inbox[k].kind \notin {"message", "updateMessageSendSucceeded"}
    /\ \A id \in chat : id <= lastMessageId \/ id \in dropped \/ Announced(id)
    /\ \A k \in 1..Len(inbox) : inbox[k].kind = "updateChatLastMessage" =>
         \A id \in chat : id <= inbox[k].id \/ AnnouncedAfter(id, k)
Known == m_peerId /\ ~isUpdateConnected => \A u \in Unseen : u <= m_lastMessage

Deliveries == Once /\ Live /\ NewsLast /\ SeparatorBelow(m_messages)
OwnInv == OwnNewest /\ OwnRows
CoverInv == Deliveries /\ OwnInv /\ Closed /\ Known /\ Coverage

\* A step that is no handler: what TDLib sends, and what happens to the chat.
Sound(e, k) ==
  /\ Brings(e) \subseteq chat'
  /\ Removes(e) \subseteq chat \ chat'
  /\ Removes(e) # {} => k = 1
  /\ IsNew(e) => k = 1 /\ \A id \in Brings(e) : id = newest + 1
  /\ \A x : IsEcho(e, x) => x = newest + 1
  /\ \A x : IsRenaming(e, x) => x \in sending
  /\ e.kind = "updateChatLastMessage" => \A id \in chat' : id <= e.id
Sends(es) ==
  /\ Follow(es)
  /\ newest' \in {newest, newest + 1}
  /\ chat' \subseteq chat \cup {newest + 1}
  /\ sending' \subseteq sending \cup {newest + 1}
  /\ \A id \in chat' \ chat : Len(es) >= 1 /\ IsNew(es[1]) /\ id \in Brings(es[1])
  /\ \A id \in chat \ chat' : Len(es) >= 1 /\ id \in Removes(es[1])
  /\ \A k \in 1..Len(es) : Sound(es[k], k)
  /\ newest + 1 \in sending' => \E k \in 1..Len(es) : IsEcho(es[k], newest + 1)

LEMMA SoundNews ==
  ASSUME NEW id \in chat', id = newest + 1, NEW own
  PROVE  Sound(NewMessage(id, own), 1)
<1>1. PICK e : e = NewMessage(id, own)
  OBVIOUS
<1>2. e.kind = "updateNewMessage"
  BY <1>1 DEF NewMessage
<1>3. IsNew(e) /\ Brings(e) = {id} /\ Removes(e) = {}
  BY <1>1, EventKinds, Zenon
<1> QED BY <1>1, <1>2, <1>3 DEF Sound, IsEcho, IsRenaming

LEMMA SoundLast ==
  ASSUME NEW id, \A x \in chat' : x <= id, NEW k
  PROVE  Sound(LastMessage(id), k)
<1>1. PICK e : e = LastMessage(id)
  OBVIOUS
<1>2. e.kind = "updateChatLastMessage" /\ e.id = id
  BY <1>1 DEF LastMessage
<1>3. ~IsNew(e) /\ Brings(e) = {} /\ Removes(e) = {}
  BY <1>1, EventKinds, Zenon
<1> QED BY <1>1, <1>2, <1>3 DEF Sound, IsEcho, IsRenaming

LEMMA SoundEcho ==
  ASSUME NEW m, m.id \in chat', m.id = newest + 1, NEW k
  PROVE  Sound([kind |-> "message", message |-> m], k)
<1>1. PICK e : e = [kind |-> "message", message |-> m]
  OBVIOUS
<1>2. e.kind = "message" /\ e.message = m
  BY <1>1
<1>3. ~IsNew(e) /\ Brings(e) = {m.id} /\ Removes(e) = {}
  BY <1>1, EventKinds, Zenon
<1> QED BY <1>1, <1>2, <1>3 DEF Sound, IsEcho, IsRenaming

LEMMA SoundRenaming ==
  ASSUME NEW old \in sending, old \in chat \ chat', NEW id \in chat', id = newest + 1
  PROVE  Sound([kind |-> "updateMessageSendSucceeded", old_message_id |-> old, id |-> id], 1)
<1>1. PICK e : e = [kind |-> "updateMessageSendSucceeded", old_message_id |-> old, id |-> id]
  OBVIOUS
<1>2. e.kind = "updateMessageSendSucceeded" /\ e.old_message_id = old
  BY <1>1
<1>3. Brings(e) = {id} /\ Removes(e) = {old}
  BY <1>1, EventKinds, Zenon
<1> QED BY <1>1, <1>2, <1>3 DEF Sound, IsEcho, IsRenaming

LEMMA SoundDeletion ==
  ASSUME NEW id \in chat \ chat'
  PROVE  Sound([kind |-> "updateDeleteMessages", id |-> id], 1)
<1>1. PICK e : e = [kind |-> "updateDeleteMessages", id |-> id]
  OBVIOUS
<1>2. e.kind = "updateDeleteMessages"
  BY <1>1
<1>3. ~IsNew(e) /\ Brings(e) = {} /\ Removes(e) = {id}
  BY <1>1, EventKinds, Zenon
<1> QED BY <1>1, <1>2, <1>3 DEF Sound, IsEcho, IsRenaming

LEMMA SoundPage ==
  ASSUME NEW e, e.kind = "messages", Brings(e) \subseteq chat', NEW k
  PROVE  Sound(e, k)
<1>1. ~IsNew(e) /\ Removes(e) = {}
  BY DEF IsNew, Removes
<1> QED BY <1>1 DEF Sound, IsEcho, IsRenaming

LEMMA MessageArrivesSends ==
  ASSUME Types, MessageArrives
  PROVE  \E es :
           /\ Sends(es)
           /\ \A k \in 1..Len(es) : es[k].kind \in {"updateNewMessage", "updateChatLastMessage"}
<1>1. PICK n \in Nat : n = newest
  BY DEF Types
<1>2. newest' = n + 1 /\ chat' = chat \cup {n + 1} /\ sending' = sending /\ chat \subseteq 1..n
      /\ sending \subseteq chat
  BY <1>1 DEF MessageArrives, Types, ServerTypes
<1>3. PICK own : own = FALSE
  OBVIOUS
<1>4. PICK a, b : a = NewMessage(n + 1, own) /\ b = LastMessage(n + 1)
  OBVIOUS
<1>5. PICK es : es = <<a, b>>
  OBVIOUS
<1>6. Follow(es)
  BY <1>1, <1>3, <1>4, <1>5, ArrivesSent, Zenon
<1>7. Sound(a, 1)
  BY <1>1, <1>2, <1>4, SoundNews
<1>8. Sound(b, 2)
  <2>1. \A x \in chat' : x <= n + 1
    BY <1>2
  <2> QED BY <1>4, <2>1, SoundLast
<1>9. a.kind = "updateNewMessage" /\ b.kind = "updateChatLastMessage"
  BY <1>4 DEF NewMessage, LastMessage
<1>10. IsNew(a) /\ Brings(a) = {n + 1}
  BY <1>4, EventKinds, Zenon
<1>11. Len(es) = 2 /\ es[1] = a /\ es[2] = b
  BY <1>5
<1>12. \A k \in 1..Len(es) : Sound(es[k], k)
  <2>1. \A k \in 1..Len(es) : k = 1 \/ k = 2
    BY <1>11
  <2> QED BY <1>7, <1>8, <1>11, <2>1
<1>13. n + 1 \notin sending' /\ chat' \ chat \subseteq {n + 1} /\ chat \ chat' = {}
  BY <1>2
<1>14. \A id \in chat' \ chat : Len(es) >= 1 /\ IsNew(es[1]) /\ id \in Brings(es[1])
  BY <1>10, <1>11, <1>13
<1>15. Sends(es)
  BY <1>1, <1>2, <1>6, <1>12, <1>13, <1>14 DEF Sends
<1>16. \A k \in 1..Len(es) : es[k].kind \in {"updateNewMessage", "updateChatLastMessage"}
  BY <1>9, <1>11
<1> QED BY <1>15, <1>16

LEMMA sendMessageSends ==
  ASSUME Types, sendMessage
  PROVE  \E es : Sends(es) /\ \A k \in 1..Len(es) : ~IsPage(es[k])
<1>1. PICK n \in Nat : n = newest
  BY DEF Types
<1>2. newest' = n + 1 /\ chat' = chat \cup {n + 1} /\ sending' = sending \cup {n + 1}
      /\ chat \subseteq 1..n /\ sending \subseteq chat
  BY <1>1 DEF sendMessage, Types, ServerTypes
<1>3. PICK own : own = TRUE
  OBVIOUS
<1>4. PICK m : m = [id |-> n + 1, sending |-> own]
  OBVIOUS
<1>5. PICK a, b : a = NewMessage(n + 1, own) /\ b = LastMessage(n + 1)
  OBVIOUS
<1>6. PICK c : c = [kind |-> "message", message |-> m]
  OBVIOUS
<1>7. PICK es : es = <<a, b, c>>
  OBVIOUS
<1>8. Follow(es)
  BY <1>1, <1>3, <1>4, <1>5, <1>6, <1>7, SendSent, Zenon
<1>9. Sound(a, 1)
  BY <1>1, <1>2, <1>5, SoundNews
<1>10. Sound(b, 2)
  <2>1. \A x \in chat' : x <= n + 1
    BY <1>2
  <2> QED BY <1>5, <2>1, SoundLast
<1>11. m.id = n + 1
  BY <1>4
<1>12. Sound(c, 3)
  BY <1>1, <1>2, <1>6, <1>11, SoundEcho
<1>13. IsNew(a) /\ Brings(a) = {n + 1} /\ ~IsPage(a)
  BY <1>5, EventKinds, Zenon
<1>14. ~IsPage(b) /\ ~IsPage(c)
  BY <1>5, <1>6, EventKinds, Zenon
<1>15. IsEcho(c, n + 1)
  BY <1>6, <1>11 DEF IsEcho
<1>16. Len(es) = 3 /\ es[1] = a /\ es[2] = b /\ es[3] = c
  BY <1>7
<1>17. \A k \in 1..Len(es) : k = 1 \/ k = 2 \/ k = 3
  BY <1>16
<1>18. \A k \in 1..Len(es) : Sound(es[k], k) /\ ~IsPage(es[k])
  BY <1>9, <1>10, <1>12, <1>13, <1>14, <1>16, <1>17
<1>19. chat' \ chat \subseteq {n + 1} /\ chat \ chat' = {}
  BY <1>2
<1>20. \A id \in chat' \ chat : Len(es) >= 1 /\ IsNew(es[1]) /\ id \in Brings(es[1])
  BY <1>13, <1>16, <1>19
<1>21. 3 \in 1..Len(es) /\ IsEcho(es[3], n + 1)
  BY <1>15, <1>16
<1>22. Sends(es)
  BY <1>1, <1>2, <1>8, <1>18, <1>19, <1>20, <1>21 DEF Sends
<1> QED BY <1>18, <1>22

LEMMA SendSucceedsSends ==
  ASSUME Types, NEW id, SendSucceeds(id)
  PROVE  \E es : Sends(es) /\ \A k \in 1..Len(es) : ~IsPage(es[k])
<1>1. PICK n \in Nat : n = newest
  BY DEF Types
<1>2. /\ newest' = n + 1 /\ chat' = (chat \ {id}) \cup {n + 1} /\ sending' = sending \ {id}
      /\ chat \subseteq 1..n /\ sending \subseteq chat /\ id \in sending
  BY <1>1 DEF SendSucceeds, Settle, Types, ServerTypes
<1>3. PICK a : a = [kind |-> "updateMessageSendSucceeded", old_message_id |-> id, id |-> n + 1]
  OBVIOUS
<1>4. PICK es : es = <<a>>
  OBVIOUS
<1>5. Follow(es)
  BY <1>1, <1>3, <1>4, SuccessSent
<1>6. id \in 1..n /\ n + 1 \notin 1..n /\ id # n + 1
  BY <1>2
<1>7. Sound(a, 1)
  <2>1. id \in chat \ chat' /\ n + 1 \in chat'
    BY <1>2, <1>6
  <2> QED BY <1>1, <1>2, <1>3, <2>1, SoundRenaming
<1>8. IsNew(a) /\ Brings(a) = {n + 1} /\ Removes(a) = {id} /\ ~IsPage(a)
  BY <1>3, EventKinds, Zenon
<1>9. Len(es) = 1 /\ es[1] = a
  BY <1>4
<1>10. \A k \in 1..Len(es) : Sound(es[k], k) /\ ~IsPage(es[k])
  <2>1. \A k \in 1..Len(es) : k = 1
    BY <1>9
  <2> QED BY <1>7, <1>8, <1>9, <2>1
<1>11. chat' \ chat \subseteq {n + 1} /\ chat \ chat' \subseteq {id} /\ n + 1 \notin sending'
  BY <1>2, <1>6
<1>12. \A x \in chat' \ chat : Len(es) >= 1 /\ IsNew(es[1]) /\ x \in Brings(es[1])
  BY <1>8, <1>9, <1>11
<1>13. \A x \in chat \ chat' : Len(es) >= 1 /\ x \in Removes(es[1])
  BY <1>8, <1>9, <1>11
<1>14. Sends(es)
  BY <1>1, <1>2, <1>5, <1>10, <1>11, <1>12, <1>13 DEF Sends
<1> QED BY <1>10, <1>14

LEMMA DeleteSends ==
  ASSUME Types, NEW id \in chat, Delete(id), newest' = newest
  PROVE  \E es :
           /\ Sends(es)
           /\ \A k \in 1..Len(es) : es[k].kind \in {"updateDeleteMessages", "updateChatLastMessage"}
<1>1. PICK n \in Nat : n = newest
  BY DEF Types
<1>2. newest' = n /\ chat' = chat \ {id} /\ sending' = sending \ {id} /\ chat \subseteq 1..n
      /\ sending \subseteq chat
  BY <1>1 DEF Delete, Types, ServerTypes
<1>3. PICK last \in 0..n :
        /\ Follow(<<[kind |-> "updateDeleteMessages", id |-> id], LastMessage(last)>>)
        /\ \A x \in chat' : x <= last
  BY <1>1, DeleteSent
<1>4. PICK a, b : a = [kind |-> "updateDeleteMessages", id |-> id] /\ b = LastMessage(last)
  OBVIOUS
<1>5. PICK es : es = <<a, b>>
  OBVIOUS
<1>6. Follow(es)
  BY <1>3, <1>4, <1>5
<1>7. Sound(a, 1)
  BY <1>2, <1>4, SoundDeletion
<1>8. Sound(b, 2)
  BY <1>3, <1>4, SoundLast
<1>9. a.kind = "updateDeleteMessages" /\ b.kind = "updateChatLastMessage" /\ Removes(a) = {id}
  BY <1>4, EventKinds DEF LastMessage
<1>10. Len(es) = 2 /\ es[1] = a /\ es[2] = b
  BY <1>5
<1>11. \A k \in 1..Len(es) : k = 1 \/ k = 2
  BY <1>10
<1>12. \A k \in 1..Len(es) : Sound(es[k], k)
  BY <1>7, <1>8, <1>10, <1>11
<1>13. chat' \ chat = {} /\ chat \ chat' = {id} /\ n + 1 \notin sending'
  BY <1>2
<1>14. \A x \in chat \ chat' : Len(es) >= 1 /\ x \in Removes(es[1])
  BY <1>9, <1>10, <1>13
<1>15. Sends(es)
  BY <1>1, <1>2, <1>6, <1>12, <1>13, <1>14 DEF Sends
<1>16. \A k \in 1..Len(es) : es[k].kind \in {"updateDeleteMessages", "updateChatLastMessage"}
  BY <1>9, <1>10, <1>11
<1> QED BY <1>15, <1>16

LEMMA OtherSends ==
  ASSUME Types, AnswerOther
  PROVE  \E es : Sends(es) /\ \A k \in 1..Len(es) : es[k].kind = "messages" /\ ~IsPage(es[k])
<1>1. PICK n \in Nat : n = newest
  BY DEF Types
<1>2. /\ newest' = n /\ chat' = chat /\ sending' = sending
      /\ chat \subseteq 1..n /\ sending \subseteq chat
  BY <1>1 DEF AnswerOther, server, Types, ServerTypes
<1>3. PICK a : a = Messages("other", Highest(chat, 1))
  OBVIOUS
<1>4. PICK es : es = <<a>>
  OBVIOUS
<1>5. Follow(es)
  BY <1>3, <1>4, OtherSent
<1>6. a.kind = "messages" /\ ~IsPage(a) /\ Brings(a) = {}
  BY <1>3, EventKinds DEF Messages
<1>7. Sound(a, 1)
  BY <1>6, SoundPage
<1>8. Len(es) = 1 /\ es[1] = a
  BY <1>4
<1>9. \A k \in 1..Len(es) : k = 1
  BY <1>8
<1>10. \A k \in 1..Len(es) : Sound(es[k], k) /\ es[k].kind = "messages" /\ ~IsPage(es[k])
  BY <1>6, <1>7, <1>8, <1>9
<1>11. n + 1 \notin sending' /\ chat' \ chat = {} /\ chat \ chat' = {}
  BY <1>2
<1>12. Sends(es)
  BY <1>1, <1>2, <1>5, <1>10, <1>11 DEF Sends
<1> QED BY <1>10, <1>12

LEMMA EndSends ==
  ASSUME Types, AnswerElsewhere
  PROVE  \E es : Sends(es) /\ \A k \in 1..Len(es) : es[k].kind = "messages" /\ ~IsPage(es[k])
<1>1. PICK n \in Nat : n = newest
  BY DEF Types
<1>2. /\ newest' = n /\ chat' = chat /\ sending' = sending
      /\ chat \subseteq 1..n /\ sending \subseteq chat
  BY <1>1 DEF AnswerElsewhere, server, Types, ServerTypes
<1>3. PICK a : a = EndElsewhere
  OBVIOUS
<1>4. PICK es : es = <<a>>
  OBVIOUS
<1>5. Follow(es)
  BY <1>3, <1>4, EndSent
<1>6. a.kind = "messages" /\ ~IsPage(a) /\ Brings(a) = {}
  BY <1>3, EventKinds DEF EndElsewhere
<1>7. Sound(a, 1)
  BY <1>6, SoundPage
<1>8. Len(es) = 1 /\ es[1] = a
  BY <1>4
<1>9. \A k \in 1..Len(es) : k = 1
  BY <1>8
<1>10. \A k \in 1..Len(es) : Sound(es[k], k) /\ es[k].kind = "messages" /\ ~IsPage(es[k])
  BY <1>6, <1>7, <1>8, <1>9
<1>11. n + 1 \notin sending' /\ chat' \ chat = {} /\ chat \ chat' = {}
  BY <1>2
<1>12. Sends(es)
  BY <1>1, <1>2, <1>5, <1>10, <1>11 DEF Sends
<1> QED BY <1>10, <1>12

LEMMA NothingSends ==
  ASSUME Types, inbox' = inbox, UNCHANGED server
  PROVE  Sends(<<>>)
<1>1. PICK n \in Nat : n = newest
  BY DEF Types
<1>2. /\ newest' = n /\ chat' = chat /\ sending' = sending
      /\ chat \subseteq 1..n /\ sending \subseteq chat
  BY <1>1 DEF server, Types, ServerTypes
<1>3. Follow(<<>>)
  BY NothingSent
<1>4. n + 1 \notin sending' /\ chat' \ chat = {} /\ chat \ chat' = {}
  BY <1>2
<1>5. \A k \in 1..Len(<<>>) : FALSE
  OBVIOUS
<1> QED BY <1>1, <1>2, <1>3, <1>4, <1>5 DEF Sends

LEMMA HistorySends ==
  ASSUME Types, Single, NEW i \in 1..Len(requests), AnswerHistory(i)
  PROVE  \E r \in Request(newest) : \E S, e : Answered(r, S, e) /\ Sends(<<e>>)
<1>1. PICK n \in Nat : n = newest
  BY DEF Types
<1>2. PICK r \in Request(n) : \E S, e : Answered(r, S, e)
  BY <1>1, HistorySent
<1>3. PICK S, e : Answered(r, S, e)
  BY <1>2
<1>4. /\ newest' = n /\ chat' = chat /\ sending' = sending
      /\ chat \subseteq 1..n /\ sending \subseteq chat
  BY <1>1 DEF AnswerHistory, server, Types, ServerTypes
<1>5. Sound(e, 1)
  <2>1. e.kind = "messages" /\ Brings(e) \subseteq chat'
    BY <1>3, <1>4 DEF Answered, AnswerOf
  <2> QED BY <2>1, SoundPage
<1>6. PICK es : es = <<e>>
  OBVIOUS
<1>7. Len(es) = 1 /\ es[1] = e
  BY <1>6
<1>8. \A k \in 1..Len(es) : Sound(es[k], k)
  <2>1. \A k \in 1..Len(es) : k = 1
    BY <1>7
  <2> QED BY <1>5, <1>7, <2>1
<1>9. Follow(es)
  BY <1>3, <1>6 DEF Answered
<1>10. n + 1 \notin sending' /\ chat' \ chat = {} /\ chat \ chat' = {}
  BY <1>4
<1>11. Sends(es)
  BY <1>1, <1>4, <1>8, <1>9, <1>10 DEF Sends
<1> QED BY <1>1, <1>3, <1>6, <1>11

\* Ids that events take away have been given, and rows are made of RowIds.
LEMMA RemovesGiven ==
  ASSUME Types
  PROVE  \A k \in 1..Len(inbox) : Removes(inbox[k]) \subseteq 1..newest
<1> SUFFICES ASSUME NEW k \in 1..Len(inbox)
             PROVE  Removes(inbox[k]) \subseteq 1..newest
  OBVIOUS
<1>1. PICK n \in Nat : n = newest
  BY DEF Types
<1>2. inbox \in Seq(Delivery(n))
  BY <1>1 DEF Types, ServerTypes
<1>3. PICK e \in Delivery(n) : e = inbox[k]
  BY <1>2, ElementOfSeq
<1>4. e.kind = "updateDeleteMessages" => e.id \in 1..n
  BY DeliveryFacts
<1>5. e.kind = "updateMessageSendSucceeded" => e.old_message_id \in 1..n
  BY DeliveryFacts
<1> QED BY <1>1, <1>3, <1>4, <1>5 DEF Removes

LEMMA TrueRowsAreRows ==
  TrueRows \subseteq RowIds
BY DEF TrueRows, TrueOf, RowIds

\* Where the events of inbox are afterwards, and where those come from.
Stays(es) ==
  /\ Len(inbox) \in Nat /\ Len(es) \in Nat /\ Len(inbox') = Len(inbox) + Len(es)
  /\ \A k \in 1..Len(inbox) : k \in 1..Len(inbox') /\ inbox'[k] = inbox[k]
  /\ \A k \in 1..Len(es) :
       /\ Len(inbox) + k \in 1..Len(inbox') /\ Len(inbox) + k > Len(inbox)
       /\ inbox'[Len(inbox) + k] = es[k]
  /\ \A k \in 1..Len(inbox') :
       \/ k \in 1..Len(inbox) /\ inbox'[k] = inbox[k]
       \/ \E j \in 1..Len(es) : k = Len(inbox) + j /\ inbox'[k] = es[j]

LEMMA FollowStays ==
  ASSUME Types, NEW es, Follow(es)
  PROVE  Stays(es)
<1>1. PICK L \in Nat : L = Len(inbox)
  BY GivenBefore
<1>2. PICK M \in Nat : M = Len(es)
  BY DEF Follow
<1>3. Len(inbox') = L + M
  BY <1>1, <1>2 DEF Follow
<1>4. \A k \in 1..L : k \in 1..(L + M) /\ inbox'[k] = inbox[k]
  BY <1>1 DEF Follow
<1>5. \A k \in 1..M : L + k \in 1..(L + M) /\ L + k > L /\ inbox'[L + k] = es[k]
  BY <1>1, <1>2 DEF Follow
<1>6. \A k \in 1..(L + M) : k \notin 1..L => k - L \in 1..M /\ k = L + (k - L)
  OBVIOUS
<1>7. \A k \in 1..(L + M) : k \notin 1..L =>
        \E j \in 1..M : k = L + j /\ inbox'[k] = es[j]
  <2> SUFFICES ASSUME NEW k \in 1..(L + M), k \notin 1..L
               PROVE  \E j \in 1..M : k = L + j /\ inbox'[k] = es[j]
    OBVIOUS
  <2>1. k - L \in 1..M /\ k = L + (k - L)
    BY <1>6
  <2>2. inbox'[L + (k - L)] = es[k - L]
    BY <1>5, <2>1
  <2> QED BY <2>1, <2>2
<1>8. \A k \in 1..(L + M) :
        \/ k \in 1..L /\ inbox'[k] = inbox[k]
        \/ \E j \in 1..M : k = L + j /\ inbox'[k] = es[j]
  BY <1>4, <1>7
<1> QED BY <1>1, <1>2, <1>3, <1>4, <1>5, <1>8 DEF Stays

LEMMA SendsOnce ==
  ASSUME Types, Once, NEW es, Sends(es)
  PROVE  Once'
<1>1. Stays(es) /\ newest \in Nat
  BY FollowStays, GivenBefore DEF Sends
<1>2. /\ chat' \subseteq chat \cup {newest + 1}
      /\ \A j \in 1..Len(es) :
           Removes(es[j]) \subseteq chat \ chat' /\ (Removes(es[j]) # {} => j = 1)
  BY DEF Sends, Sound
<1>3. ASSUME NEW k \in 1..Len(inbox)
      PROVE  Removes(inbox[k]) \cap chat = {} /\ Removes(inbox[k]) \cap chat' = {}
  <2>1. Removes(inbox[k]) \cap chat = {}
    BY DEF Once
  <2>2. newest + 1 \notin Removes(inbox[k])
    <3>1. Removes(inbox[k]) \subseteq 1..newest
      BY RemovesGiven
    <3>2. newest + 1 \notin 1..newest
      BY <1>1
    <3> QED BY <3>1, <3>2
  <2> QED BY <1>2, <2>1, <2>2
<1>4. ASSUME NEW k \in 1..Len(inbox'), NEW l \in 1..Len(inbox'), l # k
      PROVE  Removes(inbox'[k]) \cap Removes(inbox'[l]) = {}
  <2>1. CASE k \in 1..Len(inbox) /\ l \in 1..Len(inbox)
    <3>1. inbox'[k] = inbox[k] /\ inbox'[l] = inbox[l]
      BY <1>1, <2>1 DEF Stays
    <3> QED BY <1>4, <2>1, <3>1 DEF Once
  <2>2. CASE k \in 1..Len(inbox) /\ l \notin 1..Len(inbox)
    <3>1. PICK j \in 1..Len(es) : inbox'[l] = es[j]
      BY <1>1, <2>2 DEF Stays
    <3>2. inbox'[k] = inbox[k]
      BY <1>1, <2>2 DEF Stays
    <3> QED BY <1>2, <1>3, <2>2, <3>1, <3>2
  <2>3. CASE k \notin 1..Len(inbox) /\ l \in 1..Len(inbox)
    <3>1. PICK j \in 1..Len(es) : inbox'[k] = es[j]
      BY <1>1, <2>3 DEF Stays
    <3>2. inbox'[l] = inbox[l]
      BY <1>1, <2>3 DEF Stays
    <3> QED BY <1>2, <1>3, <2>3, <3>1, <3>2
  <2>4. CASE k \notin 1..Len(inbox) /\ l \notin 1..Len(inbox)
    <3>1. PICK j \in 1..Len(es) : k = Len(inbox) + j /\ inbox'[k] = es[j]
      BY <1>1, <2>4 DEF Stays
    <3>2. PICK i \in 1..Len(es) : l = Len(inbox) + i /\ inbox'[l] = es[i]
      BY <1>1, <2>4 DEF Stays
    <3>3. i # j
      BY <1>4, <3>1, <3>2
    <3>4. Removes(es[i]) = {} \/ Removes(es[j]) = {}
      BY <1>2, <3>3
    <3> QED BY <3>1, <3>2, <3>4
  <2> QED BY <2>1, <2>2, <2>3, <2>4
<1>5. ASSUME NEW k \in 1..Len(inbox')
      PROVE  Removes(inbox'[k]) \cap chat' = {}
  <2>1. CASE k \in 1..Len(inbox)
    <3>1. inbox'[k] = inbox[k]
      BY <1>1, <2>1 DEF Stays
    <3> QED BY <1>3, <2>1, <3>1
  <2>2. CASE k \notin 1..Len(inbox)
    <3>1. PICK j \in 1..Len(es) : inbox'[k] = es[j]
      BY <1>1, <2>2 DEF Stays
    <3> QED BY <1>2, <3>1
  <2> QED BY <2>1, <2>2
<1> QED BY <1>4, <1>5 DEF Once

\* What has gone by the end of inbox has gone later still.
LEMMA SendsGone ==
  ASSUME Types, NEW es, Sends(es), NEW k \in 0..Len(inbox), NEW id, id \in chat \/ GoneAfter(id, k)
  PROVE  id \in chat' \/ GoneAfter(id, k)'
<1>1. Stays(es)
  BY FollowStays DEF Sends
<1>2. PICK L \in Nat : L = Len(inbox)
  BY <1>1 DEF Stays
<1>3. PICK M \in Nat : M = Len(es)
  BY <1>1 DEF Stays
<1>4. CASE GoneAfter(id, k)
  <2>1. PICK l \in (k + 1)..L : id \in Removes(inbox[l])
    BY <1>2, <1>4 DEF GoneAfter
  <2>2. l \in 1..L /\ l \in (k + 1)..(L + M)
    BY <1>2, <2>1
  <2>3. inbox'[l] = inbox[l] /\ Len(inbox') = L + M
    BY <1>1, <1>2, <1>3, <2>2 DEF Stays
  <2> QED BY <2>1, <2>2, <2>3 DEF GoneAfter
<1>5. CASE id \in chat \ chat'
  <2>1. Len(es) >= 1 /\ id \in Removes(es[1])
    BY <1>5 DEF Sends
  <2>2. 1 \in 1..M /\ L + 1 \in (k + 1)..(L + M)
    BY <1>2, <1>3, <2>1
  <2>3. inbox'[L + 1] = es[1] /\ Len(inbox') = L + M
    BY <1>1, <1>2, <1>3, <2>2 DEF Stays
  <2> QED BY <2>1, <2>2, <2>3 DEF GoneAfter
<1> QED BY <1>4, <1>5

LEMMA SendsLive ==
  ASSUME Types, Live, NEW es, Sends(es), TrueRows' \subseteq TrueRows
  PROVE  Live'
<1>1. Stays(es)
  BY FollowStays DEF Sends
<1>2. \A id \in TrueRows' : id \in chat' \/ GoneAfter(id, 0)'
  <2>1. 0 \in 0..Len(inbox)
    BY <1>1 DEF Stays
  <2>2. \A id \in TrueRows' : id \in chat \/ GoneAfter(id, 0)
    BY DEF Live
  <2> QED BY <2>1, <2>2, SendsGone
<1>3. ASSUME NEW k \in 1..Len(inbox'), NEW id \in Brings(inbox'[k])
      PROVE  id \in chat' \/ GoneAfter(id, k)'
  <2>1. CASE k \in 1..Len(inbox)
    <3>1. inbox'[k] = inbox[k] /\ k \in 0..Len(inbox)
      BY <1>1, <2>1 DEF Stays
    <3>2. id \in chat \/ GoneAfter(id, k)
      BY <1>3, <2>1, <3>1 DEF Live
    <3> QED BY <3>1, <3>2, SendsGone
  <2>2. CASE k \notin 1..Len(inbox)
    <3>1. PICK j \in 1..Len(es) : inbox'[k] = es[j]
      BY <1>1, <2>2 DEF Stays
    <3>2. Brings(es[j]) \subseteq chat'
      BY DEF Sends, Sound
    <3> QED BY <1>3, <3>1, <3>2
  <2> QED BY <2>1, <2>2
<1> QED BY <1>2, <1>3 DEF Live

\* What was announced stays so, and nothing else is but the new message.
LEMMA SendsAnnounced ==
  ASSUME Types, NEW es, Sends(es)
  PROVE  /\ \A id : Announced(id) => Announced(id)'
         /\ \A id \in chat' \ chat : Announced(id)' /\ id = newest + 1
<1>1. Stays(es)
  BY FollowStays DEF Sends
<1>2. \A id : Announced(id) => Announced(id)'
  BY <1>1 DEF Stays, Announced
<1>3. ASSUME NEW id \in chat' \ chat
      PROVE  Announced(id)' /\ id = newest + 1
  <2>1. Len(es) >= 1 /\ IsNew(es[1]) /\ id \in Brings(es[1]) /\ id = newest + 1
    BY DEF Sends
  <2>2. 1 \in 1..Len(es)
    BY <1>1, <2>1 DEF Stays
  <2>3. Len(inbox) + 1 \in 1..Len(inbox') /\ inbox'[Len(inbox) + 1] = es[1]
    BY <1>1, <2>2 DEF Stays
  <2> QED BY <2>1, <2>3 DEF Announced
<1> QED BY <1>2, <1>3

LEMMA SendsNewsLast ==
  ASSUME Types, NewsLast, NEW es, Sends(es)
  PROVE  NewsLast'
<1>1. Stays(es) /\ newest \in Nat
  BY FollowStays, GivenBefore DEF Sends
<1>2. /\ \A id : Announced(id) => Announced(id)'
      /\ \A id \in chat' \ chat : Announced(id)'
  BY SendsAnnounced
<1>3. chat \subseteq 1..newest
  BY DEF Types, ServerTypes
<1> SUFFICES ASSUME NEW k \in 1..Len(inbox'), IsNew(inbox'[k]), NEW y \in Brings(inbox'[k]),
                    NEW id \in chat'
             PROVE  Announced(id)' \/ id < y
  BY DEF NewsLast
<1>4. CASE id \notin chat
  BY <1>2, <1>4
<1>5. CASE id \in chat /\ k \in 1..Len(inbox)
  <2>1. inbox'[k] = inbox[k]
    BY <1>1, <1>5 DEF Stays
  <2>2. Announced(id) \/ id < y
    BY <1>5, <2>1 DEF NewsLast
  <2> QED BY <1>2, <2>2
<1>6. CASE id \in chat /\ k \notin 1..Len(inbox)
  <2>1. PICK j \in 1..Len(es) : inbox'[k] = es[j]
    BY <1>1, <1>6 DEF Stays
  <2>2. y = newest + 1
    BY <2>1 DEF Sends, Sound
  <2> QED BY <1>1, <1>3, <1>6, <2>2
<1> QED BY <1>4, <1>5, <1>6

\* A step that is no handler lets nothing become unseen.
LEMMA SendsUnseen ==
  ASSUME Types, NEW es, Sends(es),
         TrueRows \cap chat' \subseteq TrueRows', dropped \subseteq dropped'
  PROVE  Unseen' \subseteq Unseen
<1>1. /\ \A id : Announced(id) => Announced(id)'
      /\ \A id \in chat' \ chat : Announced(id)'
  BY SendsAnnounced
<1>2. \A u \in Unseen' : u \in chat' /\ u \notin TrueRows' /\ u \notin dropped' /\ ~Announced(u)'
  BY DEF Unseen
<1>3. \A u \in Unseen' : u \in chat /\ u \notin TrueRows /\ u \notin dropped /\ ~Announced(u)
  BY <1>1, <1>2
<1> QED BY <1>3 DEF Unseen

LEMMA SendsOwn ==
  ASSUME Types, NEW es, Sends(es)
  PROVE  Own' \subseteq Own \cup {newest + 1}
<1>1. Stays(es)
  BY FollowStays DEF Sends
<1>2. newest \in Nat
  BY DEF Types
<1> SUFFICES ASSUME NEW x \in Own', x # newest + 1
             PROVE  x \in Own
  OBVIOUS
<1>3. x \in 1..newest' /\ newest' \in {newest, newest + 1}
  BY DEF Own, Sends
<1>4. x \in 1..newest
  BY <1>2, <1>3
<1>5. CASE x \in sending'
  <2>1. x \in sending
    BY <1>5 DEF Sends
  <2> QED BY <1>4, <2>1 DEF Own
<1>6. CASE \E k \in 1..Len(inbox') : IsEcho(inbox'[k], x) \/ IsRenaming(inbox'[k], x)
  <2>1. PICK k \in 1..Len(inbox') : IsEcho(inbox'[k], x) \/ IsRenaming(inbox'[k], x)
    BY <1>6
  <2>2. CASE k \in 1..Len(inbox)
    <3>1. inbox'[k] = inbox[k]
      BY <1>1, <2>2 DEF Stays
    <3> QED BY <1>4, <2>1, <2>2, <3>1 DEF Own
  <2>3. CASE k \notin 1..Len(inbox)
    <3>1. PICK j \in 1..Len(es) : inbox'[k] = es[j]
      BY <1>1, <2>3 DEF Stays
    <3>2. Sound(es[j], j)
      BY DEF Sends
    <3>3. x \in sending
      BY <2>1, <3>1, <3>2 DEF Sound
    <3> QED BY <1>4, <3>3 DEF Own
  <2> QED BY <2>2, <2>3
<1> QED BY <1>5, <1>6 DEF Own

LEMMA SendsOwnNewest ==
  ASSUME Types, OwnNewest, NEW es, Sends(es), Unseen' \subseteq Unseen,
         m_lastMessageInbox' = m_lastMessageInbox, m_lastMessage' = m_lastMessage,
         isUpdateConnected' = isUpdateConnected
  PROVE  OwnNewest'
<1>1. Own' \subseteq Own \cup {newest + 1}
  BY SendsOwn
<1>2. /\ newest \in Nat /\ chat \subseteq 1..newest
      /\ m_lastMessageInbox \in 0..newest /\ m_lastMessage \in 0..newest
  BY DEF Types, ServerTypes, ViewTypes
<1>3. Unseen \subseteq 1..newest
  BY <1>2 DEF Unseen
<1> SUFFICES ASSUME NEW x \in Own'
             PROVE  /\ \A u \in Unseen : u < x
                    /\ m_lastMessageInbox < x
                    /\ ~isUpdateConnected => m_lastMessage < x
  BY DEF OwnNewest
<1>4. CASE x \in Own
  BY <1>4 DEF OwnNewest
<1>5. CASE x = newest + 1
  BY <1>2, <1>3, <1>5
<1> QED BY <1>1, <1>4, <1>5

LEMMA SendsOwnRows ==
  ASSUME Types, Types', Once, OwnRows, NEW es, Sends(es),
         \A x \in TrueRows : \/ x \in TrueRows'
                             \/ /\ x \in chat \ chat'
                                /\ \A j \in 1..Len(es) : ~IsRenaming(es[j], x)
  PROVE  OwnRows'
<1>1. Stays(es)
  BY FollowStays DEF Sends
<1>2. PICK L \in Nat : L = Len(inbox)
  BY <1>1 DEF Stays
<1>3. PICK M \in Nat : M = Len(es)
  BY <1>1 DEF Stays
<1>4. Len(inbox') = L + M
  BY <1>1, <1>2, <1>3 DEF Stays
<1>5. ASSUME NEW x, NEW k \in 1..(L + 1), EchoBefore(x, k)
      PROVE  EchoBefore(x, k)' /\ EchoBefore(x, Len(inbox) + 1)'
  <2>1. PICK j \in 1..(k - 1) : IsEcho(inbox[j], x)
    BY <1>5 DEF EchoBefore
  <2>2. j \in 1..L /\ j \in 1..((L + M + 1) - 1)
    BY <1>2, <1>3
  <2>3. inbox'[j] = inbox[j]
    BY <1>1, <1>2, <2>2 DEF Stays
  <2> QED BY <1>4, <2>1, <2>2, <2>3 DEF EchoBefore
<1>6. ASSUME NEW x \in sending'
      PROVE  x \in TrueRows' \/ EchoBefore(x, Len(inbox) + 1)'
  <2>1. x \in chat'
    BY DEF Types, ServerTypes
  <2>2. CASE x \in sending
    <3>1. x \in TrueRows \/ EchoBefore(x, L + 1)
      BY <1>2, <2>2 DEF OwnRows
    <3>2. L + 1 \in 1..(L + 1)
      OBVIOUS
    <3> QED BY <1>5, <2>1, <3>1, <3>2
  <2>3. CASE x \notin sending
    <3>1. x = newest + 1
      BY <2>3 DEF Sends
    <3>2. PICK j \in 1..Len(es) : IsEcho(es[j], x)
      BY <3>1 DEF Sends
    <3>3. L + j \in 1..((L + M + 1) - 1) /\ inbox'[L + j] = es[j]
      BY <1>1, <1>2, <1>3 DEF Stays
    <3> QED BY <1>4, <3>2, <3>3 DEF EchoBefore
  <2> QED BY <2>2, <2>3
<1>7. ASSUME NEW k \in 1..Len(inbox'), inbox'[k].kind = "updateMessageSendSucceeded",
             NEW x, x = inbox'[k].old_message_id
      PROVE  x \in TrueRows' \/ EchoBefore(x, k)'
  <2>1. CASE k \in 1..Len(inbox)
    <3>1. inbox'[k] = inbox[k] /\ k \in 1..(L + 1)
      BY <1>1, <1>2, <2>1 DEF Stays
    <3>2. x = inbox[k].old_message_id
      BY <1>7, <3>1
    <3>3. x \in TrueRows \/ EchoBefore(x, k)
      BY <1>7, <2>1, <3>1, <3>2 DEF OwnRows
    <3>4. x \notin chat
      <4>1. Removes(inbox[k]) = {x}
        BY <1>7, <3>1, <3>2 DEF Removes
      <4> QED BY <2>1, <4>1 DEF Once
    <3> QED BY <1>5, <3>1, <3>3, <3>4
  <2>2. CASE k \notin 1..Len(inbox)
    <3>1. PICK j \in 1..Len(es) : k = Len(inbox) + j /\ inbox'[k] = es[j]
      BY <1>1, <2>2 DEF Stays
    <3>2. x = es[j].old_message_id
      BY <1>7, <3>1
    <3>3. IsRenaming(es[j], x) /\ IsNew(es[j])
      BY <1>7, <3>1, <3>2 DEF IsRenaming, IsNew
    <3>4. x \in sending /\ j = 1
      BY <3>3 DEF Sends, Sound
    <3>5. x \in TrueRows \/ EchoBefore(x, L + 1)
      BY <1>2, <3>4 DEF OwnRows
    <3>6. k = L + 1 /\ L + 1 \in 1..(L + 1)
      BY <1>2, <3>1, <3>4
    <3> QED BY <1>5, <3>3, <3>5, <3>6
  <2> QED BY <2>1, <2>2
<1> QED BY <1>6, <1>7 DEF OwnRows, EchoBefore, IsEcho

LEMMA SendsClosed ==
  ASSUME Types, Closed, NEW es, Sends(es),
         ~m_peerId' =>
           /\ ~m_peerId /\ m_messages' = m_messages /\ isUpdateConnected' = isUpdateConnected
           /\ requests' = requests /\ sending' = sending
           /\ Ended' = Ended /\ m_lastMessage' = m_lastMessage
           /\ lastMessageId' = lastMessageId /\ dropped' = dropped
           /\ \A k \in 1..Len(es) :
                ~IsPage(es[k]) /\ es[k].kind \notin {"message", "updateMessageSendSucceeded"}
  PROVE  Closed'
<1> SUFFICES ASSUME ~m_peerId'
             PROVE  Closed'
  BY DEF Closed
<1>1. Stays(es)
  BY FollowStays DEF Sends
<1>2. PICK L \in Nat : L = Len(inbox)
  BY <1>1 DEF Stays
<1>3. PICK M \in Nat : M = Len(es)
  BY <1>1 DEF Stays
<1>4. Len(inbox') = L + M
  BY <1>1, <1>2, <1>3 DEF Stays
<1>5. /\ \A k \in 1..Len(inbox) :
           ~IsPage(inbox[k]) /\ inbox[k].kind \notin {"message", "updateMessageSendSucceeded"}
      /\ \A id \in chat : id <= lastMessageId \/ id \in dropped \/ Announced(id)
      /\ \A k \in 1..Len(inbox) : inbox[k].kind = "updateChatLastMessage" =>
           \A id \in chat : id <= inbox[k].id \/ AnnouncedAfter(id, k)
  BY DEF Closed
<1>6. ASSUME NEW k \in 1..Len(inbox')
      PROVE  ~IsPage(inbox'[k]) /\ inbox'[k].kind \notin {"message", "updateMessageSendSucceeded"}
  <2>1. CASE k \in 1..Len(inbox)
    BY <1>1, <1>5, <2>1 DEF Stays
  <2>2. CASE k \notin 1..Len(inbox)
    <3>1. PICK j \in 1..Len(es) : inbox'[k] = es[j]
      BY <1>1, <2>2 DEF Stays
    <3> QED BY <3>1
  <2> QED BY <2>1, <2>2
<1>7. ASSUME NEW id \in chat'
      PROVE  id <= lastMessageId' \/ id \in dropped' \/ Announced(id)'
  BY <1>5, SendsAnnounced
<1>8. ASSUME NEW k \in 1..Len(inbox'), inbox'[k].kind = "updateChatLastMessage", NEW id \in chat'
      PROVE  id <= inbox'[k].id \/ AnnouncedAfter(id, k)'
  <2>1. CASE k \in 1..Len(inbox) /\ id \in chat
    <3>1. inbox'[k] = inbox[k]
      BY <1>1, <2>1 DEF Stays
    <3>2. ASSUME AnnouncedAfter(id, k)
          PROVE  AnnouncedAfter(id, k)'
      <4>1. PICK j \in (k + 1)..L : IsNew(inbox[j]) /\ id \in Brings(inbox[j])
        BY <1>2, <3>2 DEF AnnouncedAfter
      <4>2. j \in 1..L /\ j \in (k + 1)..(L + M)
        BY <1>2, <1>3, <2>1
      <4>3. inbox'[j] = inbox[j]
        BY <1>1, <1>2, <4>2 DEF Stays
      <4> QED BY <1>4, <4>1, <4>2, <4>3 DEF AnnouncedAfter
    <3> QED BY <1>5, <1>8, <2>1, <3>1, <3>2
  <2>2. CASE k \in 1..Len(inbox) /\ id \notin chat
    <3>1. Len(es) >= 1 /\ IsNew(es[1]) /\ id \in Brings(es[1])
      BY <2>2 DEF Sends
    <3>2. 1 \in 1..Len(es) /\ L + 1 \in (k + 1)..(L + M)
      BY <1>2, <1>3, <2>2, <3>1
    <3>3. inbox'[L + 1] = es[1]
      BY <1>1, <1>2, <3>2 DEF Stays
    <3> QED BY <1>4, <3>1, <3>2, <3>3 DEF AnnouncedAfter
  <2>3. CASE k \notin 1..Len(inbox)
    <3>1. PICK j \in 1..Len(es) : inbox'[k] = es[j]
      BY <1>1, <2>3 DEF Stays
    <3>2. Sound(es[j], j)
      BY DEF Sends
    <3> QED BY <1>8, <3>1, <3>2 DEF Sound
  <2> QED BY <2>1, <2>2, <2>3
<1>9. /\ m_messages' = <<>> /\ ~isUpdateConnected' /\ requests' = <<>> /\ sending' = {}
      /\ ~Ended' /\ m_lastMessage' = 0
  BY DEF Closed
<1> QED BY <1>6, <1>7, <1>8, <1>9 DEF Closed

-----------------------------------------------------------------------------
(* A handler takes the head of inbox, and the rows change as it says. *)

Shifted ==
  /\ Len(inbox) \in Nat /\ Len(inbox) >= 1 /\ Len(inbox') = Len(inbox) - 1
  /\ \A k \in 1..Len(inbox') : k + 1 \in 1..Len(inbox) /\ inbox'[k] = inbox[k + 1]
\* Kinds that do nothing to a list that is empty and not connected.
Quietly(e) == ~IsPage(e) /\ e.kind \notin {"message", "updateMessageSendSucceeded"}
Handled ==
  /\ Shifted
  /\ chat' = chat /\ sending' = sending /\ newest' = newest /\ requests' = requests
  /\ m_peerId' = m_peerId
  /\ m_lastMessageInbox' = m_lastMessageInbox /\ m_lastOutboxId' = m_lastOutboxId
  /\ lastMessageId' = IF inbox[1].kind = "updateChatLastMessage" THEN inbox[1].id
                                                                 ELSE lastMessageId
  /\ dropped \subseteq dropped'
  /\ ~isUpdateConnected' => ~isUpdateConnected /\ m_lastMessage' = m_lastMessage
  /\ m_messages = <<>> /\ ~isUpdateConnected /\ Quietly(inbox[1]) =>
       /\ m_messages' = <<>> /\ ~isUpdateConnected'
       /\ (Ended' => Ended)
Shows ==
  /\ TrueRows' \subseteq (TrueRows \ Removes(inbox[1])) \cup Brings(inbox[1])
  /\ TrueRows \ Removes(inbox[1]) \subseteq TrueRows'
  /\ IsNew(inbox[1]) => Brings(inbox[1]) \subseteq TrueRows' \cup dropped'
  /\ inbox[1].kind = "message" => inbox[1].message.id \in TrueRows'
  /\ SeparatorBelow(m_messages)'

LEMMA ConsumeShifts ==
  ASSUME Types, NEW kind, Consume(kind)
  PROVE  Shifted /\ inbox[1].kind = kind /\ Received = inbox[1]
<1>1. PICK L \in Nat : L = Len(inbox)
  BY GivenBefore
<1>2. /\ L >= 1 /\ Len(inbox') = L - 1 /\ Received = inbox[1] /\ Received.kind = kind
      /\ \A k \in 1..Len(inbox') : inbox'[k] = inbox[k + 1]
  BY <1>1, OldestEvent
<1>3. \A k \in 1..(L - 1) : k + 1 \in 1..L
  BY <1>1
<1> QED BY <1>1, <1>2, <1>3 DEF Shifted

\* A row with a message's id is the message's or below it.
LEMMA SeparatorsBelow ==
  ASSUME Types, SeparatorBelow(m_messages)
  PROVE  /\ \A id \in RowIds : m_lastMessageInbox < id => id \in TrueRows
         /\ \A i \in 1..Len(m_messages) :
              (\A j \in 1..Len(m_messages) : m_messages[j].id = m_messages[i].id => i <= j)
                => (m_messages[i].separator <=> m_messages[i].id \notin TrueRows)
<1>1. PICK n \in Nat : n = newest
  BY DEF Types
<1>2. PICK rows \in Seq(ARow(n)) : rows = m_messages
  BY <1>1 DEF Types, ViewTypes
<1>3. PICK L \in Nat : L = Len(rows)
  BY LenProperties
<1>4. \A i \in 1..L : rows[i].id \in 1..n
  <2>1. \A i \in 1..L : rows[i] \in ARow(n)
    BY <1>3, ElementOfSeq
  <2> QED BY <2>1 DEF ARow
<1>5. TrueRows = {rows[i].id : i \in {j \in 1..L : ~rows[j].separator}}
  BY <1>2, <1>3 DEF TrueRows, TrueOf
<1>6. m_lastMessageInbox \in 0..n
  BY <1>1 DEF Types, ViewTypes
<1>7. ASSUME NEW id \in RowIds, m_lastMessageInbox < id
      PROVE  id \in TrueRows
  <2>1. PICK i \in 1..L : rows[i].id = id
    BY <1>2, <1>3 DEF RowIds
  <2>2. rows[i].separator => rows[i].id <= m_lastMessageInbox
    BY <1>2, <1>3 DEF SeparatorBelow
  <2>3. ~(id <= m_lastMessageInbox)
    BY <1>4, <1>6, <1>7, <2>1
  <2> QED BY <1>5, <2>1, <2>2, <2>3
<1>8. ASSUME NEW i \in 1..L, \A j \in 1..L : rows[j].id = rows[i].id => i <= j
      PROVE  rows[i].separator <=> rows[i].id \notin TrueRows
  <2>1. CASE ~rows[i].separator
    BY <1>5, <2>1
  <2>2. ASSUME rows[i].separator, NEW j \in 1..L, ~rows[j].separator, rows[j].id = rows[i].id
        PROVE  FALSE
    <3>1. j < i
      BY <1>2, <1>3, <2>2 DEF SeparatorBelow
    <3>2. i <= j
      BY <1>8, <2>2
    <3> QED BY <3>1, <3>2
  <2> QED BY <1>5, <2>1, <2>2
<1> QED BY <1>2, <1>3, <1>7, <1>8

LEMMA addMessageFromUpdateShows ==
  ASSUME Types, RowsInv, Deliveries, addMessageFromUpdate
  PROVE  Handled /\ Shows
<1>1. Consume("updateNewMessage")
  BY DEF addMessageFromUpdate
<1>2. PICK m \in Msg(newest) : m = Received.message
  BY <1>1, MessageBrought
<1>3. Brings(inbox[1]) = {m.id} /\ IsNew(inbox[1])
  BY <1>1, <1>2, MessageBrought
<1>4. m.id \notin RowIds
  BY <1>1, <1>3, NewAbove DEF RowsInv
<1>5. Shifted /\ inbox[1].kind = "updateNewMessage"
  BY <1>1, ConsumeShifts
<1>6. Removes(inbox[1]) = {}
  BY <1>5 DEF Removes
<1>7. SeparatorBelow(m_messages)
  BY DEF Deliveries
<1>8. /\ chat' = chat /\ sending' = sending /\ newest' = newest /\ requests' = requests
      /\ m_peerId' = m_peerId /\ m_lastMessageInbox' = m_lastMessageInbox
      /\ m_lastOutboxId' = m_lastOutboxId /\ lastMessageId' = lastMessageId
      /\ Ended' = Ended
  BY DEF addMessageFromUpdate, server, peer, flags, Ended
<1>9. CASE isUpdateConnected
  <2>1. appendMessage(<<m>>, m_lastMessage)
    BY <1>2, <1>9 DEF addMessageFromUpdate
  <2>2. OneAppended(m, m_lastMessage)
    BY <1>4, <2>1, AppendOne DEF RowsInv
  <2>3. Grown(m_messages, {m.id}, m_messages') /\ isUpdateConnected'
    BY <1>4, <1>9, <2>2 DEF OneAppended
  <2>4. TrueRows' = TrueRows \cup {m.id} /\ SeparatorBelow(m_messages')
    BY <1>7, <2>3 DEF Grown, TrueRows
  <2>5. SeparatorBelow(m_messages)'
    BY <1>8, <2>4 DEF SeparatorBelow
  <2>6. dropped' = dropped
    BY <1>9 DEF addMessageFromUpdate
  <2>7. Handled
    BY <1>5, <1>8, <1>9, <2>3, <2>6 DEF Handled
  <2>8. Shows
    BY <1>3, <1>5, <1>6, <2>4, <2>5 DEF Shows
  <2> QED BY <2>7, <2>8
<1>10. CASE ~isUpdateConnected
  <2>1. dropped' = dropped \cup {m.id} /\ view' = view
    BY <1>2, <1>10 DEF addMessageFromUpdate
  <2>2. m_messages' = m_messages /\ isUpdateConnected' = isUpdateConnected
        /\ m_lastMessage' = m_lastMessage
    BY <2>1 DEF view
  <2>3. TrueRows' = TrueRows /\ SeparatorBelow(m_messages)'
    BY <1>7, <1>8, <2>2 DEF TrueRows, TrueOf, SeparatorBelow
  <2>4. Handled
    BY <1>5, <1>8, <1>10, <2>1, <2>2 DEF Handled
  <2>5. Shows
    BY <1>3, <1>5, <1>6, <2>1, <2>3 DEF Shows
  <2> QED BY <2>4, <2>5
<1> QED BY <1>9, <1>10

LEMMA onMessageReceivedShows ==
  ASSUME Types, RowsInv, Deliveries, OwnInv, onMessageReceived, trouble' = {}
  PROVE  Handled /\ Shows
<1>1. Consume("message")
  BY DEF onMessageReceived
<1>2. PICK m \in Msg(newest) : m = Received.message /\ m.sending
  BY <1>1, MessageBrought
<1>3. Brings(inbox[1]) = {m.id} /\ ~IsNew(inbox[1])
  BY <1>1, <1>2, MessageBrought
<1>4. Shifted /\ inbox[1].kind = "message" /\ inbox[1].message = m
  BY <1>1, <1>2, ConsumeShifts
<1>5. Removes(inbox[1]) = {}
  BY <1>4 DEF Removes
<1>6. SeparatorBelow(m_messages)
  BY DEF Deliveries
<1>7. /\ chat' = chat /\ sending' = sending /\ newest' = newest /\ requests' = requests
      /\ m_peerId' = m_peerId /\ m_lastMessageInbox' = m_lastMessageInbox
      /\ m_lastOutboxId' = m_lastOutboxId /\ lastMessageId' = lastMessageId
      /\ dropped' = dropped
  BY DEF onMessageReceived, server, peer
<1>8. PICK last : last = m_lastMessage' /\ appendMessage(<<m>>, last)
  BY <1>2 DEF onMessageReceived
<1>9. OneAppended(m, last)
  BY <1>2, <1>8, AppendOne DEF RowsInv
<1>10. m_lastMessageInbox < m.id
  <2>1. m.id \in 1..newest
    BY DEF Msg
  <2>2. 1 \in 1..Len(inbox) /\ IsEcho(inbox[1], m.id)
    BY <1>4 DEF IsEcho, Shifted
  <2>3. m.id \in Own
    BY <2>1, <2>2 DEF Own
  <2> QED BY <2>3 DEF OwnInv, OwnNewest
<1>11. ~Quietly(inbox[1])
  BY <1>4 DEF Quietly
<1>12. CASE m.id \notin RowIds
  <2>1. Grown(m_messages, {m.id}, m_messages') /\ Added(<<m>>) = <<m>>
    BY <1>9, <1>12 DEF OneAppended
  <2>2. isUpdateConnected'
    <3>1. <<m>> # <<>>
      OBVIOUS
    <3>2. ~isUpdateConnected' => trouble' = trouble \cup {"early"}
      BY <1>2, <2>1, <3>1 DEF onMessageReceived
    <3> QED BY <3>2
  <2>3. TrueRows' = TrueRows \cup {m.id} /\ SeparatorBelow(m_messages')
    BY <1>6, <2>1 DEF Grown, TrueRows
  <2>4. SeparatorBelow(m_messages)'
    BY <1>7, <2>3 DEF SeparatorBelow
  <2>5. Handled
    BY <1>4, <1>7, <1>11, <2>2 DEF Handled
  <2>6. Shows
    BY <1>3, <1>4, <1>5, <2>3, <2>4 DEF Shows
  <2> QED BY <2>5, <2>6
<1>13. CASE m.id \in RowIds
  <2>1. m_messages' = m_messages /\ Added(<<m>>) = <<>>
        /\ isUpdateConnected' = (isUpdateConnected \/ last = Last(m_messages).id)
    BY <1>9, <1>13 DEF OneAppended
  <2>2. m_lastMessage' = m_lastMessage
    BY <1>2, <2>1 DEF onMessageReceived
  <2>3. m.id \in TrueRows
    BY <1>6, <1>10, <1>13, SeparatorsBelow
  <2>4. TrueRows' = TrueRows /\ SeparatorBelow(m_messages)'
    BY <1>6, <1>7, <2>1 DEF TrueRows, TrueOf, SeparatorBelow
  <2>5. Handled
    BY <1>4, <1>7, <1>11, <2>1, <2>2 DEF Handled
  <2>6. Shows
    BY <1>3, <1>4, <1>5, <2>3, <2>4 DEF Shows
  <2> QED BY <2>5, <2>6
<1> QED BY <1>12, <1>13

LEMMA updateMessageSendShows ==
  ASSUME Types, RowsInv, Deliveries, OwnInv, updateMessageSend
  PROVE  Handled /\ Shows
<1>1. PICK old : old = Received.old_message_id
  OBVIOUS
<1>2. PICK y : y = Received.id
  OBVIOUS
<1>3. /\ Consume("updateMessageSendSucceeded") /\ Received = inbox[1] /\ IsNew(inbox[1])
      /\ y \in 1..newest /\ old \in 1..newest
      /\ Brings(inbox[1]) = {y} /\ Removes(inbox[1]) = {old}
  BY <1>1, <1>2, RowRenamed
<1>4. Shifted /\ inbox[1].kind = "updateMessageSendSucceeded"
  BY <1>3, ConsumeShifts
<1>5. SeparatorBelow(m_messages)
  BY DEF Deliveries
<1>6. /\ chat' = chat /\ sending' = sending /\ newest' = newest /\ requests' = requests
      /\ m_peerId' = m_peerId /\ m_lastMessageInbox' = m_lastMessageInbox
      /\ m_lastOutboxId' = m_lastOutboxId /\ lastMessageId' = lastMessageId
      /\ dropped' = dropped /\ m_lastMessage' = m_lastMessage
      /\ isUpdateConnected' = isUpdateConnected
  BY DEF updateMessageSend, server, peer, past
<1>7. old \in TrueRows
  <2>1. 1 \in 1..Len(inbox)
    BY <1>4 DEF Shifted
  <2>2. old \in TrueRows \/ EchoBefore(old, 1)
    BY <1>1, <1>3, <1>4, <2>1 DEF OwnInv, OwnRows
  <2> QED BY <2>2 DEF EchoBefore
<1>8. old \in RowIds
  BY <1>7 DEF TrueRows, TrueOf, RowIds
<1>9. PICK i \in 1..Len(m_messages) :
        /\ m_messages[i].id = old
        /\ \A j \in 1..Len(m_messages) : m_messages[j].id = old => i <= j
        /\ Replaced(m_messages, i, y, m_messages')
  BY <1>1, <1>2, <1>8, RowRenamed
<1>10. ~m_messages[i].separator
  BY <1>5, <1>7, <1>9, SeparatorsBelow
<1>11. /\ TrueRows \ {old} \subseteq TrueRows' /\ y \in TrueRows'
       /\ TrueRows' \subseteq TrueRows \cup {y} /\ old \notin TrueRows'
       /\ SeparatorBelow(m_messages')
  BY <1>5, <1>9, <1>10 DEF Replaced, TrueRows
<1>12. SeparatorBelow(m_messages)'
  BY <1>6, <1>11 DEF SeparatorBelow
<1>13. ~Quietly(inbox[1])
  BY <1>4 DEF Quietly
<1>14. Handled
  BY <1>4, <1>6, <1>13 DEF Handled
<1>15. Shows
  BY <1>3, <1>4, <1>11, <1>12 DEF Shows
<1> QED BY <1>14, <1>15

LEMMA onMessageDeletedShows ==
  ASSUME Types, RowsInv, Deliveries, onMessageDeleted
  PROVE  Handled /\ Shows
<1>1. PICK id : id = Received.id
  OBVIOUS
<1>2. /\ Consume("updateDeleteMessages") /\ Received = inbox[1]
      /\ ~IsPage(inbox[1]) /\ ~IsNew(inbox[1])
      /\ Brings(inbox[1]) = {} /\ Removes(inbox[1]) = {id}
  BY <1>1, RowDeleted
<1>3. Shifted /\ inbox[1].kind = "updateDeleteMessages"
  BY <1>2, ConsumeShifts
<1>4. SeparatorBelow(m_messages)
  BY DEF Deliveries
<1>5. /\ chat' = chat /\ sending' = sending /\ newest' = newest /\ requests' = requests
      /\ m_peerId' = m_peerId /\ m_lastMessageInbox' = m_lastMessageInbox
      /\ m_lastOutboxId' = m_lastOutboxId /\ lastMessageId' = lastMessageId
      /\ dropped' = dropped /\ m_lastMessage' = m_lastMessage
      /\ isUpdateConnected' = isUpdateConnected /\ Ended' = Ended
  BY DEF onMessageDeleted, server, peer, past, flags, Ended
<1>6. CASE id \notin RowIds
  <2>1. m_messages' = m_messages
    BY <1>1, <1>6, RowDeleted
  <2>2. TrueRows' = TrueRows /\ SeparatorBelow(m_messages)'
    BY <1>4, <1>5, <2>1 DEF TrueRows, TrueOf, SeparatorBelow
  <2>3. id \notin TrueRows
    BY <1>6 DEF TrueRows, TrueOf, RowIds
  <2>4. Handled
    BY <1>3, <1>5, <2>1 DEF Handled
  <2>5. Shows
    BY <1>2, <1>3, <2>2, <2>3 DEF Shows
  <2> QED BY <2>4, <2>5
<1>7. CASE id \in RowIds
  <2>1. PICK i \in 1..Len(m_messages) :
          /\ m_messages[i].id = id
          /\ \A j \in 1..Len(m_messages) : m_messages[j].id = id => i <= j
          /\ Removed(m_messages, i, m_messages')
    BY <1>1, <1>7, RowDeleted
  <2>2. m_messages[i].separator <=> id \notin TrueRows
    BY <1>4, <2>1, SeparatorsBelow
  <2>3. TrueRows' = TrueRows \ {id} /\ SeparatorBelow(m_messages')
    BY <1>4, <2>1, <2>2 DEF Removed, TrueRows
  <2>4. SeparatorBelow(m_messages)'
    BY <1>5, <2>3 DEF SeparatorBelow
  <2>5. m_messages # <<>>
    BY <2>1
  <2>6. Handled
    BY <1>3, <1>5, <2>5 DEF Handled
  <2>7. Shows
    BY <1>2, <1>3, <2>3, <2>4 DEF Shows
  <2> QED BY <2>6, <2>7
<1> QED BY <1>6, <1>7

LEMMA updateChatLastMessageShows ==
  ASSUME Types, Deliveries, updateChatLastMessage
  PROVE  Handled /\ Shows
<1>1. Consume("updateChatLastMessage")
  BY DEF updateChatLastMessage
<1>2. Shifted /\ inbox[1].kind = "updateChatLastMessage" /\ Received = inbox[1]
  BY <1>1, ConsumeShifts
<1>3. /\ chat' = chat /\ sending' = sending /\ newest' = newest /\ requests' = requests
      /\ m_peerId' = m_peerId /\ m_lastMessageInbox' = m_lastMessageInbox
      /\ m_lastOutboxId' = m_lastOutboxId /\ lastMessageId' = inbox[1].id
      /\ dropped' = dropped /\ m_lastMessage' = m_lastMessage /\ m_messages' = m_messages
      /\ isUpdateConnected' = isUpdateConnected /\ Ended' = Ended
  BY <1>2 DEF updateChatLastMessage, server, peer, past, flags, Ended, view
<1>4. ~IsNew(inbox[1]) /\ Removes(inbox[1]) = {}
  BY <1>2 DEF IsNew, Removes
<1>5. SeparatorBelow(m_messages)
  BY DEF Deliveries
<1>6. TrueRows' = TrueRows /\ SeparatorBelow(m_messages)'
  BY <1>3, <1>5 DEF TrueRows, TrueOf, SeparatorBelow
<1>7. Handled
  BY <1>2, <1>3 DEF Handled
<1>8. Shows
  BY <1>2, <1>4, <1>6 DEF Shows
<1> QED BY <1>7, <1>8

LEMMA addMessagesShows ==
  ASSUME Types, RowsInv, Deliveries, addMessages, trouble' = {}
  PROVE  Handled /\ Shows
<1>1. PICK page : page = Received.messages
  OBVIOUS
<1>2. /\ Consume("messages") /\ Received = inbox[1] /\ ~IsNew(inbox[1])
      /\ IsPage(inbox[1]) <=> Received.extra \notin Foreign
      /\ Removes(inbox[1]) = {}
      /\ Received.extra \notin Foreign => Brings(inbox[1]) = IdsOf(page)
  BY <1>1, PageReceived
<1>3. Shifted /\ inbox[1].kind = "messages"
  BY <1>2, ConsumeShifts
<1>4. SeparatorBelow(m_messages)
  BY DEF Deliveries
<1>5. /\ chat' = chat /\ sending' = sending /\ newest' = newest /\ requests' = requests
      /\ m_peerId' = m_peerId /\ m_lastMessageInbox' = m_lastMessageInbox
      /\ m_lastOutboxId' = m_lastOutboxId /\ lastMessageId' = lastMessageId
      /\ dropped' = dropped /\ m_lastMessage' = m_lastMessage
  BY DEF addMessages, server, peer
<1>6. PageAdded
  BY PagesAdded
<1>7. Received.extra \in Foreign => (Ended' => Ended)
  BY <1>6 DEF PageAdded, ignoreOther, addMessages, Foreign, Ended
<1>8. \/ /\ Received.extra = "first" /\ m_messages = <<>>
         /\ TrueRows' = IdsOf(page) /\ SeparatorBelow(m_messages')
      \/ /\ Received.extra # "first"
         /\ \E ids : /\ ids \subseteq Brings(inbox[1])
                     /\ TrueRows' = TrueRows \cup ids /\ SeparatorBelow(m_messages')
  <2>1. CASE Received.extra = "first"
    BY <1>1, <1>6, <2>1 DEF PageAdded, Foreign, TrueRows
  <2>2. CASE Received.extra = "prepend"
    <3>1. Grown(m_messages, IdsOf(page), m_messages')
      BY <1>1, <1>6, <2>2 DEF PageAdded, Foreign
    <3>2. TrueRows' = TrueRows \cup IdsOf(page) /\ SeparatorBelow(m_messages')
      BY <1>4, <3>1 DEF Grown, TrueRows
    <3> QED BY <1>2, <2>2, <3>2 DEF Foreign
  <2>3. CASE Received.extra \notin {"first", "prepend"}
    <3>1. \/ /\ Received.extra = "append"
             /\ \E ids : /\ ids = {id \in IdsOf(page) : id > Last(m_messages).id}
                         /\ Grown(m_messages, ids, m_messages')
          \/ m_messages' = m_messages
      BY <1>1, <1>6, <2>3 DEF PageAdded
    <3>2. CASE m_messages' = m_messages
      <4>1. TrueRows' = TrueRows \cup {} /\ SeparatorBelow(m_messages')
        BY <1>4, <3>2 DEF TrueRows
      <4> QED BY <2>3, <4>1
    <3>3. CASE m_messages' # m_messages
      <4>1. PICK ids : /\ ids = {id \in IdsOf(page) : id > Last(m_messages).id}
                       /\ Grown(m_messages, ids, m_messages')
        BY <3>1, <3>3
      <4>2. TrueRows' = TrueRows \cup ids /\ SeparatorBelow(m_messages')
        BY <1>4, <4>1 DEF Grown, TrueRows
      <4>3. ids \subseteq Brings(inbox[1])
        BY <1>2, <3>1, <3>3, <4>1 DEF Foreign
      <4> QED BY <2>3, <4>2, <4>3
    <3> QED BY <3>2, <3>3
  <2> QED BY <2>1, <2>2, <2>3
<1>9. SeparatorBelow(m_messages)'
  BY <1>5, <1>8 DEF SeparatorBelow
<1>10. m_messages = <<>> => TrueRows = {}
  BY DEF TrueRows, TrueOf
<1>11. /\ TrueRows' \subseteq TrueRows \cup Brings(inbox[1])
       /\ TrueRows \subseteq TrueRows'
  BY <1>2, <1>8, <1>10 DEF Foreign
<1>12. ~isUpdateConnected' => ~isUpdateConnected
  BY <1>6, PageReceived DEF PageAdded
<1>13. ~IsPage(inbox[1]) => m_messages' = m_messages /\ isUpdateConnected' = isUpdateConnected
  BY <1>2, <1>6 DEF PageAdded, Foreign
<1>14. Handled
  BY <1>2, <1>3, <1>5, <1>7, <1>12, <1>13 DEF Handled, Quietly
<1>15. Shows
  BY <1>2, <1>3, <1>9, <1>11 DEF Shows
<1> QED BY <1>14, <1>15

\* Every handler.
LEMMA HandlersShow ==
  ASSUME Types, RowsInv, Deliveries, OwnInv, Handle, trouble' = {}
  PROVE  Handled /\ Shows
BY addMessagesShows, addMessageFromUpdateShows, onMessageReceivedShows, updateMessageSendShows,
   onMessageDeletedShows, updateChatLastMessageShows DEF Handle

-----------------------------------------------------------------------------
(* What a handler leaves behind. *)

LEMMA HandledOnce ==
  ASSUME Once, Handled
  PROVE  Once'
<1>1. /\ \A k \in 1..Len(inbox') : k + 1 \in 1..Len(inbox) /\ inbox'[k] = inbox[k + 1]
      /\ chat' = chat /\ Len(inbox') \in Int
  BY DEF Handled, Shifted
<1> SUFFICES ASSUME NEW k \in 1..Len(inbox')
             PROVE  /\ Removes(inbox'[k]) \cap chat' = {}
                    /\ \A l \in 1..Len(inbox') : l # k =>
                         Removes(inbox'[k]) \cap Removes(inbox'[l]) = {}
  BY DEF Once, Removes
<1>2. Removes(inbox[k + 1]) \cap chat = {}
  BY <1>1 DEF Once
<1>3. ASSUME NEW l \in 1..Len(inbox'), l # k
      PROVE  Removes(inbox[k + 1]) \cap Removes(inbox[l + 1]) = {}
  <2>1. l + 1 # k + 1
    BY <1>1, <1>3
  <2> QED BY <1>1, <2>1 DEF Once
<1> QED BY <1>1, <1>2, <1>3

\* An event further down goes on following.
LEMMA StillGone ==
  ASSUME Handled, NEW k \in 1..Len(inbox), NEW id, GoneAfter(id, k)
  PROVE  GoneAfter(id, k - 1)'
<1>1. PICK L \in Nat : L = Len(inbox)
  BY DEF Handled, Shifted
<1>2. PICK l \in (k + 1)..L : id \in Removes(inbox[l])
  BY <1>1 DEF GoneAfter
<1>3. Len(inbox') = L - 1
  BY <1>1 DEF Handled, Shifted
<1>4. l - 1 \in ((k - 1) + 1)..(L - 1) /\ l - 1 \in 1..(L - 1) /\ (l - 1) + 1 = l
  BY <1>1, <1>2
<1>5. inbox'[l - 1] = inbox[l]
  BY <1>3, <1>4 DEF Handled, Shifted
<1>6. id \in Removes(inbox'[l - 1])
  BY <1>2, <1>5
<1>7. \E j \in ((k - 1) + 1)..Len(inbox') : id \in Removes(inbox'[j])
  BY <1>3, <1>4, <1>6
<1> QED BY <1>7 DEF GoneAfter, Removes

LEMMA HandledLive ==
  ASSUME Live, Handled, Shows
  PROVE  Live'
<1>1. PICK L \in Nat : L = Len(inbox)
  BY DEF Handled, Shifted
<1>2. L >= 1 /\ 1 \in 1..L /\ Len(inbox') = L - 1
  BY <1>1 DEF Handled, Shifted
<1>3. ASSUME NEW id \in TrueRows'
      PROVE  id \in chat' \/ GoneAfter(id, 0)'
  <2>1. CASE id \in Brings(inbox[1])
    <3>1. id \in chat \/ GoneAfter(id, 1)
      BY <1>1, <1>2, <2>1 DEF Live
    <3>2. GoneAfter(id, 1) => GoneAfter(id, 1 - 1)'
      BY <1>1, <1>2, StillGone
    <3>3. 1 - 1 = 0
      OBVIOUS
    <3> QED BY <3>1, <3>2, <3>3 DEF Handled
  <2>2. CASE id \in TrueRows /\ id \notin Removes(inbox[1])
    <3>1. id \in chat \/ GoneAfter(id, 0)
      BY <2>2 DEF Live
    <3>2. ASSUME GoneAfter(id, 0)
          PROVE  GoneAfter(id, 1)
      <4>1. PICK l \in (0 + 1)..L : id \in Removes(inbox[l])
        BY <1>1, <3>2 DEF GoneAfter
      <4>2. l # 1
        BY <2>2, <4>1
      <4>3. l \in (1 + 1)..L
        BY <4>1, <4>2
      <4> QED BY <1>1, <4>1, <4>3 DEF GoneAfter
    <3>3. GoneAfter(id, 1) => GoneAfter(id, 1 - 1)'
      BY <1>1, <1>2, StillGone
    <3>4. 1 - 1 = 0
      OBVIOUS
    <3> QED BY <3>1, <3>2, <3>3, <3>4 DEF Handled
  <2> QED BY <2>1, <2>2 DEF Shows
<1>4. ASSUME NEW k \in 1..Len(inbox'), NEW id \in Brings(inbox'[k])
      PROVE  id \in chat' \/ GoneAfter(id, k)'
  <2>1. k + 1 \in 1..Len(inbox) /\ inbox'[k] = inbox[k + 1]
    BY DEF Handled, Shifted
  <2>2. id \in chat \/ GoneAfter(id, k + 1)
    BY <1>4, <2>1 DEF Live
  <2>3. GoneAfter(id, k + 1) => GoneAfter(id, (k + 1) - 1)'
    BY <2>1, StillGone
  <2>4. (k + 1) - 1 = k
    BY <1>2
  <2> QED BY <2>2, <2>3, <2>4 DEF Handled
<1> QED BY <1>3, <1>4 DEF Live, Brings, IsPage, IdsOf

LEMMA StillAnnounced ==
  ASSUME Handled, NEW id, Announced(id)
  PROVE  \/ Announced(id)'
         \/ IsNew(inbox[1]) /\ id \in Brings(inbox[1])
<1>1. PICK L \in Nat : L = Len(inbox)
  BY DEF Handled, Shifted
<1>2. PICK k \in 1..L : IsNew(inbox[k]) /\ id \in Brings(inbox[k])
  BY <1>1 DEF Announced
<1>3. CASE k = 1
  BY <1>2, <1>3
<1>4. CASE k # 1
  <2>1. Len(inbox') = L - 1
    BY <1>1 DEF Handled, Shifted
  <2>2. k - 1 \in 1..(L - 1) /\ (k - 1) + 1 = k
    BY <1>4
  <2>3. inbox'[k - 1] = inbox[k]
    BY <2>1, <2>2 DEF Handled, Shifted
  <2>4. \E j \in 1..Len(inbox') : IsNew(inbox'[j]) /\ id \in Brings(inbox'[j])
    BY <1>2, <2>1, <2>2, <2>3
  <2> QED BY <2>4 DEF Announced, IsNew, Brings, IsPage, IdsOf
<1> QED BY <1>3, <1>4

LEMMA HandledNewsLast ==
  ASSUME Types, News, NewsLast, Handled
  PROVE  NewsLast'
<1> SUFFICES ASSUME NEW k \in 1..Len(inbox'), IsNew(inbox'[k]),
                    NEW y \in Brings(inbox'[k]), NEW id \in chat'
             PROVE  Announced(id)' \/ id < y
  BY DEF NewsLast, IsNew, Brings, IsPage, IdsOf
<1>1. PICK L \in Nat : L = Len(inbox)
  BY DEF Handled, Shifted
<1>2. k + 1 \in 1..L /\ inbox'[k] = inbox[k + 1] /\ id \in chat
  BY <1>1 DEF Handled, Shifted
<1>3. Announced(id) \/ id < y
  BY <1>1, <1>2 DEF NewsLast
<1>4. CASE Announced(id) /\ ~Announced(id)'
  <2>1. id \in Brings(inbox[1])
    BY <1>4, StillAnnounced
  <2>2. Len(inbox') = L - 1
    BY <1>1 DEF Handled, Shifted
  <2>3. 1 \in 1..((k + 1) - 1)
    BY <1>1, <2>2
  <2> QED BY <1>1, <1>2, <2>1, <2>3 DEF News
<1> QED BY <1>3, <1>4

LEMMA HandledUnseen ==
  ASSUME Types, Once, Handled, Shows
  PROVE  Unseen' \subseteq Unseen
<1> SUFFICES ASSUME NEW u \in Unseen'
             PROVE  u \in Unseen
  OBVIOUS
<1>1. u \in chat /\ u \notin TrueRows' /\ u \notin dropped' /\ ~Announced(u)'
  BY DEF Unseen, Handled
<1>2. u \notin dropped
  BY <1>1 DEF Handled
<1>3. 1 \in 1..Len(inbox)
  BY DEF Handled, Shifted
<1>4. u \notin Removes(inbox[1])
  BY <1>1, <1>3 DEF Once
<1>5. u \notin TrueRows
  BY <1>1, <1>4 DEF Shows
<1>6. ~Announced(u)
  BY <1>1, StillAnnounced DEF Shows
<1> QED BY <1>1, <1>2, <1>5, <1>6 DEF Unseen

LEMMA HandledOwn ==
  ASSUME Handled
  PROVE  Own' \subseteq Own
<1> SUFFICES ASSUME NEW x \in Own'
             PROVE  x \in Own
  OBVIOUS
<1>1. x \in 1..newest
  BY DEF Own, Handled
<1>2. CASE x \in sending'
  BY <1>1, <1>2 DEF Own, Handled
<1>3. CASE \E k \in 1..Len(inbox') : IsEcho(inbox'[k], x) \/ IsRenaming(inbox'[k], x)
  BY <1>1, <1>3 DEF Own, Handled, Shifted
<1> QED BY <1>2, <1>3 DEF Own, IsEcho, IsRenaming

LEMMA HandledOwnNewest ==
  ASSUME OwnNewest, Handled, Unseen' \subseteq Unseen
  PROVE  OwnNewest'
<1>1. Own' \subseteq Own
  BY HandledOwn
<1>2. \A x \in Own :
        /\ \A u \in Unseen : u < x
        /\ m_lastMessageInbox < x
        /\ ~isUpdateConnected => m_lastMessage < x
  BY DEF OwnNewest
<1>3. \A x \in Own' :
        /\ \A u \in Unseen' : u < x
        /\ m_lastMessageInbox' < x
        /\ ~isUpdateConnected' => m_lastMessage' < x
  BY <1>1, <1>2 DEF Handled
<1> QED BY <1>3 DEF OwnNewest

LEMMA StillEcho ==
  ASSUME Handled, Shows, NEW k \in 1..(Len(inbox) + 1), NEW x, EchoBefore(x, k)
  PROVE  x \in TrueRows' \/ EchoBefore(x, k - 1)'
<1>1. PICK L \in Nat : L = Len(inbox)
  BY DEF Handled, Shifted
<1>2. PICK j \in 1..(k - 1) : IsEcho(inbox[j], x)
  BY DEF EchoBefore
<1>3. CASE j = 1
  BY <1>2, <1>3 DEF Shows, IsEcho
<1>4. CASE j # 1
  <2>1. Len(inbox') = L - 1
    BY <1>1 DEF Handled, Shifted
  <2>2. j - 1 \in 1..((k - 1) - 1) /\ j - 1 \in 1..(L - 1) /\ (j - 1) + 1 = j
    BY <1>1, <1>2, <1>4
  <2>3. inbox'[j - 1] = inbox[j]
    BY <2>1, <2>2 DEF Handled, Shifted
  <2>4. \E i \in 1..((k - 1) - 1) : IsEcho(inbox'[i], x)
    BY <1>2, <2>2, <2>3
  <2> QED BY <2>4 DEF EchoBefore, IsEcho
<1> QED BY <1>3, <1>4

LEMMA HandledOwnRows ==
  ASSUME Types, Once, OwnRows, Handled, Shows
  PROVE  OwnRows'
<1>1. PICK L \in Nat : L = Len(inbox)
  BY DEF Handled, Shifted
<1>2. L >= 1 /\ 1 \in 1..L /\ L + 1 \in 1..(L + 1) /\ Len(inbox') = L - 1 /\ (L + 1) - 1 = L
  BY <1>1 DEF Handled, Shifted
<1>3. ASSUME NEW x \in sending'
      PROVE  x \in TrueRows' \/ EchoBefore(x, L)'
  <2>1. x \in sending /\ x \in chat
    BY DEF Handled, Types, ServerTypes
  <2>2. x \notin Removes(inbox[1])
    BY <1>1, <1>2, <2>1 DEF Once
  <2>3. x \in TrueRows \/ EchoBefore(x, L + 1)
    BY <1>1, <2>1 DEF OwnRows
  <2>4. EchoBefore(x, L + 1) => x \in TrueRows' \/ EchoBefore(x, (L + 1) - 1)'
    BY <1>1, <1>2, StillEcho
  <2>5. x \in TrueRows => x \in TrueRows'
    BY <2>2 DEF Shows
  <2> QED BY <1>2, <2>3, <2>4, <2>5
<1>4. ASSUME NEW k \in 1..Len(inbox'), inbox'[k].kind = "updateMessageSendSucceeded",
             NEW x, x = inbox'[k].old_message_id
      PROVE  x \in TrueRows' \/ EchoBefore(x, k)'
  <2>1. k + 1 \in 1..L /\ k + 1 \in 1..(L + 1) /\ k + 1 # 1 /\ (k + 1) - 1 = k
    BY <1>2
  <2>2. inbox'[k] = inbox[k + 1]
    BY DEF Handled, Shifted
  <2>3. x \in TrueRows \/ EchoBefore(x, k + 1)
    BY <1>1, <1>4, <2>1, <2>2 DEF OwnRows
  <2>4. EchoBefore(x, k + 1) => x \in TrueRows' \/ EchoBefore(x, (k + 1) - 1)'
    BY <1>1, <2>1, StillEcho
  <2>5. x \in Removes(inbox[k + 1])
    BY <1>4, <2>2 DEF Removes
  <2>6. x \notin Removes(inbox[1])
    BY <1>1, <1>2, <2>1, <2>5 DEF Once
  <2>7. x \in TrueRows => x \in TrueRows'
    BY <2>6 DEF Shows
  <2> QED BY <2>1, <2>3, <2>4, <2>7
<1>5. Len(inbox') + 1 = L
  BY <1>2
<1> QED BY <1>3, <1>4, <1>5 DEF OwnRows, EchoBefore, IsEcho

LEMMA HandledClosed ==
  ASSUME Types, Closed, Handled, Shows
  PROVE  Closed'
<1> SUFFICES ASSUME ~m_peerId'
             PROVE  Closed'
  BY DEF Closed
<1>1. PICK L \in Nat : L = Len(inbox)
  BY DEF Handled, Shifted
<1>2. L >= 1 /\ 1 \in 1..L /\ Len(inbox') = L - 1
  BY <1>1 DEF Handled, Shifted
<1>3. /\ m_messages = <<>> /\ ~isUpdateConnected /\ requests = <<>> /\ sending = {}
      /\ ~Ended /\ m_lastMessage = 0
      /\ \A k \in 1..L : Quietly(inbox[k])
      /\ \A id \in chat : id <= lastMessageId \/ id \in dropped \/ Announced(id)
      /\ \A k \in 1..L : inbox[k].kind = "updateChatLastMessage" =>
           \A id \in chat : id <= inbox[k].id \/ AnnouncedAfter(id, k)
  BY <1>1 DEF Closed, Handled, Quietly
<1>4. /\ m_messages' = <<>> /\ ~isUpdateConnected' /\ requests' = <<>> /\ sending' = {}
      /\ ~Ended' /\ m_lastMessage' = 0
  BY <1>2, <1>3 DEF Handled
<1>5. ASSUME NEW k \in 1..Len(inbox')
      PROVE  Quietly(inbox'[k])
  BY <1>1, <1>3 DEF Handled, Shifted
<1>6. TrueRows' = {}
  BY <1>4 DEF TrueRows, TrueOf
<1>7. \A id : Announced(id) => id \in dropped' \/ Announced(id)'
  BY <1>6, StillAnnounced DEF Shows
<1>8. ASSUME NEW id \in chat'
      PROVE  id <= lastMessageId' \/ id \in dropped' \/ Announced(id)'
  <2>1. id \in chat /\ dropped \subseteq dropped'
    BY DEF Handled
  <2>2. CASE inbox[1].kind # "updateChatLastMessage"
    BY <1>3, <1>7, <2>1, <2>2 DEF Handled
  <2>3. CASE inbox[1].kind = "updateChatLastMessage"
    <3>1. id <= inbox[1].id \/ AnnouncedAfter(id, 1)
      BY <1>2, <1>3, <2>1, <2>3
    <3>2. AnnouncedAfter(id, 1) => Announced(id)
      <4>1. (1 + 1)..L \subseteq 1..L
        BY <1>1
      <4> QED BY <1>1, <4>1 DEF AnnouncedAfter, Announced
    <3>3. lastMessageId' = inbox[1].id
      BY <2>3 DEF Handled
    <3> QED BY <1>7, <3>1, <3>2, <3>3
  <2> QED BY <2>2, <2>3
<1>9. ASSUME NEW k \in 1..Len(inbox'), inbox'[k].kind = "updateChatLastMessage", NEW id \in chat'
      PROVE  id <= inbox'[k].id \/ AnnouncedAfter(id, k)'
  <2>1. k + 1 \in 1..L /\ inbox'[k] = inbox[k + 1] /\ id \in chat
    BY <1>1 DEF Handled, Shifted
  <2>2. id <= inbox[k + 1].id \/ AnnouncedAfter(id, k + 1)
    BY <1>3, <1>9, <2>1
  <2>3. ASSUME AnnouncedAfter(id, k + 1)
        PROVE  AnnouncedAfter(id, k)'
    <3>1. PICK j \in ((k + 1) + 1)..L : IsNew(inbox[j]) /\ id \in Brings(inbox[j])
      BY <1>1, <2>3 DEF AnnouncedAfter
    <3>2. j - 1 \in (k + 1)..(L - 1) /\ j - 1 \in 1..(L - 1) /\ (j - 1) + 1 = j
      BY <1>1, <2>1
    <3>3. inbox'[j - 1] = inbox[j]
      BY <1>2, <3>2 DEF Handled, Shifted
    <3>4. \E i \in (k + 1)..Len(inbox') : IsNew(inbox'[i]) /\ id \in Brings(inbox'[i])
      BY <1>2, <3>1, <3>2, <3>3
    <3> QED BY <3>4 DEF AnnouncedAfter, IsNew, Brings, IsPage, IdsOf
  <2> QED BY <2>1, <2>2, <2>3
<1> QED BY <1>4, <1>5, <1>8, <1>9 DEF Closed, Quietly, IsPage

LEMMA HandledKnown ==
  ASSUME Known, Handled, Unseen' \subseteq Unseen
  PROVE  Known'
<1> SUFFICES ASSUME m_peerId', ~isUpdateConnected', NEW u \in Unseen'
             PROVE  u <= m_lastMessage'
  BY DEF Known
<1>1. m_peerId /\ ~isUpdateConnected /\ m_lastMessage' = m_lastMessage
  BY DEF Handled
<1> QED BY <1>1 DEF Known

\* All of it but the coverage.
LEMMA HandledRest ==
  ASSUME Types, RowsInv, CoverInv, Handled, Shows
  PROVE  /\ Deliveries' /\ OwnInv' /\ Closed' /\ Known'
         /\ Unseen' \subseteq Unseen
<1>1. Once /\ Live /\ NewsLast /\ OwnNewest /\ OwnRows /\ Closed /\ Known /\ News
  BY DEF CoverInv, Deliveries, OwnInv, RowsInv
<1>2. Unseen' \subseteq Unseen
  BY <1>1, HandledUnseen
<1>3. Once' /\ Live' /\ NewsLast' /\ SeparatorBelow(m_messages)'
  BY <1>1, HandledOnce, HandledLive, HandledNewsLast DEF Shows
<1>4. OwnNewest' /\ OwnRows'
  BY <1>1, <1>2, HandledOwnNewest, HandledOwnRows
<1>5. Closed' /\ Known'
  BY <1>1, <1>2, HandledClosed, HandledKnown
<1> QED BY <1>2, <1>3, <1>4, <1>5 DEF Deliveries, OwnInv

-----------------------------------------------------------------------------
(* Steps that bring no row and no page leave what is covered covered. *)

LEMMA CamePrimed ==
  ASSUME \A k \in 1..Len(inbox') : \A e : e = inbox'[k] /\ IsPage(e) =>
           \A u \in Unseen' : u \notin Brings(e) => CameFor(u, e)'
  PROVE  Came'
<1> SUFFICES ASSUME NEW k \in 1..Len(inbox'), IsPage(inbox[k])',
                    NEW u \in Unseen', (u \notin Brings(inbox[k]))'
             PROVE  CameFor(u, inbox[k])'
  BY DEF Came
<1>1. PICK e : e = inbox'[k]
  OBVIOUS
<1>2. IsPage(e) /\ u \notin Brings(e)
  BY <1>1 DEF IsPage, Brings, IdsOf
<1>3. CameFor(u, e)'
  BY <1>1, <1>2
<1> QED BY <1>1, <1>3 DEF CameFor, Brings, IsPage, IdsOf, IsAbove, IsBelow

\* What is covered stays so when the rows do not grow where it lies.
Firm ==
  /\ Unseen' \subseteq Unseen
  /\ \A u \in Unseen' : /\ BelowRows(u) => BelowRows(u)'
                        /\ AboveRows(u) => AboveRows(u)'
  /\ From' = From \/ isUpdateConnected'

LEMMA CameForStays ==
  ASSUME Firm, NEW u \in Unseen', NEW e, CameFor(u, e), e.extra = "first" => From' = From
  PROVE  CameFor(u, e)'
<1>1. /\ BelowRows(u) => BelowRows(u)'
      /\ AboveRows(u) => AboveRows(u)'
  BY DEF Firm
<1>2. PICK from : from = From
  OBVIOUS
<1>3. e.extra = "first" => from = From'
  BY <1>2
<1>4. e.extra = "first" =>
        IF from # 0 /\ from < u THEN IsAbove(u, Brings(e)) ELSE IsBelow(u, Brings(e))
  BY <1>2 DEF CameFor
<1>5. e.extra = "first" =>
        IF From' # 0 /\ From' < u THEN IsAbove(u, Brings(e)) ELSE IsBelow(u, Brings(e))
  BY <1>3, <1>4
<1>6. /\ e.extra = "prepend" =>
           \/ Brings(e) # {} /\ IsBelow(u, Brings(e))
           \/ IsAbove(u, Brings(e)) /\ AboveRows(u)'
      /\ e.extra = "append" => BelowRows(u)' \/ (IsAbove(u, Brings(e)) /\ AboveRows(u)')
  BY <1>1 DEF CameFor
<1> QED BY <1>5, <1>6 DEF CameFor

LEMMA CameStays ==
  ASSUME Types, RowsInv', Came, Firm,
         \A k \in 1..Len(inbox') : \A e : e = inbox'[k] /\ IsPage(e) =>
           \E j \in 1..Len(inbox) : e = inbox[j]
  PROVE  Came'
<1> SUFFICES ASSUME NEW k \in 1..Len(inbox'), NEW e, e = inbox'[k], IsPage(e),
                    NEW u \in Unseen', u \notin Brings(e)
             PROVE  CameFor(u, e)'
  BY CamePrimed
<1>1. PICK j \in 1..Len(inbox) : e = inbox[j]
  OBVIOUS
<1>2. u \in Unseen
  BY DEF Firm
<1>3. CameFor(u, e)
  BY <1>1, <1>2 DEF Came
<1>4. ASSUME e.extra = "first"
      PROVE  From' = From
  <2>1. e.kind = "messages" /\ e.extra \notin Foreign
    BY DEF IsPage
  <2>2. FirstUnderWay'
    BY <1>4, <2>1 DEF FirstUnderWay, IsPage
  <2> QED BY <2>2 DEF RowsInv, FirstOfAll, Firm
<1> QED BY <1>3, <1>4, CameForStays

LEMMA AskedStays ==
  ASSUME Types, RowsInv', Asked, Firm, requests' = requests
  PROVE  Asked'
<1>1. \A u \in Unseen' : u \in Unseen /\ (BelowRows(u) => BelowRows(u)')
                                      /\ (AboveRows(u) => AboveRows(u)')
  BY DEF Firm
<1>2. ASSUME NEW i \in 1..Len(requests)
      PROVE  /\ requests[i].extra = "first" => requests[i].from = From'
             /\ requests[i].extra = "prepend" =>
                  \A u \in Unseen' : u < requests[i].from \/ AboveRows(u)'
             /\ requests[i].extra = "append" =>
                  /\ requests[i].from # 0
                  /\ \A u \in Unseen' : \/ u < requests[i].from /\ BelowRows(u)'
                                        \/ requests[i].from < u /\ AboveRows(u)'
  <2>1. requests[i].extra = "first" => ~isUpdateConnected'
    <3>1. requests[i].extra = "first" => FirstUnderWay'
      BY DEF FirstUnderWay
    <3> QED BY <3>1 DEF RowsInv, FirstOfAll
  <2>2. requests[i].extra = "first" => requests[i].from = From'
    BY <2>1 DEF Asked, Firm
  <2>3. requests[i].extra = "prepend" =>
          \A u \in Unseen' : u < requests[i].from \/ AboveRows(u)'
    BY <1>1 DEF Asked
  <2>4. requests[i].extra = "append" =>
          /\ requests[i].from # 0
          /\ \A u \in Unseen' : \/ u < requests[i].from /\ BelowRows(u)'
                                \/ requests[i].from < u /\ AboveRows(u)'
    BY <1>1 DEF Asked
  <2> QED BY <2>2, <2>3, <2>4
<1> QED BY <1>2 DEF Asked

LEMMA StillCovered ==
  ASSUME Types, RowsInv', Coverage, Firm, requests' = requests,
         Ended' => Ended,
         \A k \in 1..Len(inbox') : \A e : e = inbox'[k] /\ IsPage(e) =>
           \E j \in 1..Len(inbox) : e = inbox[j]
  PROVE  Coverage'
<1>1. Covered'
  BY DEF Coverage, Covered, Firm
<1>2. Asked'
  BY AskedStays DEF Coverage
<1>3. Came'
  BY CameStays DEF Coverage
<1>4. HistEnd'
  <2> SUFFICES ASSUME Ended'
               PROVE  HistEnd'
    BY DEF HistEnd
  <2>1. /\ \A u \in Unseen : AboveRows(u)
        /\ \A i \in 1..Len(requests) : requests[i].extra # "prepend"
        /\ \A k \in 1..Len(inbox) : IsPage(inbox[k]) => inbox[k].extra # "prepend"
    BY DEF Coverage, HistEnd
  <2>2. \A u \in Unseen' : AboveRows(u)'
    BY <2>1 DEF Firm
  <2>3. ASSUME NEW k \in 1..Len(inbox'), NEW e, e = inbox'[k], IsPage(e)
        PROVE  e.extra # "prepend"
    BY <2>1, <2>3
  <2> QED BY <2>1, <2>2, <2>3 DEF HistEnd, IsPage
<1> QED BY <1>1, <1>2, <1>3, <1>4 DEF Coverage

\* The pages a handler leaves in inbox.
LEMMA PagesLeft ==
  ASSUME Shifted
  PROVE  \A k \in 1..Len(inbox') : \A e : e = inbox'[k] /\ IsPage(e) =>
           \E j \in 1..Len(inbox) : e = inbox[j]
BY DEF Shifted

\* Rows that do not grow, or only above, and nothing else.
LEMMA RowsShrink ==
  ASSUME Unseen' \subseteq Unseen, RowIds' \subseteq RowIds,
         From' = From, isUpdateConnected' = isUpdateConnected
  PROVE  Firm
<1>1. ASSUME NEW u \in Unseen'
      PROVE  /\ BelowRows(u) => BelowRows(u)'
             /\ AboveRows(u) => AboveRows(u)'
  <2>1. BelowRows(u) => BelowRows(u)'
    BY DEF BelowRows
  <2>2. AtTop' <=> AtTop
    BY DEF AtTop
  <2>3. AboveRows(u) => AboveRows(u)'
    <3>1. PICK from : from = From
      OBVIOUS
    <3>2. from = From'
      BY <3>1
    <3> QED BY <2>2, <3>1, <3>2 DEF AboveRows
  <2> QED BY <2>1, <2>3
<1> QED BY <1>1 DEF Firm

LEMMA SameFrom ==
  ASSUME m_lastOutboxId' = m_lastOutboxId, m_lastMessage' = m_lastMessage,
         m_lastMessageInbox' = m_lastMessageInbox
  PROVE  From' = From
BY DEF From

\* Nobody waits for a page: nothing was asked for, and nothing came.
LEMMA NobodyWaits ==
  ASSUME Idle', Covered', Ended' => \A u \in Unseen' : AboveRows(u)'
  PROVE  Coverage'
<1>1. requests' = <<>> /\ \A k \in 1..Len(inbox') : \A e : e = inbox'[k] => ~IsPage(e)
  BY DEF Idle, IsPage
<1>2. Asked'
  BY <1>1 DEF Asked
<1>3. Came'
  BY <1>1, CamePrimed
<1>4. HistEnd'
  BY <1>1 DEF HistEnd, IsPage
<1> QED BY <1>2, <1>3, <1>4 DEF Coverage

-----------------------------------------------------------------------------
(* The steps that are no handlers. *)

\* The rows stay or lose one whose message goes, and the list is told nothing.
Sent(es) ==
  /\ Sends(es)
  /\ TrueRows' \subseteq TrueRows /\ TrueRows \cap chat' \subseteq TrueRows'
  /\ \A x \in TrueRows : \/ x \in TrueRows'
                         \/ /\ x \in chat \ chat'
                            /\ \A j \in 1..Len(es) : ~IsRenaming(es[j], x)
  /\ RowIds' \subseteq RowIds /\ SeparatorBelow(m_messages)'
  /\ m_messages = <<>> => m_messages' = <<>>
  /\ peer' = peer /\ m_lastMessage' = m_lastMessage /\ isUpdateConnected' = isUpdateConnected
  /\ Ended' = Ended
  /\ lastMessageId' = lastMessageId /\ dropped' = dropped
  /\ ~m_peerId =>
       /\ requests' = requests /\ sending' = sending
       /\ \A k \in 1..Len(es) :
            ~IsPage(es[k]) /\ es[k].kind \notin {"message", "updateMessageSendSucceeded"}

LEMMA SentRest ==
  ASSUME Types, Types', CoverInv, NEW es, Sent(es)
  PROVE  /\ Deliveries' /\ OwnInv' /\ Closed' /\ Known'
         /\ Unseen' \subseteq Unseen
<1>1. Once /\ Live /\ NewsLast /\ OwnNewest /\ OwnRows /\ Closed /\ Known
  BY DEF CoverInv, Deliveries, OwnInv
<1>2. /\ m_peerId' = m_peerId /\ m_lastMessageInbox' = m_lastMessageInbox
      /\ m_lastOutboxId' = m_lastOutboxId
      /\ m_lastMessage' = m_lastMessage /\ isUpdateConnected' = isUpdateConnected
      /\ Sends(es) /\ dropped \subseteq dropped'
  BY DEF Sent, peer
<1>3. Unseen' \subseteq Unseen
  BY <1>2, SendsUnseen DEF Sent
<1>4. Once' /\ Live' /\ NewsLast' /\ SeparatorBelow(m_messages)'
  BY <1>1, <1>2, SendsOnce, SendsLive, SendsNewsLast DEF Sent
<1>5. OwnNewest'
  BY <1>1, <1>2, <1>3, SendsOwnNewest
<1>6. OwnRows'
  BY <1>1, SendsOwnRows DEF Sent
<1>7. Closed'
  <2>1. ~m_peerId =>
          /\ m_messages' = m_messages /\ requests' = requests /\ sending' = sending
          /\ \A k \in 1..Len(es) :
               ~IsPage(es[k]) /\ es[k].kind \notin {"message", "updateMessageSendSucceeded"}
    BY <1>1 DEF Closed, Sent
  <2>2. ~m_peerId' =>
           /\ ~m_peerId /\ m_messages' = m_messages /\ isUpdateConnected' = isUpdateConnected
           /\ requests' = requests /\ sending' = sending
           /\ Ended' = Ended /\ m_lastMessage' = m_lastMessage
           /\ lastMessageId' = lastMessageId /\ dropped' = dropped
           /\ \A k \in 1..Len(es) :
                ~IsPage(es[k]) /\ es[k].kind \notin {"message", "updateMessageSendSucceeded"}
    BY <1>2, <2>1 DEF Sent
  <2> QED BY <1>1, <1>2, <2>2, SendsClosed
<1>8. Known'
  BY <1>1, <1>2, <1>3 DEF Known
<1> QED BY <1>3, <1>4, <1>5, <1>6, <1>7, <1>8 DEF Deliveries, OwnInv

LEMMA SentFirm ==
  ASSUME Types, Types', CoverInv, NEW es, Sent(es)
  PROVE  Firm
<1>1. Unseen' \subseteq Unseen
  BY SentRest
<1>2. From' = From
  BY SameFrom DEF Sent, peer
<1> QED BY <1>1, <1>2, RowsShrink DEF Sent

\* Without a page or a request more, coverage is kept as well.
LEMMA SentCovered ==
  ASSUME Types, Types', RowsInv', CoverInv, NEW es, Sent(es), requests' = requests,
         \A k \in 1..Len(es) : ~IsPage(es[k])
  PROVE  CoverInv'
<1>1. Deliveries' /\ OwnInv' /\ Closed' /\ Known'
  BY SentRest
<1>2. Firm
  BY SentFirm
<1>3. Stays(es)
  BY FollowStays DEF Sent, Sends
<1>4. ASSUME NEW k \in 1..Len(inbox'), NEW e, e = inbox'[k], IsPage(e)
      PROVE  \E j \in 1..Len(inbox) : e = inbox[j]
  <2>1. CASE k \in 1..Len(inbox) /\ inbox'[k] = inbox[k]
    BY <1>4, <2>1
  <2>2. CASE \E j \in 1..Len(es) : k = Len(inbox) + j /\ inbox'[k] = es[j]
    BY <1>4, <2>2
  <2> QED BY <1>3, <2>1, <2>2 DEF Stays
<1>5. Ended' => Ended
  BY DEF Sent
<1>6. Coverage
  BY DEF CoverInv
<1>7. Coverage'
  BY <1>2, <1>4, <1>5, <1>6, StillCovered
<1> QED BY <1>1, <1>7 DEF CoverInv

\* Steps of TDLib alone do not touch the rows.
LEMMA RowsUnmoved ==
  ASSUME SeparatorBelow(m_messages), NEW es, Sends(es), view' = view, peer' = peer,
         Ended' = Ended, lastMessageId' = lastMessageId,
         dropped' = dropped,
         ~m_peerId =>
           /\ requests' = requests /\ sending' = sending
           /\ \A k \in 1..Len(es) :
                ~IsPage(es[k]) /\ es[k].kind \notin {"message", "updateMessageSendSucceeded"}
  PROVE  Sent(es)
<1>1. /\ m_messages' = m_messages /\ m_lastMessage' = m_lastMessage
      /\ isUpdateConnected' = isUpdateConnected /\ m_lastMessageInbox' = m_lastMessageInbox
  BY DEF view, peer
<1>2. TrueRows' = TrueRows /\ RowIds' = RowIds
  BY <1>1 DEF TrueRows, TrueOf, RowIds
<1>3. SeparatorBelow(m_messages)'
  BY <1>1 DEF SeparatorBelow
<1> QED BY <1>1, <1>2, <1>3 DEF Sent

LEMMA MessageArrivesCovers ==
  ASSUME Types, Types', RowsInv', CoverInv, MessageArrives
  PROVE  CoverInv'
<1>1. PICK es : /\ Sends(es)
                /\ \A k \in 1..Len(es) :
                     es[k].kind \in {"updateNewMessage", "updateChatLastMessage"}
  BY MessageArrivesSends
<1>2. \A k \in 1..Len(es) :
        ~IsPage(es[k]) /\ es[k].kind \notin {"message", "updateMessageSendSucceeded"}
  BY <1>1 DEF IsPage
<1>3. /\ view' = view /\ peer' = peer /\ Ended' = Ended
      /\ lastMessageId' = lastMessageId /\ dropped' = dropped /\ requests' = requests
      /\ sending' = sending
  BY DEF MessageArrives, flags, Ended, past
<1>4. Sent(es)
  BY <1>1, <1>2, <1>3, RowsUnmoved DEF CoverInv, Deliveries
<1> QED BY <1>2, <1>3, <1>4, SentCovered

LEMMA sendMessageCovers ==
  ASSUME Types, Types', RowsInv', CoverInv, sendMessage
  PROVE  CoverInv'
<1>1. PICK es : Sends(es) /\ \A k \in 1..Len(es) : ~IsPage(es[k])
  BY sendMessageSends
<1>2. /\ view' = view /\ peer' = peer /\ Ended' = Ended
      /\ lastMessageId' = lastMessageId /\ dropped' = dropped /\ requests' = requests
      /\ m_peerId
  BY DEF sendMessage, flags, Ended, past
<1>3. Sent(es)
  BY <1>1, <1>2, RowsUnmoved DEF CoverInv, Deliveries
<1> QED BY <1>1, <1>2, <1>3, SentCovered

LEMMA SendSucceedsCovers ==
  ASSUME Types, Types', RowsInv', CoverInv, NEW id, SendSucceeds(id)
  PROVE  CoverInv'
<1>1. PICK es : Sends(es) /\ \A k \in 1..Len(es) : ~IsPage(es[k])
  BY SendSucceedsSends
<1>2. /\ view' = view /\ peer' = peer /\ Ended' = Ended
      /\ lastMessageId' = lastMessageId /\ dropped' = dropped /\ requests' = requests
      /\ id \in sending
  BY DEF SendSucceeds, Settle, flags, Ended
<1>3. m_peerId
  BY <1>2 DEF CoverInv, Closed
<1>4. Sent(es)
  BY <1>1, <1>2, <1>3, RowsUnmoved DEF CoverInv, Deliveries
<1> QED BY <1>1, <1>2, <1>4, SentCovered

LEMMA MessageDeletedCovers ==
  ASSUME Types, Types', RowsInv', CoverInv, NEW id, MessageDeleted(id)
  PROVE  CoverInv'
<1>1. id \in chat /\ Delete(id) /\ newest' = newest
  BY DEF MessageDeleted
<1>2. PICK es : /\ Sends(es)
                /\ \A k \in 1..Len(es) :
                     es[k].kind \in {"updateDeleteMessages", "updateChatLastMessage"}
  BY <1>1, DeleteSends
<1>3. \A k \in 1..Len(es) :
        ~IsPage(es[k]) /\ es[k].kind \notin {"message", "updateMessageSendSucceeded"}
  BY <1>2 DEF IsPage
<1>4. /\ view' = view /\ peer' = peer /\ Ended' = Ended
      /\ lastMessageId' = lastMessageId /\ dropped' = dropped /\ requests' = requests
      /\ sending' = sending \ {id}
  BY DEF MessageDeleted, Delete, flags, Ended, past
<1>5. ~m_peerId => sending' = sending
  BY <1>4 DEF CoverInv, Closed
<1>6. Sent(es)
  BY <1>2, <1>3, <1>4, <1>5, RowsUnmoved DEF CoverInv, Deliveries
<1> QED BY <1>3, <1>4, <1>6, SentCovered

LEMMA AnswerOtherCovers ==
  ASSUME Types, Types', RowsInv', CoverInv, AnswerOther
  PROVE  CoverInv'
<1>1. PICK es : /\ Sends(es)
                /\ \A k \in 1..Len(es) : ~IsPage(es[k]) /\ es[k].kind = "messages"
  BY OtherSends
<1>2. \A k \in 1..Len(es) :
        ~IsPage(es[k]) /\ es[k].kind \notin {"message", "updateMessageSendSucceeded"}
  BY <1>1
<1>3. /\ view' = view /\ peer' = peer /\ Ended' = Ended
      /\ lastMessageId' = lastMessageId /\ dropped' = dropped /\ requests' = requests
      /\ sending' = sending
  BY DEF AnswerOther, flags, Ended, past, server
<1>4. Sent(es)
  BY <1>1, <1>2, <1>3, RowsUnmoved DEF CoverInv, Deliveries
<1> QED BY <1>2, <1>3, <1>4, SentCovered

LEMMA AnswerElsewhereCovers ==
  ASSUME Types, Types', RowsInv', CoverInv, AnswerElsewhere
  PROVE  CoverInv'
<1>1. PICK es : /\ Sends(es)
                /\ \A k \in 1..Len(es) : ~IsPage(es[k]) /\ es[k].kind = "messages"
  BY EndSends
<1>2. \A k \in 1..Len(es) :
        ~IsPage(es[k]) /\ es[k].kind \notin {"message", "updateMessageSendSucceeded"}
  BY <1>1
<1>3. /\ view' = view /\ peer' = peer /\ Ended' = Ended
      /\ lastMessageId' = lastMessageId /\ dropped' = dropped /\ requests' = requests
      /\ sending' = sending
  BY DEF AnswerElsewhere, flags, Ended, past, server
<1>4. Sent(es)
  BY <1>1, <1>2, <1>3, RowsUnmoved DEF CoverInv, Deliveries
<1> QED BY <1>2, <1>3, <1>4, SentCovered

\* A step that changes nothing the invariant speaks of.
LEMMA UnchangedCovers ==
  ASSUME Types, Types', RowsInv', CoverInv, server' = server, inbox' = inbox,
         requests' = requests, view' = view, peer' = peer,
         Ended' = Ended,
         lastMessageId' = lastMessageId, dropped' = dropped
  PROVE  CoverInv'
<1>1. Sends(<<>>)
  BY NothingSends DEF server
<1>2. \A k \in 1..Len(<<>>) :
        ~IsPage(<<>>[k]) /\ <<>>[k].kind \notin {"message", "updateMessageSendSucceeded"}
  OBVIOUS
<1>3. PICK es : es = <<>>
  OBVIOUS
<1>4. /\ Sends(es)
      /\ \A k \in 1..Len(es) :
        ~IsPage(es[k]) /\ es[k].kind \notin {"message", "updateMessageSendSucceeded"}
  BY <1>1, <1>2, <1>3
<1>5. Sent(es)
  BY <1>4, RowsUnmoved DEF CoverInv, Deliveries, server
<1> QED BY <1>4, <1>5, SentCovered

\* The reader deletes a row.
LEMMA deleteMessageCovers ==
  ASSUME Types, Types', RowsInv, RowsInv', CoverInv, NEW i \in 1..Len(m_messages),
         deleteMessage(i), trouble' = {}
  PROVE  CoverInv'
<1>1. PICK n \in Nat : n = newest
  BY DEF Types
<1>2. PICK rows \in Seq(ARow(n)) : rows = m_messages
  BY <1>1 DEF Types, ViewTypes
<1>3. PICK row : row = m_messages[i]
  OBVIOUS
<1>4. row \in ARow(n)
  BY <1>2, <1>3, ElementOfSeq
<1>5. Removed(m_messages, i, m_messages')
  <2>1. m_messages' = RemoveAt(rows, i)
    BY <1>2 DEF deleteMessage
  <2>2. Distinct(rows) /\ i \in 1..Len(rows)
    BY <1>2 DEF RowsInv
  <2>3. Removed(rows, i, m_messages')
    <3>1. PICK result : result = m_messages'
      OBVIOUS
    <3>2. result = RemoveAt(rows, i)
      BY <2>1, <3>1
    <3>3. Removed(rows, i, result)
      BY <2>2, <3>2, RemovedRow
    <3> QED BY <3>1, <3>3
  <2> QED BY <1>2, <2>3
<1>6. /\ RowIds' \subseteq RowIds
      /\ TrueRows' = IF row.separator THEN TrueRows ELSE TrueRows \ {row.id}
  BY <1>3, <1>5 DEF Removed, TrueRows, RowIds, IdsOf
<1>7. /\ newest' = newest /\ requests' = requests /\ lastMessageId' = lastMessageId
      /\ peer' = peer /\ m_lastMessage' = m_lastMessage
      /\ isUpdateConnected' = isUpdateConnected /\ dropped' = dropped
      /\ Ended' = Ended /\ m_messages # <<>>
  BY DEF deleteMessage, flags, Ended
<1>8. SeparatorBelow(m_messages)'
  BY <1>5, <1>7 DEF CoverInv, Deliveries, Removed, SeparatorBelow, peer
<1>9. m_peerId
  BY <1>7 DEF CoverInv, Closed
<1>10. ASSUME NEW es, Sends(es), \A k \in 1..Len(es) : ~IsPage(es[k]),
              TrueRows \cap chat' \subseteq TrueRows',
              row.separator \/ (row.id \in chat \ chat'
                                /\ \A j \in 1..Len(es) : ~IsRenaming(es[j], row.id))
       PROVE  CoverInv'
  <2>1. Sent(es)
    BY <1>6, <1>7, <1>8, <1>9, <1>10 DEF Sent
  <2> QED BY <1>7, <1>10, <2>1, SentCovered
<1>11. CASE ~row.separator /\ row.id \in chat
  <2>1. Delete(row.id)
    BY <1>3, <1>11 DEF deleteMessage
  <2>2. PICK es : /\ Sends(es)
                  /\ \A k \in 1..Len(es) :
                       es[k].kind \in {"updateDeleteMessages", "updateChatLastMessage"}
    BY <1>7, <1>11, <2>1, DeleteSends
  <2>3. /\ \A k \in 1..Len(es) : ~IsPage(es[k])
        /\ \A k \in 1..Len(es) : \A x : ~IsRenaming(es[k], x)
    BY <2>2 DEF IsPage, IsRenaming
  <2>4. chat' = chat \ {row.id}
    BY <2>1 DEF Delete
  <2>5. TrueRows \cap chat' \subseteq TrueRows'
    BY <1>6, <2>4
  <2> QED BY <1>10, <1>11, <2>2, <2>3, <2>4, <2>5
<1>12. CASE ~(~row.separator /\ row.id \in chat)
  <2>1. chat' = chat /\ sending' = sending /\ inbox' = inbox
    BY <1>3, <1>12 DEF deleteMessage
  <2>2. row.separator
    BY <1>3, <1>12 DEF deleteMessage
  <2>3. PICK es : es = <<>>
    OBVIOUS
  <2>4. Sends(es) /\ \A k \in 1..Len(es) : ~IsPage(es[k])
    BY <1>7, <2>1, <2>3, NothingSends DEF server
  <2>5. TrueRows \cap chat' \subseteq TrueRows'
    BY <1>6, <2>2
  <2> QED BY <1>10, <2>2, <2>4, <2>5
<1> QED BY <1>11, <1>12

LEMMA AnswerHistoryCovers ==
  ASSUME Types, Types', RowsInv, RowsInv', CoverInv, NEW i \in 1..Len(requests), AnswerHistory(i)
  PROVE  CoverInv'
<1>1. PICK r \in Request(newest) : \E S, e : Answered(r, S, e) /\ Sends(<<e>>)
  BY HistorySends DEF RowsInv
<1>2. PICK S, e : Answered(r, S, e) /\ Sends(<<e>>)
  BY <1>1
<1>3. PICK es : es = <<e>>
  OBVIOUS
<1>4. /\ Len(requests) = 1 /\ requests[1] = r /\ requests' = <<>> /\ AnswerOf(r, S)
      /\ IsPage(e) /\ e.extra = r.extra /\ Brings(e) = S /\ Sends(es)
  BY <1>2, <1>3 DEF Answered
<1>5. /\ view' = view /\ peer' = peer /\ Ended' = Ended
      /\ lastMessageId' = lastMessageId /\ dropped' = dropped
  BY DEF AnswerHistory, flags, Ended, past
<1>6. m_peerId /\ 1 \in 1..Len(requests)
  <2>1. requests # <<>> /\ 1 \in 1..Len(requests)
    BY <1>4, EmptySeq DEF Types, ServerTypes
  <2> QED BY <2>1 DEF CoverInv, Closed
<1>7. Sent(es)
  BY <1>4, <1>5, <1>6, RowsUnmoved DEF CoverInv, Deliveries
<1>8. Deliveries' /\ OwnInv' /\ Closed' /\ Known' /\ Firm
  BY <1>7, SentRest, SentFirm
<1>9. Coverage
  BY DEF CoverInv
<1>10. From' = From
  BY <1>7, SameFrom DEF Sent, peer
<1>11. /\ newest \in Nat /\ chat \subseteq 1..newest /\ r.from \in 0..newest
  BY DEF Types, ServerTypes, Request
<1>12. ASSUME NEW u \in Unseen', u \notin S
       PROVE  CameFor(u, e)'
  <2>1. u \in Unseen /\ u \in chat
    BY <1>8 DEF Firm, Unseen
  <2>2. e.extra = "first" =>
          IF From # 0 /\ From < u THEN IsAbove(u, S) ELSE IsBelow(u, S)
    <3>1. ASSUME r.extra = "first"
          PROVE  IF r.from # 0 /\ r.from < u THEN IsAbove(u, S) ELSE IsBelow(u, S)
      BY <1>4, <1>12, <2>1, <3>1 DEF AnswerOf
    <3>2. r.extra = "first" => r.from = From
      BY <1>4, <1>6, <1>9 DEF Coverage, Asked
    <3> QED BY <1>4, <3>1, <3>2
  <2>3. e.extra = "prepend" => \/ S # {} /\ IsBelow(u, S)
                               \/ IsAbove(u, S) /\ AboveRows(u)
    <3>1. SUFFICES ASSUME r.extra = "prepend"
                   PROVE  \/ S # {} /\ IsBelow(u, S)
                          \/ IsAbove(u, S) /\ AboveRows(u)
      BY <1>4
    <3>2. u < r.from \/ AboveRows(u)
      BY <1>4, <1>6, <1>9, <2>1, <3>1 DEF Coverage, Asked
    <3>3. CASE u < r.from
      BY <1>4, <1>12, <2>1, <3>1, <3>3 DEF AnswerOf
    <3>4. CASE ~(u < r.from)
      <4>1. ASSUME NEW p \in S
            PROVE  p < u
        <5>1. p < r.from /\ p \in 1..newest
          BY <1>4, <1>11, <3>1 DEF AnswerOf
        <5> QED BY <1>11, <2>1, <3>4, <5>1
      <4> QED BY <3>2, <3>4, <4>1 DEF IsAbove
    <3> QED BY <3>3, <3>4
  <2>4. e.extra = "append" => BelowRows(u) \/ (IsAbove(u, S) /\ AboveRows(u))
    <3>1. SUFFICES ASSUME r.extra = "append", ~BelowRows(u)
                   PROVE  IsAbove(u, S) /\ AboveRows(u)
      BY <1>4
    <3>2. r.from # 0 /\ r.from < u /\ AboveRows(u)
      BY <1>4, <1>6, <1>9, <2>1, <3>1 DEF Coverage, Asked
    <3> QED BY <1>4, <1>12, <2>1, <3>1, <3>2 DEF AnswerOf
  <2>5. CameFor(u, e)
    BY <1>4, <2>2, <2>3, <2>4 DEF CameFor
  <2> QED BY <1>8, <1>10, <2>5, CameForStays
<1>13. \A k \in 1..Len(inbox') : \A x : x = inbox'[k] /\ IsPage(x) => x = e
  <2>1. Stays(es) /\ Len(es) = 1 /\ es[1] = e
    BY <1>3, <1>4, FollowStays DEF Sends
  <2>2. requests # <<>>
    BY <1>6
  <2>3. \A k \in 1..Len(inbox) : ~IsPage(inbox[k])
    BY <2>2 DEF RowsInv, Single
  <2>4. \A j \in 1..Len(es) : es[j] = e
    BY <2>1
  <2> QED BY <2>1, <2>3, <2>4 DEF Stays
<1>14. Came'
  <2>1. \A k \in 1..Len(inbox') : \A x : x = inbox'[k] /\ IsPage(x) =>
          \A u \in Unseen' : u \notin Brings(x) => CameFor(u, x)'
    BY <1>4, <1>12, <1>13
  <2> QED BY <2>1, CamePrimed
<1>15. Asked'
  BY <1>4 DEF Asked
<1>16. Covered'
  BY <1>8, <1>9 DEF Coverage, Covered, Firm
<1>17. HistEnd'
  <2> SUFFICES ASSUME Ended'
               PROVE  HistEnd'
    BY DEF HistEnd
  <2>1. /\ \A u \in Unseen : AboveRows(u)
        /\ e.extra # "prepend"
    BY <1>4, <1>5, <1>6, <1>9 DEF Coverage, HistEnd
  <2>2. \A u \in Unseen' : AboveRows(u)'
    BY <1>8, <2>1 DEF Firm
  <2>3. ASSUME NEW k \in 1..Len(inbox'), NEW x, x = inbox'[k], IsPage(x)
        PROVE  x.extra # "prepend"
    BY <1>13, <2>1, <2>3
  <2> QED BY <1>4, <2>2, <2>3 DEF HistEnd, IsPage
<1> QED BY <1>8, <1>14, <1>15, <1>16, <1>17 DEF CoverInv, Coverage

\* A page is asked for.
LEMMA AskedCovers ==
  ASSUME Types, Types', CoverInv, Idle, m_peerId,
         NEW r \in Request(newest), requests' = Append(requests, r),
         server' = server, inbox' = inbox, view' = view, peer' = peer,
         Ended' = Ended,
         lastMessageId' = lastMessageId, dropped' = dropped,
         r.extra = "first" => r.from = From,
         r.extra = "prepend" =>
           ~Ended /\ \A u \in Unseen : u < r.from \/ AboveRows(u),
         r.extra = "append" =>
           r.from # 0 /\ \A u \in Unseen : \/ u < r.from /\ BelowRows(u)
                                           \/ r.from < u /\ AboveRows(u)
  PROVE  CoverInv'
<1>1. Sends(<<>>)
  BY NothingSends DEF server
<1>2. PICK es : es = <<>>
  OBVIOUS
<1>3. Sends(es)
  BY <1>1, <1>2
<1>4. Sent(es)
  BY <1>3, RowsUnmoved DEF CoverInv, Deliveries
<1>5. Deliveries' /\ OwnInv' /\ Closed' /\ Known' /\ Firm
  BY <1>4, SentRest, SentFirm
<1>6. From' = From
  BY <1>4, SameFrom DEF Sent, peer
<1>7. /\ \A j \in 1..Len(requests') : requests'[j] = r
      /\ \A k \in 1..Len(inbox') : \A x : x = inbox'[k] => ~IsPage(x)
  BY DEF Idle
<1>8. Covered'
  BY <1>5 DEF CoverInv, Coverage, Covered, Firm
<1>9. Came'
  BY <1>7, CamePrimed
<1>10. Asked'
  <2>1. \A u \in Unseen' : u \in Unseen /\ (BelowRows(u) => BelowRows(u)')
                                        /\ (AboveRows(u) => AboveRows(u)')
    BY <1>5 DEF Firm
  <2>2. r.extra = "first" => r.from = From'
    BY <1>6
  <2>3. r.extra = "prepend" => \A u \in Unseen' : u < r.from \/ AboveRows(u)'
    BY <2>1
  <2>4. r.extra = "append" =>
           r.from # 0 /\ \A u \in Unseen' : \/ u < r.from /\ BelowRows(u)'
                                            \/ r.from < u /\ AboveRows(u)'
    BY <2>1
  <2> QED BY <1>7, <2>2, <2>3, <2>4 DEF Asked
<1>11. HistEnd'
  <2> SUFFICES ASSUME Ended'
               PROVE  HistEnd'
    BY DEF HistEnd
  <2>1. (\A u \in Unseen : AboveRows(u)) /\ r.extra # "prepend"
    BY DEF CoverInv, Coverage, HistEnd
  <2>2. \A u \in Unseen' : AboveRows(u)'
    BY <1>5, <2>1 DEF Firm
  <2> QED BY <1>7, <2>1, <2>2 DEF HistEnd, IsPage
<1> QED BY <1>5, <1>8, <1>9, <1>10, <1>11 DEF CoverInv, Coverage

LEMMA fetchMoreCovers ==
  ASSUME Types, Types', CoverInv, fetchMore, trouble' = {}
  PROVE  CoverInv'
<1>1. CASE m_messages = <<>>
  <2>1. From \in 0..newest
    BY DEF From, Types, ViewTypes
  <2>2. getChatHistory("first", From)
    BY <1>1 DEF fetchMore, From
  <2>3. PICK from : from = From
    OBVIOUS
  <2>4. PICK r : r = [extra |-> "first", from |-> from]
    OBVIOUS
  <2>5. r \in Request(newest) /\ r.extra = "first" /\ r.from = From
    BY <2>1, <2>3, <2>4 DEF Request, Extras
  <2>6. requests' = Append(requests, r)
    BY <2>2, <2>3, <2>4 DEF getChatHistory
  <2>7. Idle
    BY <2>2, AskedInOrder
  <2>8. /\ m_peerId /\ server' = server /\ inbox' = inbox /\ view' = view /\ peer' = peer
        /\ Ended' = Ended
        /\ lastMessageId' = lastMessageId /\ dropped' = dropped
    BY DEF fetchMore, Ended
  <2> QED BY <2>5, <2>6, <2>7, <2>8, AskedCovers
<1>2. CASE m_messages # <<>>
  <2>1. PICK z : z = Last(m_messages).id
    OBVIOUS
  <2>2. getChatHistory("append", z)
    BY <1>2, <2>1 DEF fetchMore
  <2>3. Idle /\ Ascending
    BY <2>2, AskedInOrder
  <2>4. /\ z \in 1..newest /\ newest \in Nat /\ z \in RowIds /\ RowIds \subseteq 1..newest
        /\ \A row \in RowIds : row <= z
    BY <1>2, <2>1, <2>3, EndRows, AscendingEnds, GivenBefore
  <2>5. PICK r : r = [extra |-> "append", from |-> z]
    OBVIOUS
  <2>6. r \in Request(newest) /\ r.extra = "append" /\ r.from = z /\ z # 0
    BY <2>4, <2>5 DEF Request, Extras
  <2>7. requests' = Append(requests, r)
    BY <2>2, <2>5 DEF getChatHistory
  <2>8. ASSUME NEW u \in Unseen
        PROVE  (u < z /\ BelowRows(u)) \/ (z < u /\ AboveRows(u))
    BY <2>4 DEF CoverInv, Coverage, Covered, BelowRows, AboveRows
  <2>9. /\ m_peerId /\ server' = server /\ inbox' = inbox /\ view' = view /\ peer' = peer
        /\ Ended' = Ended
        /\ lastMessageId' = lastMessageId /\ dropped' = dropped
    BY DEF fetchMore, Ended
  <2> QED BY <2>3, <2>6, <2>7, <2>8, <2>9, AskedCovers
<1> QED BY <1>1, <1>2

LEMMA fetchOlderCovers ==
  ASSUME Types, Types', CoverInv, fetchOlder, trouble' = {}
  PROVE  CoverInv'
<1>1. PICK a : a = Head(m_messages).id
  OBVIOUS
<1>2. m_messages # <<>> /\ getChatHistory("prepend", a) /\ ~Ended
  BY <1>1 DEF fetchOlder, Ended
<1>3. Idle
  BY <1>2, AskedInOrder
<1>4. a \in 1..newest /\ newest \in Nat /\ a \in RowIds
  BY <1>1, <1>2, EndRows DEF Types
<1>5. PICK r : r = [extra |-> "prepend", from |-> a]
  OBVIOUS
<1>6. r \in Request(newest) /\ r.extra = "prepend" /\ r.from = a
  BY <1>4, <1>5 DEF Request, Extras
<1>7. requests' = Append(requests, r)
  BY <1>2, <1>5 DEF getChatHistory
<1>8. \A u \in Unseen : u < a \/ AboveRows(u)
  BY <1>4 DEF CoverInv, Coverage, Covered, BelowRows
<1>9. /\ server' = server /\ inbox' = inbox /\ view' = view /\ peer' = peer
      /\ Ended' = Ended
      /\ lastMessageId' = lastMessageId /\ dropped' = dropped
  BY DEF fetchOlder, Ended
<1>10. m_peerId
  BY <1>2 DEF CoverInv, Closed
<1> QED BY <1>2, <1>3, <1>6, <1>7, <1>8, <1>9, <1>10, AskedCovers

LEMMA searchCovers ==
  ASSUME Types, Types', RowsInv', CoverInv, searchChatMessages
  PROVE  CoverInv'
BY UnchangedCovers DEF searchChatMessages, flags, Ended, past

LEMMA setPeerIdCovers ==
  ASSUME Types, Types', CoverInv, setPeerId
  PROVE  CoverInv'
<1>1. /\ chat' = chat /\ sending' = sending /\ newest' = newest /\ requests' = requests
      /\ inbox' = inbox /\ m_messages' = m_messages /\ isUpdateConnected' = isUpdateConnected
      /\ Ended' = Ended /\ ~m_peerId /\ m_peerId'
      /\ m_lastMessage' = lastMessageId /\ dropped' = {id \in dropped : id > lastMessageId}
  BY DEF setPeerId, server, flags, Ended
<1>2. /\ m_messages = <<>> /\ ~isUpdateConnected /\ requests = <<>> /\ sending = {}
      /\ ~Ended
      /\ \A k \in 1..Len(inbox) :
           ~IsPage(inbox[k]) /\ inbox[k].kind \notin {"message", "updateMessageSendSucceeded"}
      /\ \A id \in chat : id <= lastMessageId \/ id \in dropped \/ Announced(id)
  BY <1>1 DEF CoverInv, Closed
<1>3. Once' /\ Live' /\ NewsLast'
  BY <1>1 DEF CoverInv, Deliveries, Once, Live, NewsLast, TrueRows, GoneAfter, Announced
<1>4. SeparatorBelow(m_messages)' /\ RowIds' = {} /\ TrueRows' = {}
  BY <1>1, <1>2 DEF SeparatorBelow, RowIds, TrueRows, TrueOf
<1>5. OwnInv'
  <2>1. Own' = {}
    BY <1>1, <1>2 DEF Own, IsEcho, IsRenaming
  <2>2. OwnRows'
    BY <1>1, <1>2 DEF OwnRows
  <2> QED BY <2>1, <2>2 DEF OwnInv, OwnNewest
<1>6. Closed'
  BY <1>1 DEF Closed
<1>7. Known'
  <2> SUFFICES ASSUME NEW u \in Unseen'
               PROVE  u <= lastMessageId
    BY <1>1 DEF Known
  <2>1. u \in chat /\ u \notin dropped' /\ ~Announced(u)
    BY <1>1 DEF Unseen, Announced
  <2>2. newest \in Nat /\ u \in 1..newest /\ lastMessageId \in 0..newest
    BY <2>1 DEF Types, ServerTypes
  <2>3. u <= lastMessageId \/ u \in dropped
    BY <1>2, <2>1
  <2> QED BY <1>1, <2>1, <2>2, <2>3
<1>8. Coverage'
  <2>1. Idle'
    BY <1>1, <1>2 DEF Idle
  <2>2. Covered'
    BY <1>4 DEF Covered, BelowRows
  <2> QED BY <1>1, <1>2, <2>1, <2>2, NobodyWaits
<1> QED BY <1>3, <1>4, <1>5, <1>6, <1>7, <1>8 DEF CoverInv, Deliveries

-----------------------------------------------------------------------------
(* The handlers. *)

LEMMA HandlersRest ==
  ASSUME Types, RowsInv, CoverInv, Handle, trouble' = {}
  PROVE  /\ Handled /\ Shows
         /\ Deliveries' /\ OwnInv' /\ Closed' /\ Known'
         /\ Unseen' \subseteq Unseen
BY HandlersShow, HandledRest DEF CoverInv

\* A handler that leaves what is covered covered.
LEMMA HandledFirm ==
  ASSUME Types, RowsInv', CoverInv, Handled, Firm, Ended' => Ended
  PROVE  Coverage'
BY StillCovered, PagesLeft DEF CoverInv, Handled

LEMMA updateChatLastMessageCovers ==
  ASSUME Types, RowsInv', CoverInv, updateChatLastMessage, Handled, Unseen' \subseteq Unseen
  PROVE  Coverage'
<1>1. /\ m_messages' = m_messages /\ isUpdateConnected' = isUpdateConnected
      /\ m_lastMessage' = m_lastMessage /\ Ended' = Ended
  BY DEF updateChatLastMessage, view, flags, Ended
<1>2. From' = From
  BY <1>1, SameFrom DEF Handled
<1>3. RowIds' \subseteq RowIds
  BY <1>1 DEF RowIds
<1>4. Firm
  BY <1>1, <1>2, <1>3, RowsShrink
<1> QED BY <1>1, <1>4, HandledFirm

LEMMA onMessageDeletedCovers ==
  ASSUME Types, RowsInv, RowsInv', CoverInv, onMessageDeleted, Handled, Unseen' \subseteq Unseen
  PROVE  Coverage'
<1>1. /\ isUpdateConnected' = isUpdateConnected
      /\ m_lastMessage' = m_lastMessage /\ Ended' = Ended
  BY DEF onMessageDeleted, flags, Ended
<1>2. From' = From
  BY <1>1, SameFrom DEF Handled
<1>3. RowIds' \subseteq RowIds
  <2>1. CASE Received.id \notin RowIds
    BY <2>1, RowDeleted DEF RowIds
  <2>2. CASE Received.id \in RowIds
    BY <2>2, RowDeleted DEF RowIds, Removed, IdsOf
  <2> QED BY <2>1, <2>2
<1>4. Firm
  BY <1>1, <1>2, <1>3, RowsShrink
<1> QED BY <1>1, <1>4, HandledFirm

\* The new id of an own message is above all that is unseen, as the old one was.
LEMMA updateMessageSendCovers ==
  ASSUME Types, RowsInv, RowsInv', CoverInv, updateMessageSend, Handled, Unseen' \subseteq Unseen
  PROVE  Coverage'
<1>1. PICK old : old = Received.old_message_id
  OBVIOUS
<1>2. PICK y : y = Received.id
  OBVIOUS
<1>3. /\ Consume("updateMessageSendSucceeded") /\ Received = inbox[1] /\ IsNew(inbox[1])
      /\ y \in 1..newest /\ old \in 1..newest /\ Brings(inbox[1]) = {y}
      /\ old \notin RowIds => m_messages' = m_messages
      /\ old \in RowIds =>
           \E i \in 1..Len(m_messages) : Replaced(m_messages, i, y, m_messages')
  BY <1>1, <1>2, RowRenamed
<1>4. /\ isUpdateConnected' = isUpdateConnected
      /\ m_lastMessage' = m_lastMessage /\ Ended' = Ended
  BY DEF updateMessageSend, flags, Ended
<1>5. From' = From
  BY <1>4, SameFrom DEF Handled
<1>6. CASE old \notin RowIds
  <2>1. RowIds' \subseteq RowIds
    BY <1>3, <1>6 DEF RowIds
  <2>2. Firm
    BY <1>4, <1>5, <2>1, RowsShrink
  <2> QED BY <1>4, <2>2, HandledFirm
<1>7. CASE old \in RowIds
  <2>1. PICK i \in 1..Len(m_messages) : Replaced(m_messages, i, y, m_messages')
    BY <1>3, <1>7
  <2>2. RowIds' \subseteq RowIds \cup {y}
    BY <2>1 DEF Replaced, RowIds, IdsOf
  <2>3. old < y
    BY <1>3, <1>7, NewAbove DEF RowsInv
  <2>4. old \in Own
    <3>1. inbox[1].kind = "updateMessageSendSucceeded" /\ inbox[1].old_message_id = old
      BY <1>1, <1>3 DEF Consume
    <3>2. 1 \in 1..Len(inbox) /\ IsRenaming(inbox[1], old)
      BY <3>1 DEF IsRenaming, Handled, Shifted
    <3> QED BY <1>3, <3>2 DEF Own
  <2>5. ASSUME NEW u \in Unseen'
        PROVE  /\ BelowRows(u) => BelowRows(u)'
               /\ ~AboveRows(u)
    <3>1. u < old
      BY <2>4 DEF CoverInv, OwnInv, OwnNewest
    <3>2. u \in 1..newest /\ newest \in Nat
      BY DEF Types, ServerTypes, Unseen
    <3>3. u < y /\ ~(old < u)
      BY <1>3, <2>3, <3>1, <3>2
    <3>4. BelowRows(u) => BelowRows(u)'
      BY <2>2, <3>3 DEF BelowRows
    <3> QED BY <1>7, <3>3, <3>4 DEF AboveRows
  <2>6. Firm
    BY <1>5, <2>5 DEF Firm
  <2> QED BY <1>4, <2>6, HandledFirm
<1> QED BY <1>6, <1>7

LEMMA addMessageFromUpdateCovers ==
  ASSUME Types, RowsInv, RowsInv', CoverInv, addMessageFromUpdate, Handled,
         Unseen' \subseteq Unseen
  PROVE  Coverage'
<1>1. Consume("updateNewMessage")
  BY DEF addMessageFromUpdate
<1>2. PICK m \in Msg(newest) : m = Received.message
  BY <1>1, MessageBrought
<1>3. Brings(inbox[1]) = {m.id} /\ IsNew(inbox[1])
  BY <1>1, <1>2, MessageBrought
<1>4. m.id \notin RowIds
  BY <1>1, <1>3, NewAbove DEF RowsInv
<1>5. Ended' = Ended
  BY DEF addMessageFromUpdate, flags, Ended
<1>6. CASE isUpdateConnected
  <2>1. appendMessage(<<m>>, m_lastMessage)
    BY <1>2, <1>6 DEF addMessageFromUpdate
  <2>2. OneAppended(m, m_lastMessage)
    BY <1>4, <2>1, AppendOne DEF RowsInv
  <2>3. RowIds' = RowIds \cup {m.id} /\ isUpdateConnected'
    BY <1>4, <1>6, <2>2 DEF OneAppended, Grown, RowIds, IdsOf
  <2>4. ASSUME NEW u \in Unseen'
        PROVE  /\ BelowRows(u) => BelowRows(u)'
               /\ ~AboveRows(u)
    <3>1. u \in chat /\ ~Announced(u)
      BY DEF Unseen
    <3>2. 1 \in 1..Len(inbox)
      BY DEF Handled, Shifted
    <3>3. u < m.id
      BY <1>3, <3>1, <3>2 DEF CoverInv, Deliveries, NewsLast
    <3> QED BY <1>6, <2>3, <3>3 DEF BelowRows, AboveRows, AtTop
  <2>5. Firm
    BY <2>3, <2>4 DEF Firm
  <2> QED BY <1>5, <2>5, HandledFirm
<1>7. CASE ~isUpdateConnected
  <2>1. m_messages' = m_messages /\ isUpdateConnected' = isUpdateConnected
        /\ m_lastMessage' = m_lastMessage
    BY <1>7 DEF addMessageFromUpdate, view
  <2>2. From' = From
    BY <2>1, SameFrom DEF Handled
  <2>3. RowIds' \subseteq RowIds
    BY <2>1 DEF RowIds
  <2>4. Firm
    BY <2>1, <2>2, <2>3, RowsShrink
  <2> QED BY <1>5, <2>4, HandledFirm
<1> QED BY <1>6, <1>7

\* Before the list is connected it waits for a message that bounds what is unseen.
LEMMA Waiting ==
  ASSUME CoverInv, NEW k \in 1..Len(inbox), IsPage(inbox[k]) \/ inbox[k].kind = "message",
         ~isUpdateConnected
  PROVE  \A u \in Unseen : u <= m_lastMessage
<1>1. m_peerId
  BY DEF CoverInv, Closed
<1> QED BY <1>1 DEF CoverInv, Known

LEMMA onMessageReceivedCovers ==
  ASSUME Types, RowsInv, RowsInv', CoverInv, onMessageReceived, trouble' = {}, Handled,
         Unseen' \subseteq Unseen
  PROVE  Coverage'
<1>1. Consume("message")
  BY DEF onMessageReceived
<1>2. PICK m \in Msg(newest) : m = Received.message /\ m.sending
  BY <1>1, MessageBrought
<1>3. /\ inbox[1].kind = "message" /\ inbox[1].message = m /\ 1 \in 1..Len(inbox)
  BY <1>1, <1>2, ConsumeShifts DEF Handled, Shifted
<1>4. Ended' = Ended /\ requests' = requests
  BY DEF onMessageReceived, flags, Ended
<1>5. PICK last : last = m_lastMessage' /\ appendMessage(<<m>>, last)
  BY <1>2 DEF onMessageReceived
<1>6. OneAppended(m, last)
  BY <1>2, <1>5, AppendOne DEF RowsInv
<1>7. m.id \in 1..newest /\ newest \in Nat /\ Unseen \subseteq 1..newest
      /\ m_lastMessage \in 0..newest
  BY DEF Msg, Types, ServerTypes, ViewTypes, Unseen
<1>8. m.id \in Own
  BY <1>3, <1>7 DEF Own, IsEcho
<1>9. /\ \A u \in Unseen : u < m.id
      /\ ~isUpdateConnected => m_lastMessage < m.id
  BY <1>8 DEF CoverInv, OwnInv, OwnNewest
<1>10. ~isUpdateConnected => \A u \in Unseen : u <= m_lastMessage
  BY <1>3, Waiting
<1>11. CASE m.id \notin RowIds
  <2>1. /\ Grown(m_messages, {m.id}, m_messages') /\ Added(<<m>>) = <<m>>
        /\ isUpdateConnected' = (isUpdateConnected \/ last = m.id)
    BY <1>6, <1>11 DEF OneAppended
  <2>2. <<m>> # <<>>
    OBVIOUS
  <2>3. ~Outstanding /\ isUpdateConnected'
    <3>1. Outstanding \/ ~isUpdateConnected' => trouble' = trouble \cup {"early"}
      BY <1>2, <2>1, <2>2 DEF onMessageReceived
    <3> QED BY <3>1
  <2>4. last = IF m_lastMessage = 0 THEN m.id ELSE m_lastMessage
    BY <1>2, <1>5, <2>1, <2>2 DEF onMessageReceived
  <2>5. RowIds' = RowIds \cup {m.id}
    BY <2>1 DEF Grown, RowIds, IdsOf
  <2>6. ASSUME NEW u \in Unseen
        PROVE  ~AboveRows(u)
    <3>1. CASE isUpdateConnected
      BY <3>1 DEF AboveRows, AtTop
    <3>2. CASE ~isUpdateConnected
      <4>1. last = m.id
        BY <2>1, <2>3, <3>2
      <4>2. m_lastMessage < m.id /\ u <= m_lastMessage
        BY <1>9, <1>10, <3>2
      <4> QED BY <1>7, <2>4, <4>1, <4>2
    <3> QED BY <3>1, <3>2
  <2>7. Covered'
    <3>1. ASSUME NEW u \in Unseen'
          PROVE  BelowRows(u)'
      <4>1. BelowRows(u)
        BY <2>6 DEF CoverInv, Coverage, Covered
      <4> QED BY <1>9, <2>5, <4>1 DEF BelowRows
    <3> QED BY <3>1 DEF Covered
  <2>8. Idle'
    BY <1>1, <1>4, <2>3, IdleFacts, IdleStays
  <2>9. Ended' => \A u \in Unseen' : AboveRows(u)'
    BY <1>4, <2>6 DEF CoverInv, Coverage, HistEnd
  <2> QED BY <2>7, <2>8, <2>9, NobodyWaits
<1>12. CASE m.id \in RowIds
  <2>1. /\ m_messages' = m_messages /\ m_messages # <<>> /\ Added(<<m>>) = <<>>
        /\ isUpdateConnected' = (isUpdateConnected \/ last = Last(m_messages).id)
    BY <1>6, <1>12 DEF OneAppended
  <2>2. m_lastMessage' = m_lastMessage
    BY <1>2, <2>1 DEF onMessageReceived
  <2>3. From' = From
    BY <2>2, SameFrom DEF Handled
  <2>4. RowIds' = RowIds
    BY <2>1 DEF RowIds
  <2>5. CASE isUpdateConnected' = isUpdateConnected
    <3>1. Firm
      BY <2>3, <2>4, <2>5, RowsShrink
    <3> QED BY <1>4, <3>1, HandledFirm
  <2>6. CASE ~isUpdateConnected /\ m_lastMessage = Last(m_messages).id /\ isUpdateConnected'
    <3>1. m_lastMessage \in RowIds
      BY <2>1, <2>6, EndRows
    <3>2. ASSUME NEW u \in Unseen'
          PROVE  ~AboveRows(u)
      <4>1. u <= m_lastMessage /\ u \in 1..newest
        BY <1>7, <1>10, <2>6
      <4>2. ~(m_lastMessage < u)
        BY <1>7, <4>1
      <4> QED BY <3>1, <4>2 DEF AboveRows
    <3>3. \A u \in Unseen' : BelowRows(u) => BelowRows(u)'
      BY <2>4 DEF BelowRows
    <3>4. Firm
      BY <2>6, <3>2, <3>3 DEF Firm
    <3> QED BY <1>4, <3>4, HandledFirm
  <2>7. isUpdateConnected \in BOOLEAN /\ isUpdateConnected' \in BOOLEAN
    BY <2>1 DEF Types, OtherTypes
  <2> QED BY <1>5, <2>1, <2>2, <2>5, <2>6, <2>7
<1> QED BY <1>11, <1>12

\* What a page brings that is handled, and what it leaves unseen.
LEMMA PageTaken ==
  ASSUME Types, RowsInv, CoverInv, addMessages, trouble' = {}, Handled, Shows,
         Unseen' \subseteq Unseen, IsPage(inbox[1])
  PROVE  /\ Idle' /\ From' = From /\ m_lastMessage' = m_lastMessage
         /\ ~isUpdateConnected => \A u \in Unseen : u <= m_lastMessage
         /\ \A u \in Unseen' : u \notin Brings(inbox[1]) => CameFor(u, inbox[1])
<1>1. Consume("messages") /\ m_lastMessage' = m_lastMessage /\ requests' = requests
  BY DEF addMessages
<1>2. 1 \in 1..Len(inbox)
  BY DEF Handled, Shifted
<1>3. Idle'
  BY <1>1, PageHandled DEF RowsInv
<1>4. From' = From
  BY <1>1, SameFrom DEF Handled
<1>5. ~isUpdateConnected => \A u \in Unseen : u <= m_lastMessage
  BY <1>2, Waiting
<1>6. Came
  BY DEF CoverInv, Coverage
<1>7. ASSUME NEW u \in Unseen', u \notin Brings(inbox[1])
      PROVE  CameFor(u, inbox[1])
  BY <1>2, <1>6, <1>7 DEF Came
<1> QED BY <1>1, <1>3, <1>4, <1>5, <1>7

\* An id that is above a page does not become covered by updates with it.
LEMMA StillAbove ==
  ASSUME NEW u, From' = From, NEW S, RowIds' = S, \A row \in S : row < u,
         From # 0, From < u, ~isUpdateConnected'
  PROVE  AboveRows(u)'
<1>1. PICK from : from = From
  OBVIOUS
<1>2. from = From' /\ from # 0 /\ from < u
  BY <1>1
<1>3. ~AtTop'
  BY <1>2 DEF AtTop
<1> QED BY <1>2, <1>3 DEF AboveRows

LEMMA FirstPageCovers ==
  ASSUME Types, RowsInv, CoverInv, addMessages, trouble' = {}, Handled, Shows,
         Unseen' \subseteq Unseen, IsPage(inbox[1]), Received = inbox[1],
         Received.extra = "first",
         Brings(inbox[1]) = IdsOf(Received.messages)
  PROVE  Coverage'
<1>1. PageAdded
  BY PagesAdded
<1>2. PICK P : P = Brings(inbox[1])
  OBVIOUS
<1>3. /\ m_messages = <<>> /\ ~isUpdateConnected
      /\ RowIds' = P /\ TrueRows' = P /\ isUpdateConnected' = (m_lastMessage \in P)
  BY <1>1, <1>2, PageReceived DEF PageAdded, RowIds, TrueRows, IdsOf
<1>4. Ended' => Ended
  BY <1>1 DEF PageAdded, addFirst, addMessages, Ended
<1>5. /\ Idle' /\ From' = From
      /\ \A u \in Unseen : u <= m_lastMessage
      /\ \A u \in Unseen' : u \notin P => CameFor(u, inbox[1])
  BY <1>2, <1>3, PageTaken
<1>6. newest \in Nat /\ m_lastMessage \in 0..newest /\ Unseen \subseteq 1..newest
  BY DEF Types, ServerTypes, ViewTypes, Unseen
<1>7. ASSUME NEW u \in Unseen'
      PROVE  IF From # 0 /\ From < u THEN AboveRows(u)' ELSE BelowRows(u)'
  <2>1. u \notin P
    BY <1>3 DEF Unseen
  <2>2. IF From # 0 /\ From < u THEN IsAbove(u, P) ELSE IsBelow(u, P)
    BY <1>2, <1>5, <1>7, <2>1 DEF CameFor
  <2>3. CASE From # 0 /\ From < u
    <3>1. \A p \in P : p < u
      BY <2>2, <2>3 DEF IsAbove
    <3>2. ~(m_lastMessage < u)
      <4>1. u <= m_lastMessage /\ u \in 1..newest
        BY <1>5, <1>6
      <4> QED BY <1>6, <4>1
    <3>3. ~isUpdateConnected'
      BY <1>3, <3>1, <3>2
    <3>4. AboveRows(u)'
      BY <1>3, <1>5, <2>3, <3>1, <3>3, StillAbove
    <3> QED BY <2>3, <3>4
  <2>4. CASE ~(From # 0 /\ From < u)
    <3>1. BelowRows(u)'
      BY <1>3, <2>2, <2>4 DEF IsBelow, BelowRows
    <3> QED BY <2>4, <3>1
  <2> QED BY <2>3, <2>4
<1>8. Covered'
  BY <1>7 DEF Covered
<1>9. ASSUME Ended', NEW u \in Unseen'
      PROVE  AboveRows(u)'
  <2>1. AboveRows(u)
    BY <1>4, <1>9 DEF CoverInv, Coverage, HistEnd
  <2>2. From # 0 /\ From < u
    BY <2>1 DEF AboveRows, AtTop
  <2> QED BY <1>7, <2>2
<1> QED BY <1>5, <1>8, <1>9, NobodyWaits

LEMMA OlderPageCovers ==
  ASSUME Types, RowsInv, CoverInv, addMessages, trouble' = {}, Handled, Shows,
         Unseen' \subseteq Unseen, IsPage(inbox[1]), Received = inbox[1],
         Received.extra = "prepend",
         Brings(inbox[1]) = IdsOf(Received.messages)
  PROVE  Coverage'
<1>1. PageAdded
  BY PagesAdded
<1>2. PICK P : P = Brings(inbox[1])
  OBVIOUS
<1>3. /\ RowIds' = RowIds \cup P /\ TrueRows' = TrueRows \cup P
      /\ isUpdateConnected' = isUpdateConnected
  BY <1>1, <1>2 DEF PageAdded, Foreign, RowIds, TrueRows, IdsOf, Grown
<1>4. Ended' => Ended \/ Received.messages = <<>>
  BY <1>1 DEF PageAdded, prependMessages, addMessages, Ended
<1>5. /\ Idle' /\ From' = From
      /\ \A u \in Unseen' : u \notin P => CameFor(u, inbox[1])
  BY <1>2, PageTaken
<1>6. newest \in Nat /\ RowIds \subseteq 1..newest /\ P \subseteq 1..newest
      /\ Unseen \subseteq 1..newest /\ 1 \in 1..Len(inbox)
  <2>1. 1 \in 1..Len(inbox)
    BY DEF Handled, Shifted
  <2>2. Unseen \subseteq 1..newest
    BY DEF Types, ServerTypes, Unseen
  <2> QED BY <1>2, <2>1, <2>2, GivenBefore
<1>7. \A p \in P : \A row \in RowIds : p < row
  BY <1>2, PageReceived
<1>8. ASSUME NEW u \in Unseen'
      PROVE  (P # {} /\ BelowRows(u)') \/ AboveRows(u)'
  <2>1. u \notin P /\ u \in 1..newest
    BY <1>3, <1>6 DEF Unseen
  <2>2. (P # {} /\ IsBelow(u, P)) \/ (IsAbove(u, P) /\ AboveRows(u))
    BY <1>2, <1>5, <1>8, <2>1 DEF CameFor
  <2>3. CASE P # {} /\ IsBelow(u, P)
    <3>1. PICK p \in P : u < p
      BY <2>3 DEF IsBelow
    <3>2. ASSUME NEW row \in RowIds
          PROVE  u < row
      <4>1. p < row /\ p \in 1..newest /\ row \in 1..newest
        BY <1>6, <1>7
      <4> QED BY <1>6, <2>1, <3>1, <4>1
    <3> QED BY <1>3, <2>3, <3>2 DEF BelowRows, IsBelow
  <2>4. CASE IsAbove(u, P) /\ AboveRows(u)
    <3>1. /\ \A row \in RowIds \cup P : row < u
          /\ From # 0 /\ From < u /\ ~isUpdateConnected
      BY <2>4 DEF IsAbove, AboveRows, AtTop
    <3>2. AboveRows(u)'
      BY <1>3, <1>5, <3>1, StillAbove
    <3> QED BY <3>2
  <2> QED BY <2>2, <2>3, <2>4
<1>9. Covered'
  BY <1>8 DEF Covered
<1>10. ASSUME Ended', NEW u \in Unseen'
       PROVE  AboveRows(u)'
  <2>1. ~Ended
    BY <1>6 DEF CoverInv, Coverage, HistEnd
  <2>2. Received.messages = <<>>
    BY <1>4, <1>10, <2>1
  <2>3. P = {}
    BY <1>2, <2>2, EmptySeq DEF IdsOf
  <2> QED BY <1>8, <2>3
<1> QED BY <1>5, <1>9, <1>10, NobodyWaits

LEMMA NewerPageCovers ==
  ASSUME Types, RowsInv, RowsInv', CoverInv, addMessages, trouble' = {}, Handled, Shows,
         Unseen' \subseteq Unseen, IsPage(inbox[1]), Received = inbox[1],
         Received.extra = "append",
         Brings(inbox[1]) = IdsOf(Received.messages)
  PROVE  Coverage'
<1>1. PageAdded
  BY PagesAdded
<1>2. PICK P : P = Brings(inbox[1])
  OBVIOUS
<1>3. /\ Idle' /\ From' = From /\ m_lastMessage' = m_lastMessage
      /\ ~isUpdateConnected => \A u \in Unseen : u <= m_lastMessage
      /\ \A u \in Unseen' : u \notin P => CameFor(u, inbox[1])
  BY <1>2, PageTaken
<1>4. Ended' => Ended
  BY <1>1 DEF PageAdded, appendNewer, flags, addMessages, Ended
<1>5. newest \in Nat /\ RowIds \subseteq 1..newest /\ P \subseteq 1..newest
      /\ Unseen \subseteq 1..newest /\ m_lastMessage \in 0..newest
  <2>1. 1 \in 1..Len(inbox)
    BY DEF Handled, Shifted
  <2>2. Unseen \subseteq 1..newest /\ m_lastMessage \in 0..newest
    BY DEF Types, ServerTypes, ViewTypes, Unseen
  <2> QED BY <1>2, <2>1, <2>2, GivenBefore
<1>6. CASE Received.messages = <<>> \/ m_messages = <<>>
  <2>1. m_messages' = m_messages /\ isUpdateConnected' = isUpdateConnected
    BY <1>1, <1>6 DEF PageAdded
  <2>2. RowIds' \subseteq RowIds
    BY <2>1 DEF RowIds
  <2>3. Firm
    BY <1>3, <2>1, <2>2, RowsShrink
  <2> QED BY <1>4, <2>3, HandledFirm
<1>7. CASE ~(Received.messages = <<>> \/ m_messages = <<>>)
  <2>1. PICK z : z = Last(m_messages).id
    OBVIOUS
  <2>2. PICK ids : /\ ids = {id \in P : id > z}
                   /\ Grown(m_messages, ids, m_messages')
                   /\ isUpdateConnected' = (isUpdateConnected \/ m_lastMessage \in ids)
    BY <1>1, <1>2, <1>7, <2>1 DEF PageAdded, Foreign
  <2>3. RowIds' = RowIds \cup ids /\ TrueRows' = TrueRows \cup ids
    BY <2>2 DEF RowIds, TrueRows, IdsOf, Grown
  <2>4. z \in RowIds /\ z \in 1..newest
    BY <1>7, <2>1, EndRows
  <2>5. ASSUME NEW u \in Unseen'
        PROVE  (u < z /\ BelowRows(u)') \/ (z < u /\ AboveRows(u)')
    <3>1. u \notin ids /\ u \in Unseen /\ u \in 1..newest
      BY <1>5, <2>3 DEF Unseen
    <3>2. ASSUME BelowRows(u)
          PROVE  u < z /\ BelowRows(u)'
      <4>1. u < z
        BY <2>4, <3>2 DEF BelowRows
      <4>2. ASSUME NEW id \in ids
            PROVE  u < id
        <5>1. z < id /\ id \in 1..newest
          BY <1>5, <2>2
        <5> QED BY <1>5, <2>4, <3>1, <4>1, <5>1
      <4> QED BY <2>3, <3>2, <4>1, <4>2 DEF BelowRows
    <3>3. CASE u \in P
      <4>1. ~(z < u)
        BY <1>5, <2>2, <2>4, <3>1, <3>3
      <4>2. ~AboveRows(u)
        BY <2>4, <4>1 DEF AboveRows
      <4>3. BelowRows(u)
        BY <3>1, <4>2 DEF CoverInv, Coverage, Covered
      <4> QED BY <3>2, <4>3
    <3>4. CASE u \notin P
      <4>1. BelowRows(u) \/ (IsAbove(u, P) /\ AboveRows(u))
        BY <1>2, <1>3, <2>5, <3>4 DEF CameFor
      <4>2. CASE IsAbove(u, P) /\ AboveRows(u)
        <5>1. /\ \A row \in RowIds \cup P : row < u
              /\ From # 0 /\ From < u /\ ~isUpdateConnected
          BY <4>2 DEF IsAbove, AboveRows, AtTop
        <5>2. \A row \in RowIds \cup ids : row < u
          BY <2>2, <5>1
        <5>3. ~(m_lastMessage < u)
          BY <1>3, <1>5, <3>1, <5>1
        <5>4. ~isUpdateConnected'
          BY <2>2, <5>1, <5>2, <5>3
        <5>5. AboveRows(u)'
          BY <1>3, <2>3, <5>1, <5>2, <5>4, StillAbove
        <5> QED BY <2>4, <5>1, <5>5
      <4> QED BY <3>2, <4>1, <4>2
    <3> QED BY <3>3, <3>4
  <2>6. Covered'
    BY <2>5 DEF Covered
  <2>7. ASSUME Ended', NEW u \in Unseen'
        PROVE  AboveRows(u)'
    <3>1. AboveRows(u)
      BY <1>4, <2>7 DEF CoverInv, Coverage, HistEnd
    <3>2. z < u /\ u \in 1..newest
      BY <1>5, <2>4, <3>1 DEF AboveRows
    <3>3. ~(u < z)
      BY <1>5, <2>4, <3>2
    <3> QED BY <2>5, <3>3
  <2> QED BY <1>3, <2>6, <2>7, NobodyWaits
<1> QED BY <1>6, <1>7

LEMMA addMessagesCovers ==
  ASSUME Types, RowsInv, RowsInv', CoverInv, addMessages, trouble' = {}, Handled, Shows,
         Unseen' \subseteq Unseen
  PROVE  Coverage'
<1>1. /\ Received = inbox[1] /\ Received.extra \in Extras \cup Foreign
      /\ IsPage(inbox[1]) <=> Received.extra \notin Foreign
      /\ Received.extra \notin Foreign => Brings(inbox[1]) = IdsOf(Received.messages)
  BY PageReceived DEF Consume
<1>2. CASE Received.extra \in Foreign
  <2>1. /\ m_messages' = m_messages /\ isUpdateConnected' = isUpdateConnected
        /\ (Ended' => Ended)
    <3>1. /\ Received.extra = "elsewhere" \/ ignoreOther(Received.messages)
          /\ m_messages' = m_messages /\ isUpdateConnected' = isUpdateConnected
      BY <1>2, PagesAdded DEF PageAdded, Foreign
    <3>2. misled' = (misled \/ Received.extra = "elsewhere")
      BY DEF addMessages
    <3>3. CASE Received.extra = "elsewhere"
      <4>1. ~Ended'
        BY <3>2, <3>3 DEF Ended
      <4> QED BY <3>1, <4>1
    <3>4. CASE ignoreOther(Received.messages)
      <4>1. Ended' => Ended
        BY <3>2, <3>4 DEF ignoreOther, Ended
      <4> QED BY <3>1, <4>1
    <3> QED BY <3>1, <3>3, <3>4
  <2>2. From' = From
    BY SameFrom DEF Handled, addMessages
  <2>3. RowIds' \subseteq RowIds
    BY <2>1 DEF RowIds
  <2>4. Firm
    BY <2>1, <2>2, <2>3, RowsShrink
  <2> QED BY <2>1, <2>4, HandledFirm
<1>3. CASE Received.extra \notin Foreign
  <2>1. Received.extra \in {"first", "prepend", "append"}
    BY <1>1, <1>3 DEF Extras
  <2> QED BY <1>1, <2>1, FirstPageCovers, OlderPageCovers, NewerPageCovers DEF Foreign
<1> QED BY <1>2, <1>3

LEMMA HandlersCover ==
  ASSUME Types, RowsInv, RowsInv', CoverInv, Handle, trouble' = {}
  PROVE  CoverInv'
<1>1. /\ Handled /\ Shows /\ Unseen' \subseteq Unseen
      /\ Deliveries' /\ OwnInv' /\ Closed' /\ Known'
  BY HandlersRest
<1>2. Coverage'
  BY <1>1, addMessagesCovers, addMessageFromUpdateCovers, onMessageReceivedCovers,
     updateMessageSendCovers, onMessageDeletedCovers, updateChatLastMessageCovers DEF Handle
<1> QED BY <1>1, <1>2 DEF CoverInv

-----------------------------------------------------------------------------
(* Nothing is missing. *)

LEMMA InitCovers ==
  ASSUME Init, Stored \in Nat
  PROVE  CoverInv
<1>1. /\ m_messages = <<>> /\ inbox = <<>> /\ requests = <<>> /\ sending = {} /\ dropped = {}
      /\ ~isUpdateConnected /\ ~Ended /\ ~m_peerId /\ m_lastMessage = 0
      /\ chat = 1..Stored /\ lastMessageId = Stored
  BY DEF Init, Ended
<1>2. Len(inbox) = 0 /\ Len(requests) = 0 /\ Len(m_messages) = 0
  BY <1>1
<1>3. RowIds = {} /\ TrueRows = {}
  BY <1>2 DEF RowIds, TrueRows, TrueOf
<1>4. Deliveries
  BY <1>2, <1>3 DEF Deliveries, Once, Live, NewsLast, SeparatorBelow
<1>5. OwnInv
  <2>1. Own = {}
    BY <1>1, <1>2 DEF Own
  <2> QED BY <1>1, <1>2, <2>1 DEF OwnInv, OwnNewest, OwnRows
<1>6. Closed
  <2>1. \A id \in chat : id <= lastMessageId
    BY <1>1
  <2>2. \A k \in 1..Len(inbox) : FALSE
    BY <1>2
  <2> QED BY <1>1, <2>1, <2>2 DEF Closed
<1>7. Known
  BY <1>1 DEF Known
<1>8. Coverage
  <2>1. /\ \A k \in 1..Len(inbox) : FALSE
        /\ \A i \in 1..Len(requests) : FALSE
    BY <1>2
  <2> QED BY <1>1, <1>3, <2>1 DEF Coverage, Covered, BelowRows, Asked, Came, HistEnd
<1> QED BY <1>4, <1>5, <1>6, <1>7, <1>8 DEF CoverInv

LEMMA StepCovers ==
  ASSUME Types, Types', RowsInv, RowsInv', CoverInv, [Next]_vars, trouble' = {}
  PROVE  CoverInv'
<1>1. CASE UNCHANGED vars
  BY <1>1, UnchangedCovers DEF vars, flags, Ended, past
<1>2. CASE Answer
  <2>1. CASE \E i \in 1..Len(requests) : AnswerHistory(i)
    BY <2>1, AnswerHistoryCovers
  <2>2. CASE \E i \in 1..Len(requests) : FailHistory(i)
    BY <2>2 DEF FailHistory
  <2>3. CASE AnswerOther
    BY <2>3, AnswerOtherCovers
  <2> QED BY <1>2, <2>1, <2>2, <2>3 DEF Answer
<1>3. CASE TDLibStep
  <2>1. CASE MessageArrives
    BY <2>1, MessageArrivesCovers
  <2>2. CASE sendMessage
    BY <2>2, sendMessageCovers
  <2>3. CASE \E id \in sending : SendSucceeds(id)
    BY <2>3, SendSucceedsCovers
  <2>4. CASE \E id \in sending : SendFails(id)
    BY <2>4 DEF SendFails
  <2>5. CASE \E id \in chat : MessageDeleted(id)
    BY <2>5, MessageDeletedCovers
  <2>6. CASE AnswerElsewhere
    BY <2>6, AnswerElsewhereCovers
  <2> QED BY <1>3, <2>1, <2>2, <2>3, <2>4, <2>5, <2>6 DEF TDLibStep
<1>4. CASE Handle
  BY <1>4, HandlersCover
<1>5. CASE User
  <2>1. CASE setPeerId
    BY <2>1, setPeerIdCovers
  <2>2. CASE fetchOlder
    BY <2>2, fetchOlderCovers
  <2>3. CASE searchChatMessages
    BY <2>3, searchCovers
  <2>4. CASE \E i \in 1..Len(m_messages) : deleteMessage(i)
    BY <2>4, deleteMessageCovers
  <2> QED BY <1>5, <2>1, <2>2, <2>3, <2>4 DEF User
<1>6. CASE fetchMore
  BY <1>6, fetchMoreCovers
<1> QED BY <1>1, <1>2, <1>3, <1>4, <1>5, <1>6 DEF Next

LEMMA CoverKept ==
  Spec => [](trouble = {} => CoverInv)
<1>1. Init => (trouble = {} => CoverInv)
  BY InitCovers, SizesAssumption
<1>2. /\ Types /\ Types' /\ (trouble = {} => RowsInv) /\ (trouble = {} => RowsInv)'
      /\ (trouble = {} => CoverInv) /\ [Next]_vars
      => (trouble = {} => CoverInv)'
  BY StepCovers, TroubleStays
<1> QED BY <1>1, <1>2, TypesKept, RowsKept, PTL DEF Spec

\* The highest row.
LEMMA HighestRow ==
  ASSUME Types, RowIds # {}
  PROVE  Max(RowIds) \in RowIds
<1>1. PICK n \in Nat : n = newest
  BY DEF Types
<1>2. RowIds \subseteq 0..n
  BY <1>1, GivenBefore
<1> QED BY <1>1, <1>2, GreatestFacts

(* The hand-over from pages to updates loses nothing but a message whose update
   came too early, whatever the sizes of the chat and of the pages: with nothing
   under way, any other message between two rows has a row, and any other below
   the last row once updates are connected; and no row is left of a deleted
   message.  CoverInv says on which side of the rows an unseen message is, and
   that the pages asked for and the pages that came are next to them. *)
THEOREM NoGaps ==
  Spec => []NoGap
<1>1. ASSUME Types, CoverInv, Quiet
      PROVE  /\ \A id \in chat \ (RowIds \cup dropped) :
                  /\ isUpdateConnected => \A row \in RowIds : id < row
                  /\ \A row \in RowIds : row < id => id > Max(RowIds)
             /\ \A i \in 1..Len(m_messages) :
                  ~m_messages[i].separator => m_messages[i].id \in chat
  <2>1. Len(inbox) = 0
    BY <1>1 DEF Quiet
  <2>2. newest \in Nat /\ RowIds \subseteq 1..newest /\ chat \subseteq 1..newest
    BY <1>1, GivenBefore DEF Types, ServerTypes
  <2>3. ASSUME NEW id \in chat, id \notin RowIds, id \notin dropped
        PROVE  /\ isUpdateConnected => \A row \in RowIds : id < row
               /\ \A row \in RowIds : row < id => id > Max(RowIds)
    <3>1. id \in Unseen
      BY <2>1, <2>3, TrueRowsAreRows DEF Unseen, Announced
    <3>2. BelowRows(id) \/ AboveRows(id)
      BY <1>1, <3>1 DEF CoverInv, Coverage, Covered
    <3>3. isUpdateConnected => BelowRows(id)
      BY <3>2 DEF AboveRows, AtTop
    <3>4. ASSUME NEW row \in RowIds, row < id
          PROVE  id > Max(RowIds)
      <4>1. ~(id < row)
        BY <2>2, <3>4
      <4>2. AboveRows(id)
        BY <3>2, <4>1 DEF BelowRows
      <4>3. Max(RowIds) \in RowIds
        BY <1>1, <3>4, HighestRow
      <4> QED BY <4>2, <4>3 DEF AboveRows
    <3> QED BY <3>3, <3>4 DEF BelowRows
  <2>4. ASSUME NEW i \in 1..Len(m_messages), ~m_messages[i].separator
        PROVE  m_messages[i].id \in chat
    <3>1. m_messages[i].id \in TrueRows
      BY <2>4 DEF TrueRows, TrueOf
    <3>2. \A id : ~GoneAfter(id, 0)
      BY <2>1 DEF GoneAfter
    <3> QED BY <1>1, <3>1, <3>2 DEF CoverInv, Deliveries, Live
  <2> QED BY <2>3, <2>4
<1>2. Types /\ (trouble = {} => CoverInv) => NoGap
  BY <1>1 DEF NoGap
<1> QED BY <1>2, TypesKept, CoverKept, PTL

(* The end of the history is announced only when every message of the chat below
   the first row has come, whatever the sizes: a page of older messages is empty
   only when there are none. *)
THEOREM EndIsEnd ==
  Spec => []HistoryEndIsEnd
<1>1. ASSUME Types, RowsInv, CoverInv, Ended, m_messages # <<>>,
             NEW id \in chat, id \notin RowIds, id \notin dropped
      PROVE  id >= Head(m_messages).id
  <2>1. /\ newest \in Nat /\ id \in 1..newest
        /\ Head(m_messages).id \in 1..newest /\ Head(m_messages).id \in RowIds
    BY <1>1, EndRows DEF Types, ServerTypes
  <2>2. CASE Announced(id)
    <3>1. \A row \in RowIds : row < id
      BY <1>1, <2>2 DEF Announced, RowsInv, News
    <3> QED BY <2>1, <3>1
  <2>3. CASE ~Announced(id)
    <3>1. id \in Unseen
      BY <1>1, <2>3, TrueRowsAreRows DEF Unseen
    <3>2. \A row \in RowIds : row < id
      BY <1>1, <3>1 DEF CoverInv, Coverage, HistEnd, AboveRows
    <3> QED BY <2>1, <3>2
  <2> QED BY <2>2, <2>3
<1>2. Types /\ (trouble = {} => RowsInv) /\ (trouble = {} => CoverInv) => HistoryEndIsEnd
  BY <1>1 DEF HistoryEndIsEnd, Ended
<1> QED BY <1>2, TypesKept, RowsKept, CoverKept, PTL
=============================================================================
