---------------------------- MODULE FileQueueProofs ----------------------------
(***************************************************************************)
(* Theorems about FileQueue for all its constants, checked by TLAPS.       *)
(*                                                                         *)
(* The invariant says that nothing on its way to the list calls a file     *)
(* complete that is not, that the first page comes before any other        *)
(* message, when the list is empty still, and where the files waited for   *)
(* are as long as no handler has left row numbers behind.                  *)
(***************************************************************************)
EXTENDS FileQueue, SequenceTheorems, FiniteSetTheorems, WellFoundedInduction, TLAPS

-----------------------------------------------------------------------------
(* Lists and finite sets. *)

(* What SubSeq cuts out of a list: a list, element by element. *)
LEMMA PartOfList ==
  ASSUME NEW S, NEW s \in Seq(S), NEW m \in 1..(Len(s) + 1), NEW n \in 0..Len(s), m <= n + 1
  PROVE  /\ SubSeq(s, m, n) \in Seq(S) /\ Len(SubSeq(s, m, n)) = n - m + 1
         /\ \A k \in 1..(n - m + 1) : SubSeq(s, m, n)[k] = s[m + k - 1]
<1>1. \A k \in m..n : s[k] \in S
  BY ElementOfSeq
<1> QED BY <1>1, SubSeqProperties

(* InsertAt keeps the elements before i and moves the others up by one. *)
LEMMA InsertAtProperties ==
  ASSUME NEW S, NEW s \in Seq(S), NEW e \in S, NEW i \in 1..(Len(s) + 1)
  PROVE  /\ InsertAt(s, i, e) \in Seq(S)
         /\ Len(InsertAt(s, i, e)) = Len(s) + 1
         /\ \A j \in 1..(Len(s) + 1) :
              InsertAt(s, i, e)[j] = IF j < i THEN s[j] ELSE IF j = i THEN e ELSE s[j - 1]
<1> DEFINE a == SubSeq(s, 1, i - 1)
           b == SubSeq(s, i, Len(s))
           c == Append(a, e)
<1>1. PICK n \in Nat : n = Len(s)
  BY LenProperties
<1>2. /\ a \in Seq(S) /\ Len(a) = i - 1 /\ \A k \in 1..(i - 1) : a[k] = s[1 + k - 1]
      /\ b \in Seq(S) /\ Len(b) = n - i + 1
      /\ \A k \in 1..(n - i + 1) : b[k] = s[i + k - 1]
  BY <1>1, PartOfList
<1>3. InsertAt(s, i, e) = c \o b
  BY <1>2, AppendIsConcat DEF InsertAt
<1> HIDE DEF a, b
<1>4. c \in Seq(S) /\ Len(c) = i /\ \A k \in 1..i : c[k] = IF k < i THEN s[k] ELSE e
  BY <1>1, <1>2, AppendProperties
<1> HIDE DEF c
<1>5. /\ c \o b \in Seq(S) /\ Len(c \o b) = n + 1
      /\ \A k \in 1..(n + 1) : (c \o b)[k] = IF k <= i THEN c[k] ELSE b[k - i]
  <2>1. /\ c \o b \in Seq(S) /\ Len(c \o b) = Len(c) + Len(b)
        /\ \A k \in 1..(Len(c) + Len(b)) :
             (c \o b)[k] = IF k <= Len(c) THEN c[k] ELSE b[k - Len(c)]
    BY <1>2, <1>4, ConcatProperties
  <2> QED BY <1>1, <1>2, <1>4, <2>1
<1> QED BY <1>1, <1>2, <1>3, <1>4, <1>5

(* RemoveAt keeps the elements before i and moves the others down by one. *)
LEMMA RemoveAtProperties ==
  ASSUME NEW S, NEW s \in Seq(S), NEW i \in 1..Len(s)
  PROVE  /\ RemoveAt(s, i) \in Seq(S)
         /\ Len(RemoveAt(s, i)) = Len(s) - 1
         /\ \A j \in 1..(Len(s) - 1) :
              RemoveAt(s, i)[j] = IF j < i THEN s[j] ELSE s[j + 1]
<1> DEFINE a == SubSeq(s, 1, i - 1)
           b == SubSeq(s, i + 1, Len(s))
<1>1. PICK n \in Nat : n = Len(s)
  BY LenProperties
<1>2. /\ a \in Seq(S) /\ Len(a) = i - 1 /\ \A k \in 1..(i - 1) : a[k] = s[1 + k - 1]
      /\ b \in Seq(S) /\ Len(b) = n - (i + 1) + 1
      /\ \A k \in 1..(n - (i + 1) + 1) : b[k] = s[(i + 1) + k - 1]
  BY <1>1, PartOfList
<1>3. RemoveAt(s, i) = a \o b
  BY DEF RemoveAt
<1> HIDE DEF a, b
<1>4. /\ a \o b \in Seq(S) /\ Len(a \o b) = n - 1
      /\ \A k \in 1..(n - 1) : (a \o b)[k] = IF k <= i - 1 THEN a[k] ELSE b[k - (i - 1)]
  BY <1>1, <1>2, ConcatProperties
<1> QED BY <1>1, <1>2, <1>3, <1>4

(* A non-empty set of naturals has a least element. *)
LEMMA LeastNatural ==
  ASSUME NEW T, T \subseteq Nat, T # {}
  PROVE  \E x \in T : \A y \in T : x <= y
<1> DEFINE R == {ss \in Nat \X Nat : ss[1] < ss[2]}
<1>1. IsWellFoundedOn(R, Nat)
  BY NatLessThanWellFounded, Zenon DEF OpToRel
<1>2. \A x, y \in Nat : y < x => <<y, x>> \in R
  OBVIOUS
<1> HIDE DEF R
<1>3. PICK x \in T : \A y \in T : ~ (<<y, x>> \in R)
  BY <1>1, WFMin
<1>4. \A y \in T : ~ (y < x)
  BY <1>2, <1>3
<1> QED BY <1>4

DiskStates == {"absent", "active", "complete"}

RowType ==
  [id : Ids, separator : BOOLEAN, file : Files \cup {NoFile}, completed : BOOLEAN]

\* What is in inbox.
Delivery ==
  [kind : {"file"}, file : Files, local : DiskStates]
    \cup [kind : {"updateNewMessage", "prepend"}, message : Content]
    \cup [kind : {"messages"}, read : Nat, messages : Seq(Content)]
    \cup [kind : {"updateDeleteMessages"}, id : Ids]

\* A message's content does not call a file complete that is not.
Truthful(c, disk) == c.local = "complete" => c.file # NoFile /\ disk[c.file] = "complete"

Reports(d, disk) ==
  /\ d.kind = "file" => (d.local = "complete" => disk[d.file] = "complete")
  /\ d.kind \in {"updateNewMessage", "prepend"} => Truthful(d.message, disk)
  /\ d.kind = "messages" => \A i \in 1..Len(d.messages) : Truthful(d.messages[i], disk)

InboxHonest == \A i \in 1..Len(inbox) : Reports(inbox[i], local)

\* Until the first page is handled it is ahead of all, and the list is empty.
PageFirst ==
  Opened \/ /\ m_messages = <<>>
            /\ inbox[1].kind = "messages"
            /\ \A i \in 2..Len(inbox) : inbox[i].kind \in {"file", "updateDeleteMessages"}

InboxInv == inbox \in Seq(Delivery) /\ InboxHonest /\ PageFirst

OtherTypes ==
  /\ local \in [Files -> DiskStates]
  /\ requests \in [Files -> Nat]
  /\ low \in Ids /\ high \in Ids
  /\ deleted \subseteq Ids
  /\ downloadMap \in [Files -> 0..3]
  /\ timers \subseteq Files
  /\ events \in 0..MaxEvents

ListTypes ==
  /\ m_messages \in Seq(RowType)
  /\ Waiting \subseteq Files
  /\ \A f \in Waiting : messagePhotoQueue[f] \in Nat \ {0}
  /\ crashed \in BOOLEAN
  /\ trouble \subseteq Troubles

ListInv == ListTypes /\ NoFalseCompleted /\ FilesOnTheirRows

Inv == OtherTypes /\ InboxInv /\ ListInv

-----------------------------------------------------------------------------
(* Messages and rows. *)

LEMMA ContentFacts ==
  ASSUME OtherTypes, NEW id \in Ids
  PROVE  Message(id) \in Content /\ Truthful(Message(id), local)
<1>1. FileOf[id] \in Files \cup {NoFile}
  BY FilesAssumption, ElementOfSeq DEF Ids
<1> QED BY <1>1, FilesAssumption DEF Message, Content, Truthful, OtherTypes, DiskStates

LEMMA RowFacts ==
  ASSUME NEW c \in Content, NEW disk, Truthful(c, disk)
  PROVE  /\ Row(c) \in RowType
         /\ Row(c).file = c.file
         /\ Row(c).completed => c.file # NoFile /\ disk[c.file] = "complete"
BY DEF Row, RowType, Content, Truthful

LEMMA DeliveryFacts ==
  ASSUME NEW d \in Delivery
  PROVE  /\ d.kind = "file" => d.file \in Files /\ d.local \in DiskStates
         /\ d.kind \in {"updateNewMessage", "prepend"} => d.message \in Content
         /\ d.kind = "messages" => d.messages \in Seq(Content) /\ d.read \in Nat
         /\ d.kind = "updateDeleteMessages" => d.id \in Ids
BY DEF Delivery

\* Nothing that is complete is lost from the disk.
Kept(disk, diskNew) == \A f \in Files : disk[f] = "complete" => diskNew[f] = "complete"

LEMMA ReportsStay ==
  ASSUME NEW disk, NEW diskNew, Kept(disk, diskNew), NEW d \in Delivery, Reports(d, disk)
  PROVE  Reports(d, diskNew)
<1>1. ASSUME NEW c \in Content, Truthful(c, disk) PROVE Truthful(c, diskNew)
  BY <1>1 DEF Truthful, Content, Kept
<1>2. CASE d.kind = "file"
  BY <1>2, DeliveryFacts DEF Reports, Kept
<1>3. CASE d.kind \in {"updateNewMessage", "prepend"}
  BY <1>1, <1>3, DeliveryFacts DEF Reports
<1>4. CASE d.kind = "messages"
  <2>1. d.messages \in Seq(Content)
    BY <1>4, DeliveryFacts
  <2> QED BY <1>1, <1>4, <2>1, ElementOfSeq DEF Reports
<1>5. CASE d.kind = "updateDeleteMessages"
  BY <1>5 DEF Reports
<1> QED BY <1>2, <1>3, <1>4, <1>5 DEF Delivery

-----------------------------------------------------------------------------
(* The inbox. *)

\* TDLib sends something that comes after the first page.
LEMMA SendKeeps ==
  ASSUME InboxInv, NEW d \in Delivery, inbox' = Append(inbox, d), Reports(d, local'),
         Kept(local, local'), UNCHANGED m_messages,
         d.kind \in {"file", "updateDeleteMessages"} \/ (Opened /\ d.kind # "messages")
  PROVE  InboxInv'
<1>1. /\ inbox \in Seq(Delivery)
      /\ Len(inbox) \in Nat
      /\ \A i \in 1..Len(inbox) : inbox[i] \in Delivery
  BY ElementOfSeq, LenProperties DEF InboxInv
<1>2. /\ inbox' \in Seq(Delivery)
      /\ Len(inbox') = Len(inbox) + 1
      /\ \A i \in 1..(Len(inbox) + 1) : inbox'[i] = IF i <= Len(inbox) THEN inbox[i] ELSE d
  BY <1>1, AppendProperties
<1>3. InboxHonest'
  <2> SUFFICES ASSUME NEW i \in 1..Len(inbox') PROVE Reports(inbox'[i], local')
    BY DEF InboxHonest
  <2>1. CASE i \in 1..Len(inbox)
    <3>1. Reports(inbox[i], local)
      BY <2>1 DEF InboxInv, InboxHonest
    <3> QED BY <1>1, <1>2, <2>1, <3>1, ReportsStay
  <2>2. CASE i = Len(inbox) + 1
    BY <1>1, <1>2, <2>2
  <2> QED BY <1>1, <1>2, <2>1, <2>2
<1>4. PageFirst'
  <2>1. CASE Opened
    BY <1>1, <1>2, <2>1 DEF PageFirst, Opened
  <2>2. CASE ~Opened
    <3>1. Len(inbox) >= 1
      BY <1>1, <2>2 DEF Opened
    <3> QED BY <1>1, <1>2, <2>2, <3>1 DEF PageFirst, InboxInv
  <2> QED BY <2>1, <2>2
<1> QED BY <1>2, <1>3, <1>4 DEF InboxInv

\* Handling takes the first message.  A page is the first of all, and finds the
\* list empty.
LEMMA ConsumeKeeps ==
  ASSUME InboxInv, NEW kind, Consume(kind), UNCHANGED local
  PROVE  /\ Received \in Delivery
         /\ Received.kind = kind
         /\ Reports(Received, local)
         /\ kind = "messages" => m_messages = <<>>
         /\ InboxInv'
<1>1. /\ inbox \in Seq(Delivery) /\ inbox # <<>>
      /\ inbox' = Tail(inbox)
  BY DEF InboxInv, Consume
<1>2. /\ Len(inbox) \in Nat /\ Len(inbox) >= 1
      /\ Received = inbox[1]
  BY <1>1, EmptySeq DEF Received
<1>3. /\ inbox' \in Seq(Delivery)
      /\ Len(inbox') = Len(inbox) - 1
      /\ \A i \in 1..(Len(inbox) - 1) : inbox'[i] = inbox[i + 1]
  BY <1>1, HeadTailProperties
<1>4. Received \in Delivery /\ Received.kind = kind /\ Reports(Received, local)
  BY <1>1, <1>2, ElementOfSeq DEF InboxInv, InboxHonest, Consume
<1>5. kind = "messages" => m_messages = <<>>
  BY <1>2, <1>4 DEF InboxInv, PageFirst, Opened
<1>6. InboxHonest'
  BY <1>2, <1>3 DEF InboxInv, InboxHonest
<1>7. Opened'
  <2>1. CASE Opened
    BY <1>2, <1>3, <2>1 DEF Opened
  <2>2. CASE ~Opened
    <3>1. \A i \in 2..Len(inbox) : inbox[i].kind # "messages"
      BY <2>2 DEF InboxInv, PageFirst
    <3> QED BY <1>2, <1>3, <3>1 DEF Opened
  <2> QED BY <2>1, <2>2
<1> QED BY <1>3, <1>4, <1>5, <1>6, <1>7 DEF InboxInv, PageFirst

-----------------------------------------------------------------------------
(* The queue after messages were appended. *)

LEMMA GreatestOf ==
  ASSUME NEW n \in Nat, NEW S \in SUBSET (1..n), S # {}
  PROVE  Max(S) \in S
<1> DEFINE T == {n - x : x \in S}
<1>1. T \subseteq Nat /\ T # {}
  <2>1. \A x \in S : n - x \in Nat
    OBVIOUS
  <2> QED BY <2>1
<1>2. PICK t \in T : \A y \in T : t <= y
  BY <1>1, LeastNatural
<1>3. PICK x \in S : t = n - x
  BY <1>2
<1>4. \A y \in S : x >= y
  <2> SUFFICES ASSUME NEW y \in S PROVE x >= y
    OBVIOUS
  <2>1. n - y \in T
    OBVIOUS
  <2>2. n - x <= n - y
    BY <1>2, <1>3, <2>1
  <2> QED BY <2>2
<1> QED BY <1>4 DEF Max

\* A file is waited for where it was, or at the row of an appended message that
\* holds it.
LEMMA QueueAfterFacts ==
  ASSUME NEW ms \in Seq(Content), NEW n \in Nat, Waiting \subseteq Files
  PROVE  /\ DOMAIN queueAfter(ms, n) \subseteq Files
         /\ \A f \in DOMAIN queueAfter(ms, n) :
              \/ \E i \in 1..Len(ms) : ms[i].file = f /\ queueAfter(ms, n)[f] = n + i
              \/ f \in Waiting /\ queueAfter(ms, n)[f] = messagePhotoQueue[f]
<1> DEFINE downloading(f) == {i \in 1..Len(ms) : ms[i].file = f /\ ms[i].local = "active"}
           files == {f \in Files : downloading(f) # {}}
           queue == [f \in Waiting \cup files |->
                       IF f \in files THEN LastOf(downloading(f), n) ELSE messagePhotoQueue[f]]
<1>1. queueAfter(ms, n) = queue
  BY DEF queueAfter
<1>2. DOMAIN queue = Waiting \cup files
  OBVIOUS
<1>3. ASSUME NEW f \in files
      PROVE  \E i \in 1..Len(ms) : ms[i].file = f /\ queue[f] = n + i
  <2>1. Len(ms) \in Nat
    BY LenProperties
  <2>2. downloading(f) \in SUBSET (1..Len(ms)) /\ downloading(f) # {}
    OBVIOUS
  <2>3. Max(downloading(f)) \in downloading(f)
    <3> HIDE DEF downloading
    <3> QED BY <2>1, <2>2, GreatestOf
  <2>4. queue[f] = n + Max(downloading(f))
    BY DEF LastOf
  <2> QED BY <2>3, <2>4
<1>4. ASSUME NEW f \in (DOMAIN queue) \ files
      PROVE  f \in Waiting /\ queue[f] = messagePhotoQueue[f]
  BY <1>2, <1>4
<1>5. DOMAIN queue \subseteq Files
  BY <1>2
<1> HIDE DEF queue, files
<1> QED BY <1>1, <1>2, <1>3, <1>4, <1>5

-----------------------------------------------------------------------------
(* The handlers. *)

LEMMA ListFacts ==
  ASSUME ListTypes
  PROVE  /\ Len(m_messages) \in Nat
         /\ \A i \in 1..Len(m_messages) : m_messages[i] \in RowType
         /\ m_messages = <<>> <=> Len(m_messages) = 0
BY ElementOfSeq, LenProperties, EmptySeq DEF ListTypes

LEMMA InsertRowFacts ==
  ASSUME NEW t \in Seq(RowType), NEW k \in 1..(Len(t) + 1), NEW r \in RowType
  PROVE  /\ InsertAt(t, k, r) \in Seq(RowType)
         /\ Len(InsertAt(t, k, r)) = Len(t) + 1
         /\ \A j \in 1..(Len(t) + 1) :
              InsertAt(t, k, r)[j] = IF j < k THEN t[j] ELSE IF j = k THEN r ELSE t[j - 1]
BY InsertAtProperties

LEMMA AppendMessageKeeps ==
  ASSUME Inv, appendMessage
  PROVE  Inv'
<1> DEFINE m == Received.message
<1>1. OtherTypes'
  BY DEF Inv, OtherTypes, appendMessage, tdlib, limiter
<1>2. /\ InboxInv'
      /\ m \in Content
      /\ Truthful(m, local)
  BY ConsumeKeeps, DeliveryFacts DEF Inv, appendMessage, tdlib, Reports
<1>3. /\ Row(m) \in RowType
      /\ Row(m).file = m.file
      /\ Row(m).completed => m.file # NoFile /\ local[m.file] = "complete"
  BY <1>2, RowFacts
<1> DEFINE n == Len(m_messages)
           r == Row(m)
           queue == queueAfter(<<m>>, n)
<1>4. n \in Nat
  BY ListFacts DEF Inv, ListInv
<1>5. /\ m_messages' \in Seq(RowType)
      /\ Len(m_messages') = n + 1
      /\ \A i \in 1..(n + 1) : m_messages'[i] = IF i <= n THEN m_messages[i] ELSE r
  <2>1. m_messages' = Append(m_messages, r)
    BY DEF appendMessage
  <2> HIDE DEF r
  <2> QED BY <1>3, <2>1, AppendProperties DEF Inv, ListInv, ListTypes, r
<1>6. /\ messagePhotoQueue' = queue
      /\ UNCHANGED <<local, crashed, trouble>>
  BY DEF appendMessage, tdlib
<1>7. /\ DOMAIN queue \subseteq Files
      /\ \A f \in DOMAIN queue : \/ m.file = f /\ queue[f] = n + 1
                                 \/ f \in Waiting /\ queue[f] = messagePhotoQueue[f]
  <2>1. <<m>> \in Seq(Content) /\ Len(<<m>>) = 1 /\ <<m>>[1] = m
    BY <1>2
  <2>2. /\ DOMAIN queue \subseteq Files
        /\ \A f \in DOMAIN queue :
              \/ \E i \in 1..Len(<<m>>) : <<m>>[i].file = f /\ queue[f] = n + i
              \/ f \in Waiting /\ queue[f] = messagePhotoQueue[f]
    BY <1>4, <2>1, QueueAfterFacts DEF Inv, ListInv, ListTypes
  <2> HIDE DEF m, queue, n
  <2> QED BY <1>4, <2>1, <2>2
<1> HIDE DEF m, r, queue
<1>8. ListTypes'
  BY <1>4, <1>5, <1>6, <1>7 DEF Inv, ListInv, ListTypes, Waiting
<1>9. NoFalseCompleted'
  BY <1>3, <1>4, <1>5, <1>6 DEF Inv, ListInv, NoFalseCompleted, r
<1>10. FilesOnTheirRows'
  BY <1>3, <1>4, <1>5, <1>6, <1>7 DEF Inv, ListInv, ListTypes, FilesOnTheirRows, Waiting, r
<1> QED BY <1>1, <1>2, <1>8, <1>9, <1>10 DEF Inv, ListInv

LEMMA AddMessagesKeeps ==
  ASSUME Inv, addMessages
  PROVE  Inv'
<1>1. OtherTypes'
  BY DEF Inv, OtherTypes, addMessages, tdlib, limiter
<1>2. /\ InboxInv'
      /\ m_messages = <<>>
      /\ Received.messages \in Seq(Content)
      /\ \A i \in 1..Len(Received.messages) : Truthful(Received.messages[i], local)
  BY ConsumeKeeps, DeliveryFacts DEF Inv, addMessages, tdlib, Reports
<1>3. PICK page \in Seq(Content) : page = Received.messages
  BY <1>2
<1> DEFINE n == Len(page)
           rows == [i \in 1..n |-> Row(page[i])]
           queue == queueAfter(page, 0)
<1>4. /\ n \in Nat
      /\ \A i \in 1..n : page[i] \in Content /\ Truthful(page[i], local)
  BY <1>2, <1>3, ElementOfSeq, LenProperties
<1>5. \A i \in 1..n :
        /\ rows[i] \in RowType
        /\ rows[i].file = page[i].file
        /\ rows[i].completed => page[i].file # NoFile /\ local[page[i].file] = "complete"
  BY <1>4, RowFacts
<1>6. rows \in Seq(RowType) /\ Len(rows) = n
  <2>1. rows \in [1..n -> RowType]
    BY <1>5
  <2> QED BY <1>4, <2>1
<1>7. /\ messagePhotoQueue' = queue
      /\ UNCHANGED <<local, crashed>>
  BY <1>3 DEF addMessages, tdlib
<1>8. /\ DOMAIN queue \subseteq Files
      /\ \A f \in DOMAIN queue : \/ \E i \in 1..n : page[i].file = f /\ queue[f] = i
                                 \/ f \in Waiting /\ queue[f] = messagePhotoQueue[f]
  <2>1. \A i \in 1..n : 0 + i = i
    BY <1>4
  <2> HIDE DEF queue
  <2> QED BY <1>4, <2>1, QueueAfterFacts DEF Inv, ListInv, ListTypes, queue
<1>9. trouble = {} => Waiting = {} /\ ~crashed
  BY <1>2 DEF Inv, ListInv, ListTypes, FilesOnTheirRows
<1> HIDE DEF rows, queue, n
<1>10. CASE m_messages' = rows /\ trouble' = trouble
  <2>1. ListTypes'
    BY <1>4, <1>6, <1>7, <1>8, <1>10 DEF Inv, ListInv, ListTypes, Waiting
  <2>2. NoFalseCompleted'
    BY <1>5, <1>6, <1>7, <1>10 DEF NoFalseCompleted
  <2>3. FilesOnTheirRows'
    BY <1>4, <1>5, <1>6, <1>7, <1>8, <1>9, <1>10 DEF FilesOnTheirRows, Waiting
  <2> QED BY <1>1, <1>2, <2>1, <2>2, <2>3 DEF Inv, ListInv
<1>11. CASE \E i \in 1..n :
              /\ page[i].id = Received.read
              /\ m_messages' = InsertAt(rows, i + 1, Separator(Received.read))
              /\ trouble' = IF \E f \in DOMAIN messagePhotoQueue' : messagePhotoQueue'[f] > i
                            THEN trouble \cup {"separator"} ELSE trouble
  <2>1. PICK i \in 1..n :
              /\ page[i].id = Received.read
              /\ m_messages' = InsertAt(rows, i + 1, Separator(Received.read))
              /\ trouble' = IF \E f \in DOMAIN messagePhotoQueue' : messagePhotoQueue'[f] > i
                            THEN trouble \cup {"separator"} ELSE trouble
    BY <1>11
  <2>2. PICK s \in RowType : s = Separator(Received.read) /\ ~s.completed
    <3>1. Received.read \in Ids
      BY <1>4, <2>1 DEF Content
    <3>2. /\ Separator(Received.read) \in RowType
          /\ ~Separator(Received.read).completed
      BY <3>1 DEF Separator, RowType
    <3> QED BY <3>2
  <2>3. /\ m_messages' \in Seq(RowType)
        /\ Len(m_messages') = n + 1
        /\ \A j \in 1..(n + 1) :
             m_messages'[j] = IF j < i + 1 THEN rows[j] ELSE IF j = i + 1 THEN s ELSE rows[j - 1]
    <3>1. PICK t \in Seq(RowType) : t = rows
      BY <1>6
    <3>2. PICK k \in 1..(Len(t) + 1) : k = i + 1
      BY <1>4, <1>6, <3>1
    <3>3. m_messages' = InsertAt(t, k, s)
      BY <2>1, <2>2, <3>1, <3>2
    <3>4. /\ InsertAt(t, k, s) \in Seq(RowType)
          /\ Len(InsertAt(t, k, s)) = Len(t) + 1
          /\ \A j \in 1..(Len(t) + 1) :
               InsertAt(t, k, s)[j] = IF j < k THEN t[j] ELSE IF j = k THEN s ELSE t[j - 1]
      BY InsertRowFacts
    <3> QED BY <1>6, <3>1, <3>2, <3>3, <3>4
  <2>4. ListTypes'
    <3>1. trouble' \subseteq Troubles
      BY <2>1 DEF Inv, ListInv, ListTypes, Troubles
    <3> QED BY <1>4, <1>7, <1>8, <2>3, <3>1 DEF Inv, ListInv, ListTypes, Waiting
  <2>5. NoFalseCompleted'
    <3> SUFFICES ASSUME NEW j \in 1..(n + 1), m_messages'[j].completed
                 PROVE  /\ m_messages'[j].file # NoFile
                        /\ local[m_messages'[j].file] = "complete"
      BY <1>7, <2>3 DEF NoFalseCompleted
    <3>1. CASE j < i + 1
      BY <1>4, <1>5, <2>3, <3>1
    <3>2. CASE j = i + 1
      BY <2>2, <2>3, <3>2
    <3>3. CASE j > i + 1
      <4>1. j - 1 \in 1..n /\ m_messages'[j] = rows[j - 1]
        BY <1>4, <2>3, <3>3
      <4> QED BY <1>5, <4>1
    <3> QED BY <1>4, <3>1, <3>2, <3>3
  <2>6. FilesOnTheirRows'
    <3> SUFFICES ASSUME trouble' = {}
                 PROVE  /\ ~crashed
                        /\ \A f \in DOMAIN queue : /\ queue[f] <= n + 1
                                                   /\ m_messages'[queue[f]].file = f
      BY <1>7, <2>3 DEF FilesOnTheirRows, Waiting
    <3>1. trouble = {} /\ \A f \in DOMAIN queue : ~(queue[f] > i)
      BY <1>7, <2>1
    <3> QED BY <1>4, <1>5, <1>8, <1>9, <2>3, <3>1
  <2> QED BY <1>1, <1>2, <2>4, <2>5, <2>6 DEF Inv, ListInv
<1> QED BY <1>3, <1>10, <1>11 DEF addMessages, rows, n

LEMMA PrependMessageKeeps ==
  ASSUME Inv, prependMessage
  PROVE  Inv'
<1>1. OtherTypes'
  BY DEF Inv, OtherTypes, prependMessage, tdlib, limiter
<1>2. /\ InboxInv'
      /\ Received.message \in Content
      /\ Truthful(Received.message, local)
  BY ConsumeKeeps, DeliveryFacts DEF Inv, prependMessage, tdlib, Reports
<1> DEFINE n == Len(m_messages)
<1>3. PICK r \in RowType :
        /\ r = Row(Received.message)
        /\ r.completed => r.file # NoFile /\ local[r.file] = "complete"
  BY <1>2, RowFacts
<1>4. n \in Nat
  BY ListFacts DEF Inv, ListInv
<1>5. /\ m_messages' \in Seq(RowType)
      /\ Len(m_messages') = n + 1
      /\ \A i \in 1..(n + 1) : m_messages'[i] = IF i = 1 THEN r ELSE m_messages[i - 1]
  <2>1. m_messages' = <<r>> \o m_messages
    BY <1>3 DEF prependMessage
  <2>2. <<r>> \in Seq(RowType) /\ Len(<<r>>) = 1 /\ <<r>>[1] = r
    OBVIOUS
  <2>3. m_messages \in Seq(RowType)
    BY DEF Inv, ListInv, ListTypes
  <2> QED BY <1>4, <2>1, <2>2, <2>3, ConcatProperties
<1>6. /\ Waiting' = Waiting
      /\ \A f \in Waiting : messagePhotoQueue'[f] = messagePhotoQueue[f] + 1
      /\ UNCHANGED <<local, crashed, trouble>>
  BY DEF prependMessage, tdlib, Moved, Waiting
<1>7. ListTypes'
  BY <1>5, <1>6 DEF Inv, ListInv, ListTypes
<1>8. NoFalseCompleted'
  <2> SUFFICES ASSUME NEW i \in 1..(n + 1), m_messages'[i].completed
               PROVE  m_messages'[i].file # NoFile /\ local[m_messages'[i].file] = "complete"
    BY <1>5, <1>6 DEF NoFalseCompleted
  <2>1. CASE i = 1
    BY <1>3, <1>5, <2>1
  <2>2. CASE i # 1
    <3>1. i - 1 \in 1..n /\ m_messages'[i] = m_messages[i - 1]
      BY <1>4, <1>5, <2>2
    <3> QED BY <3>1 DEF Inv, ListInv, NoFalseCompleted
  <2> QED BY <2>1, <2>2
<1>9. FilesOnTheirRows'
  <2> SUFFICES ASSUME trouble = {}, NEW f \in Waiting
               PROVE  /\ ~crashed
                      /\ messagePhotoQueue'[f] <= n + 1
                      /\ m_messages'[messagePhotoQueue'[f]].file = f
    <3>1. trouble = {} => ~crashed
      BY DEF Inv, ListInv, FilesOnTheirRows
    <3> QED BY <1>5, <1>6, <3>1 DEF FilesOnTheirRows
  <2> DEFINE q == messagePhotoQueue[f]
  <2>1. q \in Nat \ {0} /\ q <= n /\ m_messages[q].file = f /\ ~crashed
    BY DEF Inv, ListInv, ListTypes, FilesOnTheirRows
  <2>2. messagePhotoQueue'[f] = q + 1
    BY <1>6
  <2> HIDE DEF q
  <2>3. m_messages'[q + 1] = m_messages[q]
    BY <1>4, <1>5, <2>1
  <2> QED BY <1>4, <2>1, <2>2, <2>3
<1> QED BY <1>1, <1>2, <1>7, <1>8, <1>9 DEF Inv, ListInv

\* A row goes, and with it, or moved up, what was waited for there.
LEMMA RemoveRowFacts ==
  ASSUME ListTypes, NoFalseCompleted, NEW row \in 1..Len(m_messages),
         m_messages' = RemoveAt(m_messages, row), UNCHANGED local
  PROVE  /\ m_messages' \in Seq(RowType)
         /\ Len(m_messages') = Len(m_messages) - 1
         /\ \A i \in 1..(Len(m_messages) - 1) :
              m_messages'[i] = IF i < row THEN m_messages[i] ELSE m_messages[i + 1]
         /\ NoFalseCompleted'
<1> DEFINE n == Len(m_messages)
<1>1. n \in Nat
  BY ListFacts
<1>2. /\ m_messages' \in Seq(RowType)
      /\ Len(m_messages') = n - 1
      /\ \A i \in 1..(n - 1) : m_messages'[i] = IF i < row THEN m_messages[i] ELSE m_messages[i + 1]
  <2>1. m_messages \in Seq(RowType)
    BY DEF ListTypes
  <2> QED BY <2>1, RemoveAtProperties
<1>3. NoFalseCompleted'
  <2> SUFFICES ASSUME NEW i \in 1..(n - 1), m_messages'[i].completed
               PROVE  m_messages'[i].file # NoFile /\ local[m_messages'[i].file] = "complete"
    BY <1>2 DEF NoFalseCompleted
  <2>1. PICK j \in 1..n : m_messages'[i] = m_messages[j]
    <3>1. i \in 1..n /\ i + 1 \in 1..n
      BY <1>1
    <3> QED BY <1>2, <3>1
  <2> QED BY <2>1 DEF NoFalseCompleted
<1> QED BY <1>2, <1>3

LEMMA OnMessageDeletedKeeps ==
  ASSUME Inv, onMessageDeleted
  PROVE  Inv'
<1>1. OtherTypes'
  BY DEF Inv, OtherTypes, onMessageDeleted, tdlib, limiter
<1> DEFINE row == SelectInSeq(m_messages, LAMBDA r : r.id = Received.id)
<1>2. UNCHANGED <<local, messagePhotoQueue, crashed>>
  BY DEF onMessageDeleted, tdlib
<1>3. InboxInv'
  BY ConsumeKeeps DEF Inv, onMessageDeleted, tdlib
<1>4. CASE UNCHANGED <<m_messages, trouble>>
  BY <1>1, <1>2, <1>3, <1>4
     DEF Inv, ListInv, ListTypes, NoFalseCompleted, FilesOnTheirRows, Waiting
<1>5. CASE \E i \in 1..Len(m_messages) :
              /\ m_messages' = RemoveAt(m_messages, i)
              /\ trouble' = IF \E f \in Waiting : messagePhotoQueue[f] >= i
                            THEN trouble \cup {"deleted"} ELSE trouble
  <2>1. PICK i \in 1..Len(m_messages) :
              /\ m_messages' = RemoveAt(m_messages, i)
              /\ trouble' = IF \E f \in Waiting : messagePhotoQueue[f] >= i
                            THEN trouble \cup {"deleted"} ELSE trouble
    BY <1>5
  <2>2. /\ m_messages' \in Seq(RowType)
        /\ Len(m_messages') = Len(m_messages) - 1
        /\ \A j \in 1..(Len(m_messages) - 1) :
              m_messages'[j] = IF j < i THEN m_messages[j] ELSE m_messages[j + 1]
        /\ NoFalseCompleted'
    BY <1>2, <2>1, RemoveRowFacts DEF Inv, ListInv
  <2>3. ListTypes'
    BY <1>2, <2>1, <2>2 DEF Inv, ListInv, ListTypes, Waiting, Troubles
  <2>4. FilesOnTheirRows'
    <3> SUFFICES ASSUME trouble' = {}
                 PROVE  /\ ~crashed
                        /\ \A f \in Waiting :
                             /\ messagePhotoQueue[f] <= Len(m_messages) - 1
                             /\ m_messages'[messagePhotoQueue[f]].file = f
      BY <1>2, <2>2 DEF FilesOnTheirRows, Waiting
    <3>1. trouble = {} /\ \A f \in Waiting : ~(messagePhotoQueue[f] >= i)
      BY <2>1
    <3>2. Len(m_messages) \in Nat
      BY ListFacts DEF Inv, ListInv
    <3> QED BY <2>2, <3>1, <3>2 DEF Inv, ListInv, ListTypes, FilesOnTheirRows
  <2> QED BY <1>1, <1>3, <2>2, <2>3, <2>4 DEF Inv, ListInv
<1>6. row = 0 \/ row \in 1..Len(m_messages)
  <2> DEFINE I == {i \in 1..Len(m_messages) : m_messages[i].id = Received.id}
  <2>1. row = IF I # {} THEN Min(I) ELSE 0
    BY DEF SelectInSeq
  <2>2. ASSUME I # {} PROVE Min(I) \in I
    <3>1. I \subseteq Nat
      OBVIOUS
    <3>2. PICK x \in I : \A y \in I : x <= y
      BY <2>2, <3>1, LeastNatural
    <3> QED BY <3>2 DEF Min
  <2> QED BY <2>1, <2>2
<1>7. \/ row = 0 /\ UNCHANGED <<m_messages, trouble>>
      \/ /\ row > 0
         /\ m_messages' = RemoveAt(m_messages, row)
         /\ trouble' = IF \E f \in Waiting : messagePhotoQueue[f] >= row
                       THEN trouble \cup {"deleted"} ELSE trouble
  BY DEF onMessageDeleted
<1> HIDE DEF row
<1> QED BY <1>4, <1>5, <1>6, <1>7

LEMMA ProcessFileKeeps ==
  ASSUME Inv, processFile
  PROVE  Inv'
<1>1. OtherTypes'
  BY DEF Inv, OtherTypes, processFile, tdlib, limiter
<1>2. /\ Received.file \in Files
      /\ Received.local = "complete" => local[Received.file] = "complete"
  BY ConsumeKeeps, DeliveryFacts DEF Inv, processFile, tdlib, Reports
<1>3. PICK f \in Files : f = Received.file
  BY <1>2
<1>4. UNCHANGED <<local, trouble>>
  BY DEF processFile, tdlib
<1>5. InboxInv'
  BY ConsumeKeeps DEF Inv, processFile, tdlib
<1>6. /\ Waiting' \subseteq Waiting
      /\ \A g \in Waiting' : messagePhotoQueue'[g] = messagePhotoQueue[g]
  BY DEF processFile, Waiting, Without, Restrict, model
<1>7. /\ m_messages' \in Seq(RowType)
      /\ Len(m_messages') = Len(m_messages)
      /\ \A i \in 1..Len(m_messages) :
           /\ m_messages'[i].file = m_messages[i].file
           /\ m_messages'[i].completed =>
                m_messages[i].completed \/ (m_messages[i].file = f /\ local[f] = "complete")
  <2>1. CASE UNCHANGED m_messages
    BY <2>1 DEF Inv, ListInv, ListTypes
  <2>2. CASE /\ f \in Waiting
             /\ messagePhotoQueue[f] <= Len(m_messages)
             /\ PutIntoRow(messagePhotoQueue[f], f, Received.local)
             /\ ~UNCHANGED m_messages
    <3>1. PICK i \in 1..Len(m_messages), b \in BOOLEAN :
            /\ i = messagePhotoQueue[f]
            /\ b = (Received.local = "complete")
      <4>1. messagePhotoQueue[f] \in 1..Len(m_messages)
        BY <2>2, ListFacts DEF Inv, ListInv, ListTypes
      <4>2. (Received.local = "complete") \in BOOLEAN
        OBVIOUS
      <4> QED BY <4>1, <4>2
    <3>2. /\ m_messages[i].file = f
          /\ m_messages' = [m_messages EXCEPT ![i].completed = b]
      BY <2>2, <3>1 DEF PutIntoRow
    <3>3. PICK r \in RowType : r = [m_messages[i] EXCEPT !.completed = b]
      BY <3>1, ListFacts DEF Inv, ListInv, RowType
    <3>4. r.file = f /\ (r.completed => local[f] = "complete")
      BY <1>2, <1>3, <3>1, <3>2, <3>3, ListFacts DEF Inv, ListInv, RowType
    <3>5. m_messages' = [m_messages EXCEPT ![i] = r]
      BY <3>2, <3>3
    <3>6. m_messages \in Seq(RowType)
      BY DEF Inv, ListInv, ListTypes
    <3>7. /\ m_messages' \in Seq(RowType)
          /\ Len(m_messages') = Len(m_messages)
          /\ \A j \in 1..Len(m_messages) : m_messages'[j] = IF j = i THEN r ELSE m_messages[j]
      BY <3>5, <3>6, ExceptSeq
    <3> QED BY <3>2, <3>4, <3>7
  <2>3. \/ UNCHANGED m_messages
        \/ /\ f \in Waiting
           /\ messagePhotoQueue[f] <= Len(m_messages)
           /\ PutIntoRow(messagePhotoQueue[f], f, Received.local)
    BY <1>3 DEF processFile, model
  <2> QED BY <2>1, <2>2, <2>3
<1>8. crashed' \in BOOLEAN /\ (trouble = {} => crashed' = crashed)
  <2>1. trouble = {} => ~(f \in Waiting /\ ~(messagePhotoQueue[f] <= Len(m_messages)))
    BY DEF Inv, ListInv, FilesOnTheirRows
  <2>2. \/ UNCHANGED crashed
        \/ /\ f \in Waiting /\ ~(messagePhotoQueue[f] <= Len(m_messages))
           /\ crashed' \in BOOLEAN
    BY <1>3 DEF processFile, model
  <2> QED BY <2>1, <2>2 DEF Inv, ListInv, ListTypes
<1>9. ListTypes'
  BY <1>4, <1>6, <1>7, <1>8 DEF Inv, ListInv, ListTypes
<1>10. NoFalseCompleted'
  BY <1>3, <1>4, <1>7, FilesAssumption DEF Inv, ListInv, NoFalseCompleted
<1>11. FilesOnTheirRows'
  BY <1>4, <1>6, <1>7, <1>8 DEF Inv, ListInv, ListTypes, FilesOnTheirRows
<1> QED BY <1>1, <1>5, <1>9, <1>10, <1>11 DEF Inv, ListInv

-----------------------------------------------------------------------------
(* The view and the user. *)

LEMMA DataKeeps ==
  ASSUME Inv, NEW i \in 1..Len(m_messages), data(i)
  PROVE  Inv'
<1>1. PICK f \in Files : f = m_messages[i].file
  BY ListFacts DEF Inv, ListInv, data, RowType
<1>2. /\ Len(m_messages) \in Nat
      /\ UNCHANGED <<local, low, high, deleted, inbox, m_messages, crashed, trouble, events>>
  BY ListFacts DEF Inv, ListInv, data
<1>3. /\ requests' \in [Files -> Nat]
      /\ downloadMap' \in [Files -> 0..3]
      /\ timers' \subseteq Files
  <2>1. \/ UNCHANGED <<requests, limiter>>
        \/ downloadFile(f)
    BY <1>1 DEF data, getFile
  <2>2. requests[f] \in Nat /\ downloadMap[f] \in 0..3
    BY DEF Inv, OtherTypes
  <2>3. CASE downloadFile(f)
    <3>1. CASE downloadMap[f] + 1 >= 3
      BY <2>3, <3>1 DEF downloadFile, Inv, OtherTypes
    <3>2. CASE ~(downloadMap[f] + 1 >= 3)
      <4>1. downloadMap[f] + 1 \in 0..3 /\ requests[f] + 1 \in Nat
        BY <2>2, <3>2
      <4> QED BY <2>3, <3>2, <4>1 DEF downloadFile, Inv, OtherTypes
    <3> QED BY <3>1, <3>2
  <2> QED BY <2>1, <2>3 DEF limiter, Inv, OtherTypes
<1>4. OtherTypes'
  BY <1>2, <1>3 DEF Inv, OtherTypes
<1>5. InboxInv'
  BY <1>2 DEF Inv, InboxInv, InboxHonest, PageFirst, Opened
<1>6. /\ Waiting' \subseteq Waiting \cup {f}
      /\ \A g \in Waiting' : \/ g \in Waiting /\ messagePhotoQueue'[g] = messagePhotoQueue[g]
                             \/ g = f /\ messagePhotoQueue'[g] = i
  <2>1. CASE UNCHANGED messagePhotoQueue
    BY <2>1 DEF Waiting
  <2>2. CASE messagePhotoQueue' = Put(messagePhotoQueue, f, i)
    BY <2>2 DEF Waiting, Put
  <2> QED BY <1>1, <2>1, <2>2 DEF data, getFile
<1>7. ListTypes'
  BY <1>2, <1>6 DEF Inv, ListInv, ListTypes
<1>8. NoFalseCompleted'
  BY <1>2 DEF Inv, ListInv, NoFalseCompleted
<1>9. FilesOnTheirRows'
  BY <1>1, <1>2, <1>6 DEF Inv, ListInv, ListTypes, FilesOnTheirRows
<1> QED BY <1>4, <1>5, <1>7, <1>8, <1>9 DEF Inv, ListInv

LEMMA DeleteMessageKeeps ==
  ASSUME Inv, NEW row \in 1..Len(m_messages), deleteMessage(row)
  PROVE  Inv'
<1> DEFINE n == Len(m_messages)
<1>1. n \in Nat /\ m_messages # <<>>
  BY ListFacts DEF Inv, ListInv
<1>2. UNCHANGED <<local, inbox, crashed>>
  BY DEF deleteMessage, tdlib
<1>3. OtherTypes'
  <2>1. events' \in 0..MaxEvents
    BY BoundsAssumption DEF Inv, OtherTypes, deleteMessage, HappensOnce
  <2> QED BY <2>1 DEF Inv, OtherTypes, deleteMessage, tdlib, limiter
<1>4. InboxInv'
  BY <1>1, <1>2 DEF Inv, InboxInv, InboxHonest, PageFirst, Opened
<1>5. /\ m_messages' \in Seq(RowType)
      /\ Len(m_messages') = n - 1
      /\ \A i \in 1..(n - 1) : m_messages'[i] = IF i < row THEN m_messages[i] ELSE m_messages[i + 1]
      /\ NoFalseCompleted'
  BY <1>2, RemoveRowFacts DEF Inv, ListInv, deleteMessage
<1>6. /\ Waiting' \subseteq Waiting
      /\ \A f \in Waiting' : \/ messagePhotoQueue'[f] = messagePhotoQueue[f]
                             \/ /\ messagePhotoQueue[f] > row
                                /\ messagePhotoQueue'[f] = messagePhotoQueue[f] - 1
  BY DEF deleteMessage, deletedFromQueue, Waiting
<1>7. ListTypes'
  BY <1>2, <1>5, <1>6 DEF Inv, ListInv, ListTypes, deleteMessage, Troubles
<1>8. FilesOnTheirRows'
  <2> SUFFICES ASSUME trouble' = {}
               PROVE  /\ ~crashed
                      /\ \A f \in Waiting' :
                           /\ messagePhotoQueue'[f] <= n - 1
                           /\ m_messages'[messagePhotoQueue'[f]].file = f
    BY <1>2, <1>5 DEF FilesOnTheirRows
  <2>1. trouble = {} /\ messagePhotoQueue' = queueWithout(row)
    BY DEF deleteMessage
  <2>2. \A f \in Waiting' :
          /\ f \in Waiting
          /\ messagePhotoQueue[f] # row
          /\ messagePhotoQueue'[f] = IF messagePhotoQueue[f] > row
                                     THEN messagePhotoQueue[f] - 1 ELSE messagePhotoQueue[f]
    BY <2>1 DEF queueWithout, Waiting
  <2>3. ASSUME NEW f \in Waiting'
        PROVE  /\ messagePhotoQueue'[f] <= n - 1
               /\ m_messages'[messagePhotoQueue'[f]].file = f
    <3>1. PICK q \in Nat \ {0} : q = messagePhotoQueue[f]
      BY <2>2 DEF Inv, ListInv, ListTypes
    <3>2. q <= n /\ m_messages[q].file = f /\ q # row
      BY <2>1, <2>2, <3>1 DEF Inv, ListInv, FilesOnTheirRows
    <3>3. CASE q < row
      <4>1. messagePhotoQueue'[f] = q /\ q \in 1..(n - 1)
        BY <1>1, <2>2, <3>1, <3>3
      <4> QED BY <1>5, <3>2, <3>3, <4>1
    <3>4. CASE q > row
      <4>1. messagePhotoQueue'[f] = q - 1 /\ q - 1 \in 1..(n - 1) /\ ~(q - 1 < row)
        BY <1>1, <2>2, <3>1, <3>2, <3>4
      <4> QED BY <1>5, <3>2, <4>1
    <3> QED BY <3>2, <3>3, <3>4
  <2> QED BY <2>1, <2>3 DEF Inv, ListInv, FilesOnTheirRows
<1> QED BY <1>3, <1>4, <1>5, <1>7, <1>8 DEF Inv, ListInv

-----------------------------------------------------------------------------
(* TDLib. *)

\* What is sent says nothing false, and the list does not move.
LEMMA TdlibKeeps ==
  ASSUME Inv, OtherTypes', NEW d \in Delivery, inbox' = Append(inbox, d), Reports(d, local'),
         Kept(local, local'), UNCHANGED <<model, trouble>>,
         d.kind \in {"file", "updateDeleteMessages"} \/ (Opened /\ d.kind # "messages")
  PROVE  Inv'
<1>1. UNCHANGED <<m_messages, messagePhotoQueue, crashed, trouble>>
  BY DEF model
<1>2. InboxInv'
  BY <1>1, SendKeeps DEF Inv
<1>3. NoFalseCompleted'
  <2> SUFFICES ASSUME NEW i \in 1..Len(m_messages), m_messages[i].completed
               PROVE  m_messages[i].file # NoFile /\ local'[m_messages[i].file] = "complete"
    BY <1>1 DEF NoFalseCompleted
  <2>1. /\ m_messages[i].file # NoFile
        /\ local[m_messages[i].file] = "complete"
    BY DEF Inv, ListInv, NoFalseCompleted
  <2>2. m_messages[i].file \in Files
    BY <2>1, ListFacts DEF Inv, ListInv, RowType
  <2> QED BY <2>1, <2>2 DEF Kept
<1>4. ListTypes' /\ FilesOnTheirRows'
  BY <1>1 DEF Inv, ListInv, ListTypes, FilesOnTheirRows, Waiting
<1> QED BY <1>2, <1>3, <1>4 DEF Inv, ListInv

LEMMA DownloadKeeps ==
  ASSUME Inv, NEW f \in Files, Download(f) \/ Completes(f) \/ Stops(f)
  PROVE  Inv'
<1>1. PICK s \in DiskStates : s = local'[f]
  BY DEF Inv, OtherTypes, DiskStates, Download, Completes, Stops
<1>2. /\ local' = [local EXCEPT ![f] = s]
      /\ local[f] = "complete" => s = "complete"
      /\ inbox' = Append(inbox, FileMessage(f, s))
      /\ UNCHANGED <<low, high, deleted, limiter, model, trouble>>
  BY <1>1 DEF Inv, OtherTypes, Download, Completes, Stops
<1>3. requests' \in [Files -> Nat]
  BY DEF Inv, OtherTypes, Download, Completes, Stops
<1>4. events' \in 0..MaxEvents
  BY BoundsAssumption DEF Inv, OtherTypes, Download, Completes, Stops, HappensOnce
<1>5. OtherTypes'
  BY <1>2, <1>3, <1>4 DEF Inv, OtherTypes, limiter
<1>6. PICK d \in Delivery : d = FileMessage(f, s)
  BY DEF Delivery, FileMessage
<1>7. Reports(d, local') /\ d.kind = "file"
  BY <1>1, <1>6 DEF Reports, FileMessage
<1>8. Kept(local, local')
  BY <1>2 DEF Inv, OtherTypes, Kept
<1> QED BY <1>2, <1>5, <1>6, <1>7, <1>8, TdlibKeeps

LEMMA TimeoutKeeps ==
  ASSUME Inv, NEW f \in Files, Timeout(f)
  PROVE  Inv'
<1>1. OtherTypes'
  BY DEF Inv, OtherTypes, Timeout, tdlib
<1> QED BY <1>1 DEF Inv, InboxInv, InboxHonest, PageFirst, Opened, ListInv, ListTypes,
                    NoFalseCompleted, FilesOnTheirRows, Waiting, Timeout, tdlib, model

LEMMA MessageComesKeeps ==
  ASSUME Inv, NEW id \in Ids, NEW kind \in {"prepend", "updateNewMessage"}, Opened,
         inbox' = Append(inbox, [kind |-> kind, message |-> Message(id)]),
         OtherTypes', UNCHANGED <<local, model, trouble>>
  PROVE  Inv'
<1>1. PICK c \in Content : c = Message(id) /\ Truthful(c, local)
  BY ContentFacts DEF Inv
<1>2. PICK d \in Delivery : d = [kind |-> kind, message |-> c]
  BY DEF Delivery
<1>3. Reports(d, local') /\ d.kind # "messages"
  BY <1>1, <1>2 DEF Reports
<1> QED BY <1>1, <1>2, <1>3, TdlibKeeps DEF Kept

LEMMA OlderMessageKeeps ==
  ASSUME Inv, OlderMessage
  PROVE  Inv'
<1>1. low' \in Ids
  BY DEF Inv, OtherTypes, OlderMessage, Ids
<1>2. OtherTypes'
  BY <1>1 DEF Inv, OtherTypes, OlderMessage, limiter
<1>3. PICK id \in Ids : id = low'
  BY <1>1
<1> QED BY <1>2, <1>3, MessageComesKeeps DEF OlderMessage

LEMMA NewMessageKeeps ==
  ASSUME Inv, NewMessage
  PROVE  Inv'
<1>1. high' \in Ids
  BY FilesAssumption, LenProperties DEF Inv, OtherTypes, NewMessage, Ids
<1>2. OtherTypes'
  BY <1>1 DEF Inv, OtherTypes, NewMessage, limiter
<1>3. PICK id \in Ids : id = high'
  BY <1>1
<1> QED BY <1>2, <1>3, MessageComesKeeps DEF NewMessage

LEMMA MessageDeletedKeeps ==
  ASSUME Inv, NEW id \in Ids, MessageDeleted(id)
  PROVE  Inv'
<1>1. events' \in 0..MaxEvents
  BY BoundsAssumption DEF Inv, OtherTypes, MessageDeleted, HappensOnce
<1>2. OtherTypes'
  BY <1>1 DEF Inv, OtherTypes, MessageDeleted, limiter
<1>3. PICK d \in Delivery : d = [kind |-> "updateDeleteMessages", id |-> id]
  BY DEF Delivery
<1>4. Reports(d, local') /\ d.kind = "updateDeleteMessages" /\ Kept(local, local')
  BY <1>3 DEF Reports, Kept, MessageDeleted
<1> QED BY <1>2, <1>3, <1>4, TdlibKeeps DEF MessageDeleted

-----------------------------------------------------------------------------
(* The invariant. *)

LEMMA InvInit == Init => Inv
<1> SUFFICES ASSUME Init PROVE Inv
  OBVIOUS
<1>1. Len(FileOf) \in Nat
  BY FilesAssumption, LenProperties
<1>2. low \in Ids /\ high \in Ids /\ low <= high
  BY FirstAssumption DEF Init, Ids
<1>3. OtherTypes
  BY <1>2, BoundsAssumption DEF Init, OtherTypes, DiskStates
<1>4. PICK read \in {0} \cup First[1]..First[2] :
        inbox = <<[kind |-> "messages", read |-> read,
                   messages |-> [i \in 1..(high - low + 1) |-> Message(low + i - 1)]]>>
  BY DEF Init
<1> DEFINE n == high - low + 1
           page == [i \in 1..n |-> Message(low + i - 1)]
<1>5. \A i \in 1..n : low + i - 1 \in Ids
  BY <1>1, <1>2 DEF Ids
<1>6. \A i \in 1..n : page[i] \in Content /\ Truthful(page[i], local)
  BY <1>3, <1>5, ContentFacts
<1>7. page \in Seq(Content) /\ Len(page) = n
  <2>1. page \in [1..n -> Content]
    BY <1>6
  <2>2. n \in Nat
    BY <1>1, <1>2 DEF Ids
  <2> HIDE DEF page, n
  <2> QED BY <2>1, <2>2
<1>8. PICK d \in Delivery : inbox = <<d>> /\ d.kind = "messages" /\ d.messages = page
  <2>1. read \in Nat
    BY <1>1, FirstAssumption
  <2>2. [kind |-> "messages", read |-> read, messages |-> page] \in Delivery
    BY <1>7, <2>1 DEF Delivery
  <2> HIDE DEF page
  <2> QED BY <1>4, <2>2 DEF page
<1> HIDE DEF page, n
<1>9. InboxInv
  <2>1. inbox \in Seq(Delivery) /\ Len(inbox) = 1 /\ inbox[1] = d
    BY <1>8
  <2>2. Reports(d, local)
    BY <1>6, <1>7, <1>8 DEF Reports
  <2>3. PageFirst
    BY <1>8, <2>1 DEF PageFirst, Init
  <2> QED BY <2>1, <2>2, <2>3 DEF InboxInv, InboxHonest
<1>10. ListInv
  <2>1. Waiting = {}
    BY DEF Init, Waiting
  <2>2. m_messages = <<>> /\ Len(m_messages) = 0 /\ crashed = FALSE /\ trouble = {}
    BY DEF Init
  <2>3. ListTypes
    <3>1. <<>> \in Seq(RowType) /\ {} \subseteq Troubles /\ FALSE \in BOOLEAN
      OBVIOUS
    <3> QED BY <2>1, <2>2, <3>1 DEF ListTypes
  <2>4. NoFalseCompleted
    BY <2>2 DEF NoFalseCompleted
  <2>5. FilesOnTheirRows
    BY <2>1, <2>2 DEF FilesOnTheirRows
  <2> QED BY <2>3, <2>4, <2>5 DEF ListInv
<1> QED BY <1>3, <1>9, <1>10 DEF Inv

LEMMA InvStep == Inv /\ [Next]_vars => Inv'
<1> SUFFICES ASSUME Inv, [Next]_vars PROVE Inv'
  OBVIOUS
<1>1. CASE UNCHANGED vars
  BY <1>1 DEF Inv, InboxInv, InboxHonest, PageFirst, Opened, OtherTypes, ListInv, ListTypes,
              NoFalseCompleted, FilesOnTheirRows, Waiting, vars, tdlib, limiter, model
<1>2. CASE \E f \in Files : Download(f) \/ Completes(f) \/ Stops(f) \/ Timeout(f)
  BY <1>2, DownloadKeeps, TimeoutKeeps
<1>3. CASE OlderMessage \/ NewMessage \/ \E id \in Ids : MessageDeleted(id)
  BY <1>3, OlderMessageKeeps, NewMessageKeeps, MessageDeletedKeeps
<1>4. CASE \E i \in 1..Len(m_messages) : data(i) \/ deleteMessage(i)
  BY <1>4, DataKeeps, DeleteMessageKeeps
<1>5. CASE Handle
  BY <1>5, AddMessagesKeeps, AppendMessageKeeps, PrependMessageKeeps, OnMessageDeletedKeeps,
     ProcessFileKeeps DEF Handle
<1> QED BY <1>1, <1>2, <1>3, <1>4, <1>5 DEF Next

LEMMA Invariant == Spec => []Inv
BY InvInit, InvStep, PTL DEF Spec

(* Every variable keeps its type, for any chat, any files and any first page. *)
THEOREM TypeCorrect == Spec => []TypeOK
<1>1. Inv => TypeOK
  <2> SUFFICES ASSUME Inv PROVE TypeOK
    OBVIOUS
  <2>1. ASSUME NEW i \in 1..Len(inbox)
        PROVE  \/ inbox[i].kind \in {"updateNewMessage", "prepend"} /\ inbox[i].message \in Content
               \/ inbox[i].kind = "messages" /\ inbox[i].messages \in Seq(Content)
               \/ inbox[i].kind = "file" /\ inbox[i].file \in Files
               \/ inbox[i].kind = "updateDeleteMessages" /\ inbox[i].id \in Ids
    <3>1. inbox[i] \in Delivery
      BY ElementOfSeq DEF Inv, InboxInv
    <3> QED BY <3>1 DEF Delivery
  <2> QED BY <2>1 DEF Inv, OtherTypes, DiskStates, ListInv, ListTypes, RowType, TypeOK
<1> QED BY <1>1, Invariant, PTL

(* A file is waited for at a row that holds it, wherever rows are added. *)
THEOREM OnTheirRows == Spec => []FilesOnTheirRows
<1>1. Inv => FilesOnTheirRows
  BY DEF Inv, ListInv
<1> QED BY <1>1, Invariant, PTL

(* A row is shown as downloaded only when its own file is on the disk. *)
THEOREM TrulyCompleted == Spec => []NoFalseCompleted
<1>1. Inv => NoFalseCompleted
  BY DEF Inv, ListInv
<1> QED BY <1>1, Invariant, PTL
=============================================================================
