------------------------------ MODULE ReadingProofs ------------------------------
(***************************************************************************)
(* Theorems about Reading for all its constants, checked by TLAPS.         *)
(*                                                                         *)
(* First the streams: what TDLib appends and what a handler takes.  Then   *)
(* the types, with what is known of the ids under way.  Then the rows: a   *)
(* count that is not TDLib's is followed by one that is, and a chat that   *)
(* ChatsModel was told of and that has no row has one under way.           *)
(***************************************************************************)
EXTENDS Reading, SequenceTheorems, FiniteSetTheorems, WellFoundedInduction, TLAPS

-----------------------------------------------------------------------------
(* Lists and finite sets. *)

(* A non-empty set of naturals has a least element. *)
LEMMA LeastNatural ==
  ASSUME NEW T, T \subseteq Nat, T # {}
  PROVE  \E x \in T : \A y \in T : x <= y
<1> DEFINE R == {ss \in Nat \X Nat : ss[1] < ss[2]}
<1>1. IsWellFoundedOn(R, Nat)
  BY NatLessThanWellFounded, Zenon DEF OpToRel
<1>2. \A x, y \in Nat : y < x => <<y, x>> \in R
  OBVIOUS
<1> HIDE DEF R
<1>3. PICK x \in T : \A y \in T : ~ (<<y, x>> \in R)
  BY <1>1, WFMin
<1>4. \A y \in T : ~ (y < x)
  BY <1>2, <1>3
<1> QED BY <1>4

(* SetToSeq puts every element of a finite set somewhere. *)
LEMMA SetToSeqProperties ==
  ASSUME NEW S, IsFiniteSet(S)
  PROVE  /\ SetToSeq(S) \in Seq(S)
         /\ Len(SetToSeq(S)) = Cardinality(S)
         /\ \A x \in S : \E i \in 1..Cardinality(S) : SetToSeq(S)[i] = x
<1> DEFINE n == Cardinality(S)
<1>1. n \in Nat /\ IsFiniteSet(1..n) /\ Cardinality(1..n) = n
  BY FS_CardinalityType, FS_Interval
<1>2. \E f \in [1..n -> S] : IsInjective(f)
  <2>1. PICK f \in Bijection(1..n, S) : TRUE
    BY FS_CardinalityType DEF ExistsBijection
  <2> QED BY <2>1 DEF Bijection, Injection, IsInjective
<1>3. SetToSeq(S) \in [1..n -> S] /\ IsInjective(SetToSeq(S))
  BY <1>2 DEF SetToSeq
<1> DEFINE s == SetToSeq(S)
<1> HIDE DEF s, n
<1>4. s \in Injection(1..n, S)
  BY <1>3 DEF s, Injection, IsInjective
<1>5. s \in Surjection(1..n, S)
  BY <1>1, <1>4, FS_Injection DEF n
<1> QED BY <1>1, <1>3, <1>5 DEF s, n, Surjection

(* The elements of a finite set, each changed by f. *)
LEMMA ImageFinite ==
  ASSUME NEW S, IsFiniteSet(S), NEW f
  PROVE  IsFiniteSet({f[x] : x \in S})
<1> DEFINE T == {f[x] : x \in S}
           g == [x \in S |-> f[x]]
<1>1. g \in Surjection(S, T)
  BY DEF Surjection
<1> HIDE DEF g, T
<1>2. IsFiniteSet(T)
  BY <1>1, FS_Surjection
<1> QED BY <1>2 DEF T

-----------------------------------------------------------------------------
(* Sums and sets of ids. *)

LEMMA SumType ==
  ASSUME NEW number \in [Chats -> Nat]
  PROVE  Sum(number) \in Nat
<1> DEFINE pairs == [c \in Chats |-> {c} \X (1..number[c])]
           All == {pairs[c] : c \in Chats}
<1>1. All = {{c} \X (1..number[c]) : c \in Chats}
  OBVIOUS
<1>2. \A c \in Chats : IsFiniteSet(pairs[c])
  <2> SUFFICES ASSUME NEW c \in Chats
               PROVE  IsFiniteSet({c} \X (1..number[c]))
    OBVIOUS
  <2>1. IsFiniteSet({c})
    BY FS_Singleton
  <2>2. number[c] \in Int
    OBVIOUS
  <2>3. IsFiniteSet(1..number[c])
    BY <2>2, FS_Interval
  <2> QED BY <2>1, <2>3, FS_Product
<1> HIDE DEF pairs
<1>3. IsFiniteSet(All)
  BY ChatsAssumption, ImageFinite
<1>4. \A T \in All : IsFiniteSet(T)
  BY <1>2
<1> HIDE DEF All
<1>5. IsFiniteSet(UNION All)
  BY <1>3, <1>4, FS_UNION
<1> QED BY <1>1, <1>5, FS_CardinalityType DEF Sum

LEMMA HighestFacts ==
  ASSUME NEW n \in Nat, NEW ids \in SUBSET (1..n), ids # {}
  PROVE  Highest(ids) \in ids
<1> DEFINE T == {n - x : x \in ids}
<1>1. T \subseteq Nat /\ T # {}
  <2>1. \A x \in ids : n - x \in Nat
    OBVIOUS
  <2> QED BY <2>1
<1>2. PICK t \in T : \A y \in T : t <= y
  BY <1>1, LeastNatural
<1>3. PICK x \in ids : t = n - x
  BY <1>2
<1>4. \A y \in ids : y <= x
  <2> SUFFICES ASSUME NEW y \in ids
               PROVE  y <= x
    OBVIOUS
  <2>1. n - x <= n - y
    BY <1>2, <1>3
  <2> QED BY <2>1
<1> QED BY <1>4 DEF Highest

LEMMA SumOfNothing == Sum([c \in Chats |-> 0]) = 0
<1>1. \A c \in Chats : 1..0 = {} /\ {c} \X {} = {}
  OBVIOUS
<1>2. \A c \in Chats : {c} \X (1..[d \in Chats |-> 0][c]) = {}
  BY <1>1
<1>3. UNION {{c} \X (1..[d \in Chats |-> 0][c]) : c \in Chats} = {}
  BY <1>2
<1> QED BY <1>3, FS_EmptySet DEF Sum

-----------------------------------------------------------------------------
(* Types. *)

RowType ==
  [counted : {TRUE}, unread_count : Counts, unread_mention_count : 0..1, mute_for : BOOLEAN,
   last_message : Counts]
RequestType ==
  [kind : {"viewMessages", "getChat", "getChats", "getChatHistory"}, chat : Chats, value : Counts]
UpdateType ==
  UNION {[kind : {"newMessage", "readInbox", "lastMessage"}, chat : Chats, value : Counts],
         [kind : {"mentions"}, chat : Chats, value : 0..1],
         [kind : {"settings", "order"}, chat : Chats, value : BOOLEAN],
         [kind : {"chat"}, chat : Chats, value : RowType],
         [kind : {"chats"}, chat : Chats, value : SUBSET Chats],
         [kind : {"messages"}, chat : {Open}, value : SUBSET (1..MaxMessages)]}

ServerTypes ==
  /\ arrived \in [Chats -> Counts]
  /\ read \in [Chats -> Counts]
  /\ \A c \in Chats : read[c] <= arrived[c]
  /\ mentions \in [Chats -> 0..1]
  /\ muted \in [Chats -> BOOLEAN]
  /\ listed \in [Chats -> BOOLEAN]
  /\ events \in 0..MaxEvents
StreamTypes == requests \in Seq(RequestType) /\ inbox \in Seq(UpdateType)
ListTypes ==
  /\ rows \in [Chats -> RowType \cup {NoRow}]
  /\ m_totalUnreadCount \in Nat
  /\ stale \in BOOLEAN
PageTypes ==
  /\ m_messages = Closed \/ m_messages \subseteq 1..MaxMessages
  /\ unseenMessageIds \subseteq m_messages
  /\ unviewed \subseteq 1..MaxMessages
  /\ {pageActive, appActive} \subseteq BOOLEAN
Types == ServerTypes /\ StreamTypes /\ ListTypes /\ PageTypes

\* Ids under way are ids of messages that have arrived.
GoodRequest(r, last) ==
  /\ r.kind = "viewMessages" => r.value <= last[r.chat]
  /\ r.kind = "getChatHistory" => r.chat = Open
GoodUpdate(e, last) ==
  /\ e.kind \in {"newMessage", "lastMessage"} => e.value \in 1..last[e.chat]
  /\ e.kind = "chat" => e.value.last_message <= last[e.chat]
  /\ e.kind = "messages" => e.value \subseteq 1..last[Open]
GoodRows == \A c \in Chats : HasRow(c) => rows[c].last_message <= arrived[c]
Given ==
  /\ \A i \in 1..Len(requests) : GoodRequest(requests[i], arrived)
  /\ \A i \in 1..Len(inbox) : GoodUpdate(inbox[i], arrived)
  /\ GoodRows
  /\ unseenMessageIds \subseteq 1..arrived[Open]

\* The page is asked for once, and nothing comes into the open chat before it.
Loads(i) == requests[i].kind = "getChatHistory"
Loaded(i) == inbox[i].kind = "messages"
Loading == (\E i \in 1..Len(requests) : Loads(i)) \/ \E i \in 1..Len(inbox) : Loaded(i)
PageFirst ==
  /\ m_messages = Closed => unseenMessageIds = {} /\ ~Loading
  /\ Loading => unseenMessageIds = {}
  /\ \A i, j \in 1..Len(requests) : Loads(i) /\ Loads(j) => i = j
  /\ \A i, j \in 1..Len(inbox) : Loaded(i) /\ Loaded(j) => i = j
  /\ \A i \in 1..Len(requests), j \in 1..Len(inbox) : ~(Loads(i) /\ Loaded(j))

TypeInv == Types /\ Given /\ PageFirst

LEMMA UpdateTypes ==
  /\ \A c \in Chats, n \in Counts :
       /\ Update("newMessage", c, n) \in UpdateType
       /\ Update("readInbox", c, n) \in UpdateType
       /\ Update("lastMessage", c, n) \in UpdateType
  /\ \A c \in Chats, n \in 0..1 : Update("mentions", c, n) \in UpdateType
  /\ \A c \in Chats, b \in BOOLEAN :
       /\ Update("settings", c, b) \in UpdateType
       /\ Update("order", c, b) \in UpdateType
  /\ \A c \in Chats, row \in RowType : Update("chat", c, row) \in UpdateType
  /\ \A c \in Chats, s \in SUBSET Chats : Update("chats", c, s) \in UpdateType
  /\ \A s \in SUBSET (1..MaxMessages) : Update("messages", Open, s) \in UpdateType
<1>1. \A c \in Chats, n \in Counts :
        /\ Update("newMessage", c, n) \in UpdateType
        /\ Update("readInbox", c, n) \in UpdateType
        /\ Update("lastMessage", c, n) \in UpdateType
  BY DEF UpdateType, Update
<1>2. \A c \in Chats, n \in 0..1 : Update("mentions", c, n) \in UpdateType
  BY DEF UpdateType, Update
<1>3. \A c \in Chats, b \in BOOLEAN :
        /\ Update("settings", c, b) \in UpdateType
        /\ Update("order", c, b) \in UpdateType
  BY DEF UpdateType, Update
<1>4. \A c \in Chats, row \in RowType : Update("chat", c, row) \in UpdateType
  BY DEF UpdateType, Update
<1>5. \A c \in Chats, s \in SUBSET Chats : Update("chats", c, s) \in UpdateType
  BY DEF UpdateType, Update
<1>6. \A s \in SUBSET (1..MaxMessages) : Update("messages", Open, s) \in UpdateType
  BY DEF UpdateType, Update
<1> QED BY <1>1, <1>2, <1>3, <1>4, <1>5, <1>6

LEMMA ValueTypes ==
  ASSUME NEW e \in UpdateType
  PROVE  /\ e.chat \in Chats
         /\ e.kind \in {"newMessage", "readInbox", "lastMessage"} => e.value \in Counts
         /\ e.kind = "mentions" => e.value \in 0..1
         /\ e.kind \in {"settings", "order"} => e.value \in BOOLEAN
         /\ e.kind = "chat" => e.value \in RowType
         /\ e.kind = "chats" => e.value \in SUBSET Chats
         /\ e.kind = "messages" => e.chat = Open /\ e.value \in SUBSET (1..MaxMessages)
BY ChatsAssumption DEF UpdateType

LEMMA RequestTypes ==
  \A c \in Chats, n \in Counts :
    /\ Request("viewMessages", c, n) \in RequestType
    /\ Request("getChat", c, n) \in RequestType
    /\ Request("getChats", c, n) \in RequestType
    /\ Request("getChatHistory", c, n) \in RequestType
BY DEF RequestType, Request

LEMMA RowTypes ==
  /\ NoRow.counted = FALSE
  /\ \A n, last \in Counts, m \in 0..1, mute \in BOOLEAN :
       /\ Row(n, m, mute, last) \in RowType
       /\ Row(n, m, mute, last).unread_count = n
       /\ Row(n, m, mute, last).unread_mention_count = m
       /\ Row(n, m, mute, last).mute_for = mute
       /\ Row(n, m, mute, last).last_message = last
  /\ \A row \in RowType : row.counted /\ row # NoRow
<1>1. NoRow.counted = FALSE
  BY DEF NoRow
<1>2. \A n, last \in Counts, m \in 0..1, mute \in BOOLEAN :
        /\ Row(n, m, mute, last) \in RowType
        /\ Row(n, m, mute, last).unread_count = n
        /\ Row(n, m, mute, last).unread_mention_count = m
        /\ Row(n, m, mute, last).mute_for = mute
        /\ Row(n, m, mute, last).last_message = last
  BY DEF RowType, Row
<1>3. \A row \in RowType : row.counted = TRUE
  BY DEF RowType
<1> QED BY <1>1, <1>2, <1>3

-----------------------------------------------------------------------------
(* What is appended to a stream, and what is taken from it. *)

\* u is s with t after it.
Follows(u, s, t) ==
  /\ Len(s) \in Nat /\ Len(t) \in Nat /\ Len(u) = Len(s) + Len(t)
  /\ \A k \in 1..Len(s) : u[k] = s[k]
  /\ \A k \in 1..Len(t) : u[Len(s) + k] = t[k]
\* u is s without its head.
Rest(u, s) ==
  /\ Len(s) \in Nat /\ Len(s) >= 1 /\ Len(u) = Len(s) - 1
  /\ \A k \in 1..Len(u) : u[k] = s[k + 1]

LEMMA NothingFollows ==
  ASSUME NEW S, NEW s \in Seq(S)
  PROVE  Follows(s, s, <<>>)
<1>1. Len(s) \in Nat /\ Len(<<>>) = 0
  BY LenProperties
<1> QED BY <1>1 DEF Follows

LEMMA ConcatFollows ==
  ASSUME NEW S, NEW s \in Seq(S), NEW t \in Seq(S)
  PROVE  s \o t \in Seq(S) /\ Follows(s \o t, s, t)
<1>1. Len(s) \in Nat /\ Len(t) \in Nat
  BY LenProperties
<1>2. /\ s \o t \in Seq(S) /\ Len(s \o t) = Len(s) + Len(t)
      /\ \A i \in 1..(Len(s) + Len(t)) :
           (s \o t)[i] = IF i <= Len(s) THEN s[i] ELSE t[i - Len(s)]
  BY ConcatProperties
<1> QED BY <1>1, <1>2 DEF Follows

LEMMA AppendFollows ==
  ASSUME NEW S, NEW s \in Seq(S), NEW e \in S
  PROVE  Append(s, e) \in Seq(S) /\ Follows(Append(s, e), s, <<e>>)
<1>1. Len(s) \in Nat /\ Len(<<e>>) = 1 /\ <<e>>[1] = e
  BY LenProperties
<1>2. /\ Append(s, e) \in Seq(S) /\ Len(Append(s, e)) = Len(s) + 1
      /\ \A i \in 1..Len(s) : Append(s, e)[i] = s[i]
      /\ Append(s, e)[Len(s) + 1] = e
  BY AppendProperties
<1> QED BY <1>1, <1>2 DEF Follows

LEMMA TailRest ==
  ASSUME NEW S, NEW s \in Seq(S), s # <<>>
  PROVE  Tail(s) \in Seq(S) /\ Rest(Tail(s), s) /\ Head(s) = s[1] /\ s[1] \in S
<1>1. Len(s) \in Nat /\ Len(s) >= 1
  BY EmptySeq
<1>2. /\ Tail(s) \in Seq(S) /\ Len(Tail(s)) = Len(s) - 1
      /\ \A i \in 1..Len(Tail(s)) : Tail(s)[i] = s[i + 1]
  BY HeadTailProperties
<1>3. s[1] \in S
  BY <1>1, ElementOfSeq
<1> QED BY <1>1, <1>2, <1>3 DEF Rest

\* Where an element was.
LEMMA FollowsFrom ==
  ASSUME NEW u, NEW s, NEW t, Follows(u, s, t), NEW k \in 1..Len(u)
  PROVE  \/ k \in 1..Len(s) /\ u[k] = s[k]
         \/ k - Len(s) \in 1..Len(t) /\ u[k] = t[k - Len(s)]
<1>1. k <= Len(s) \/ k - Len(s) \in 1..Len(t)
  BY DEF Follows
<1>2. CASE k <= Len(s)
  BY <1>2 DEF Follows
<1>3. CASE k - Len(s) \in 1..Len(t)
  <2>1. Len(s) + (k - Len(s)) = k
    BY DEF Follows
  <2> QED BY <1>3, <2>1 DEF Follows
<1> QED BY <1>1, <1>2, <1>3

LEMMA RestFrom ==
  ASSUME NEW u, NEW s, Rest(u, s), NEW k \in 1..Len(u)
  PROVE  k + 1 \in 1..Len(s) /\ u[k] = s[k + 1]
BY DEF Rest

LEMMA ConsumeTakes ==
  ASSUME Types, NEW kind, Consume(kind)
  PROVE  /\ inbox' \in Seq(UpdateType) /\ Rest(inbox', inbox)
         /\ Received = inbox[1] /\ inbox[1] \in UpdateType /\ inbox[1].kind = kind
         /\ 1 \in 1..Len(inbox)
<1>1. inbox \in Seq(UpdateType) /\ inbox # <<>> /\ inbox' = Tail(inbox) /\ Received.kind = kind
  BY DEF Types, StreamTypes, Consume
<1>2. Rest(inbox', inbox)
  BY <1>1, TailRest
<1> QED BY <1>1, <1>2, TailRest DEF Received, Rest

-----------------------------------------------------------------------------
(* The page is asked for once. *)

\* What a step may do to the open chat but for handling the page.
Quietly ==
  /\ m_messages' = Closed => m_messages = Closed
  /\ unseenMessageIds' \subseteq unseenMessageIds \/ (m_messages' # Closed /\ ~Loading)

\* u is what is left of s, or s with elements of other kinds after it.
NoneOf(kind, u, s) ==
  Rest(u, s) \/ \E t : Follows(u, s, t) /\ \A k \in 1..Len(t) : t[k].kind # kind

LEMMA KindWasThere ==
  ASSUME NEW u, NEW s, NEW kind, NoneOf(kind, u, s)
  PROVE  \E d \in 0..1 : \A i \in 1..Len(u) :
           u[i].kind = kind => i + d \in 1..Len(s) /\ s[i + d].kind = kind
<1>1. CASE Rest(u, s)
  <2>1. \A i \in 1..Len(u) : u[i].kind = kind => i + 1 \in 1..Len(s) /\ s[i + 1].kind = kind
    BY <1>1, RestFrom
  <2> QED BY <2>1
<1>2. CASE \E t : Follows(u, s, t) /\ \A k \in 1..Len(t) : t[k].kind # kind
  <2>1. PICK t : Follows(u, s, t) /\ \A k \in 1..Len(t) : t[k].kind # kind
    BY <1>2
  <2>2. ASSUME NEW i \in 1..Len(u), u[i].kind = kind
        PROVE  i \in 1..Len(s) /\ s[i].kind = kind
    <3>1. \/ i \in 1..Len(s) /\ u[i] = s[i]
          \/ i - Len(s) \in 1..Len(t) /\ u[i] = t[i - Len(s)]
      BY <2>1, FollowsFrom
    <3>2. ~(i - Len(s) \in 1..Len(t) /\ u[i] = t[i - Len(s)])
      BY <2>1, <2>2
    <3> QED BY <2>2, <3>1, <3>2
  <2>3. \A i \in 1..Len(u) : i + 0 = i
    OBVIOUS
  <2> QED BY <2>2, <2>3
<1> QED BY <1>1, <1>2 DEF NoneOf

LEMMA PageFirstKept ==
  ASSUME PageFirst, Quietly,
         NoneOf("getChatHistory", requests', requests), NoneOf("messages", inbox', inbox)
  PROVE  PageFirst'
<1>1. PICK b \in 0..1 :
        \A i \in 1..Len(requests') : Loads(i)' => i + b \in 1..Len(requests) /\ Loads(i + b)
  <2>1. \E n \in 0..1 : \A i \in 1..Len(requests') :
          requests'[i].kind = "getChatHistory" =>
            i + n \in 1..Len(requests) /\ requests[i + n].kind = "getChatHistory"
    BY KindWasThere
  <2> QED BY <2>1 DEF Loads
<1>2. PICK d \in 0..1 :
        \A i \in 1..Len(inbox') : Loaded(i)' => i + d \in 1..Len(inbox) /\ Loaded(i + d)
  <2>1. \E n \in 0..1 : \A i \in 1..Len(inbox') :
          inbox'[i].kind = "messages" => i + n \in 1..Len(inbox) /\ inbox[i + n].kind = "messages"
    BY KindWasThere
  <2> QED BY <2>1 DEF Loaded
<1>3. Loading' => Loading
  BY <1>1, <1>2 DEF Loading
<1>4. \A i, j \in 1..Len(requests') : Loads(i)' /\ Loads(j)' => i = j
  <2> SUFFICES ASSUME NEW i \in 1..Len(requests'), NEW j \in 1..Len(requests'),
                      Loads(i)', Loads(j)'
               PROVE  i = j
    OBVIOUS
  <2>1. i + b = j + b
    BY <1>1 DEF PageFirst
  <2> QED BY <2>1
<1>5. \A i, j \in 1..Len(inbox') : Loaded(i)' /\ Loaded(j)' => i = j
  <2> SUFFICES ASSUME NEW i \in 1..Len(inbox'), NEW j \in 1..Len(inbox'), Loaded(i)', Loaded(j)'
               PROVE  i = j
    OBVIOUS
  <2>1. i + d = j + d
    BY <1>2 DEF PageFirst
  <2> QED BY <2>1
<1>6. \A i \in 1..Len(requests'), j \in 1..Len(inbox') : ~(Loads(i)' /\ Loaded(j)')
  BY <1>1, <1>2 DEF PageFirst
<1>7. /\ m_messages' = Closed => unseenMessageIds' = {} /\ ~Loading'
      /\ Loading' => unseenMessageIds' = {}
  BY <1>3 DEF PageFirst, Quietly
<1> QED BY <1>4, <1>5, <1>6, <1>7 DEF PageFirst

-----------------------------------------------------------------------------
(* Ids under way are ids of messages that have arrived. *)

Grows == \A c \in Chats : arrived[c] <= arrived'[c]

LEMMA CountFacts ==
  /\ Counts \subseteq Nat
  /\ MaxMessages \in Nat /\ MaxEvents \in Nat /\ 0 \in Counts
BY BoundsAssumption DEF Counts

LEMMA IdsBelow == \A n \in Counts : 1..n \subseteq 1..MaxMessages
BY BoundsAssumption DEF Counts

LEMMA GoodStays ==
  ASSUME ServerTypes, ServerTypes', Grows
  PROVE  /\ \A r \in RequestType : GoodRequest(r, arrived) => GoodRequest(r, arrived')
         /\ \A e \in UpdateType : GoodUpdate(e, arrived) => GoodUpdate(e, arrived')
<1>1. \A c \in Chats : arrived[c] \in Nat /\ arrived'[c] \in Nat /\ arrived[c] <= arrived'[c]
  BY CountFacts DEF ServerTypes, Grows
<1>2. \A c \in Chats : 1..arrived[c] \subseteq 1..arrived'[c]
  BY <1>1
<1>3. ASSUME NEW r \in RequestType, GoodRequest(r, arrived)
      PROVE  GoodRequest(r, arrived')
  <2>1. r.chat \in Chats /\ r.value \in Nat
    BY CountFacts DEF RequestType
  <2> QED BY <1>1, <1>3, <2>1 DEF GoodRequest
<1>4. ASSUME NEW e \in UpdateType, GoodUpdate(e, arrived)
      PROVE  GoodUpdate(e, arrived')
  <2>1. e.chat \in Chats /\ Open \in Chats
    BY ValueTypes, ChatsAssumption
  <2>2. e.kind = "chat" => e.value.last_message \in Nat
    BY ValueTypes, CountFacts DEF RowType
  <2> QED BY <1>1, <1>2, <1>4, <2>1, <2>2 DEF GoodUpdate
<1> QED BY <1>3, <1>4

\* What a step may do to the streams.
Asks == \E rs : /\ Follows(requests', requests, rs)
                /\ \A k \in 1..Len(rs) : GoodRequest(rs[k], arrived')
Sends == \E es : /\ Follows(inbox', inbox, es)
                 /\ \A k \in 1..Len(es) : GoodUpdate(es[k], arrived')

LEMMA GivenKept ==
  ASSUME ServerTypes, StreamTypes, Given, ServerTypes', Grows,
         Asks \/ Rest(requests', requests), Sends \/ Rest(inbox', inbox),
         GoodRows', unseenMessageIds' \subseteq 1..arrived'[Open]
  PROVE  Given'
<1>1. \A i \in 1..Len(requests) : GoodRequest(requests[i], arrived')
  <2> SUFFICES ASSUME NEW i \in 1..Len(requests)
               PROVE  GoodRequest(requests[i], arrived')
    OBVIOUS
  <2>1. requests[i] \in RequestType
    BY ElementOfSeq DEF StreamTypes
  <2> QED BY <2>1, GoodStays DEF Given
<1>2. \A i \in 1..Len(inbox) : GoodUpdate(inbox[i], arrived')
  <2> SUFFICES ASSUME NEW i \in 1..Len(inbox)
               PROVE  GoodUpdate(inbox[i], arrived')
    OBVIOUS
  <2>1. inbox[i] \in UpdateType
    BY ElementOfSeq DEF StreamTypes
  <2> QED BY <2>1, GoodStays DEF Given
<1>3. ASSUME NEW i \in 1..Len(requests')
      PROVE  GoodRequest(requests'[i], arrived')
  <2>1. CASE Asks
    <3>1. PICK rs : /\ Follows(requests', requests, rs)
                    /\ \A k \in 1..Len(rs) : GoodRequest(rs[k], arrived')
      BY <2>1 DEF Asks
    <3>2. \/ i \in 1..Len(requests) /\ requests'[i] = requests[i]
          \/ i - Len(requests) \in 1..Len(rs) /\ requests'[i] = rs[i - Len(requests)]
      BY <3>1, FollowsFrom
    <3> QED BY <1>1, <3>1, <3>2
  <2>2. CASE Rest(requests', requests)
    BY <1>1, <2>2, RestFrom
  <2> QED BY <2>1, <2>2
<1>4. ASSUME NEW i \in 1..Len(inbox')
      PROVE  GoodUpdate(inbox'[i], arrived')
  <2>1. CASE Sends
    <3>1. PICK es : /\ Follows(inbox', inbox, es)
                    /\ \A k \in 1..Len(es) : GoodUpdate(es[k], arrived')
      BY <2>1 DEF Sends
    <3>2. \/ i \in 1..Len(inbox) /\ inbox'[i] = inbox[i]
          \/ i - Len(inbox) \in 1..Len(es) /\ inbox'[i] = es[i - Len(inbox)]
      BY <3>1, FollowsFrom
    <3> QED BY <1>2, <3>1, <3>2
  <2>2. CASE Rest(inbox', inbox)
    BY <1>2, <2>2, RestFrom
  <2> QED BY <2>1, <2>2
<1> QED BY <1>3, <1>4 DEF Given

-----------------------------------------------------------------------------
(* The rows and the sum that was told. *)

Rows == [Chats -> RowType \cup {NoRow}]
Told == ~stale => m_totalUnreadCount = totalUnreadCount(rows)

LEMMA RowFacts ==
  ASSUME ListTypes, NEW c \in Chats
  PROVE  /\ HasRow(c) <=> rows[c] \in RowType
         /\ ~HasRow(c) <=> rows[c] = NoRow
BY RowTypes DEF ListTypes, HasRow

LEMMA CountType ==
  ASSUME NEW chats \in Rows
  PROVE  totalUnreadCount(chats) \in Nat
<1> DEFINE number == [c \in Chats |->
         IF ~chats[c].counted THEN 0
         ELSE chats[c].unread_mention_count
              + IF chats[c].mute_for THEN 0 ELSE chats[c].unread_count]
<1>1. totalUnreadCount(chats) = Sum(number)
  BY DEF totalUnreadCount
<1>2. ASSUME NEW c \in Chats
      PROVE  number[c] \in Nat
  <2>1. CASE chats[c] \in RowType
    <3>1. chats[c].unread_mention_count \in Nat /\ chats[c].unread_count \in Nat
      <4>1. chats[c].unread_mention_count \in 0..1 /\ chats[c].unread_count \in Counts
        BY <2>1 DEF RowType
      <4>2. chats[c].unread_count \in Nat
        BY <4>1, CountFacts
      <4> QED BY <4>1, <4>2
    <3>2. chats[c].counted
      BY <2>1, RowTypes
    <3> QED BY <3>1, <3>2
  <2>2. CASE chats[c] = NoRow
    BY <2>2, RowTypes
  <2> QED BY <2>1, <2>2 DEF Rows
<1>3. number \in [Chats -> Nat]
  BY <1>2
<1> HIDE DEF number
<1> QED BY <1>1, <1>3, SumType

\* Whether the signal is emitted or not, the sum that was told is right or
\* stale.
LEMMA RowsChange ==
  ASSUME ListTypes, Told, NEW chats \in Rows, Tells(chats) \/ KeepsQuiet(chats)
  PROVE  ListTypes' /\ Told' /\ rows' = chats
<1>1. rows' = chats
  BY DEF Tells, KeepsQuiet
<1>2. CASE Tells(chats)
  <2>1. m_totalUnreadCount' = totalUnreadCount(chats) /\ stale' = FALSE
    BY <1>2 DEF Tells
  <2> QED BY <1>1, <2>1, CountType DEF ListTypes, Told, Rows, totalUnreadCount
<1>3. CASE KeepsQuiet(chats)
  <2>1. /\ m_totalUnreadCount' = m_totalUnreadCount
        /\ stale' = (stale \/ totalUnreadCount(chats) # totalUnreadCount(rows))
    BY <1>3 DEF KeepsQuiet
  <2>2. stale' \in BOOLEAN
    BY <2>1 DEF ListTypes
  <2>3. ~stale' => ~stale /\ totalUnreadCount(chats) = totalUnreadCount(rows)
    BY <2>1
  <2>4. totalUnreadCount(rows)' = totalUnreadCount(chats)
    BY <1>1 DEF totalUnreadCount
  <2> QED BY <1>1, <2>1, <2>2, <2>3, <2>4 DEF ListTypes, Told, Rows
<1> QED BY <1>1, <1>2, <1>3

LEMMA RowsStay ==
  ASSUME ListTypes, Told, UNCHANGED list
  PROVE  ListTypes' /\ Told' /\ rows' = rows
BY DEF ListTypes, Told, list, totalUnreadCount

-----------------------------------------------------------------------------
(* What TDLib does keeps the types. *)

Inv == TypeInv /\ Told

\* TDLib sends es, and nothing of the client changes.
LEMMA SendKeeps ==
  ASSUME Inv, ServerTypes', Grows, NEW es \in Seq(UpdateType), inbox' = inbox \o es,
         \A k \in 1..Len(es) : es[k].kind # "messages" /\ GoodUpdate(es[k], arrived'),
         UNCHANGED <<list, openChat, activity, requests>>
  PROVE  Inv' /\ Follows(inbox', inbox, es)
<1> USE DEF Inv, TypeInv, Types
<1>1. inbox' \in Seq(UpdateType) /\ Follows(inbox', inbox, es)
  BY ConcatFollows DEF StreamTypes
<1>2. Follows(requests', requests, <<>>) /\ Len(<<>>) = 0
  BY NothingFollows DEF StreamTypes
<1>3. StreamTypes' /\ ListTypes' /\ Told' /\ PageTypes'
  BY <1>1, RowsStay DEF StreamTypes, PageTypes, openChat, activity
<1>4. Given'
  <2>1. Asks
    BY <1>2 DEF Asks
  <2>2. Sends
    BY <1>1 DEF Sends
  <2>3. \A c \in Chats : arrived[c] \in Nat /\ arrived'[c] \in Nat /\ arrived[c] <= arrived'[c]
    BY CountFacts DEF ServerTypes, Grows
  <2>4. GoodRows'
    <3>1. \A c \in Chats : HasRow(c) => rows[c].last_message \in Nat
      BY RowFacts, CountFacts DEF RowType
    <3> QED BY <2>3, <3>1 DEF Given, GoodRows, HasRow, list
  <2>5. unseenMessageIds' \subseteq 1..arrived'[Open]
    <3>1. 1..arrived[Open] \subseteq 1..arrived'[Open]
      BY <2>3, ChatsAssumption
    <3> QED BY <3>1 DEF Given, openChat
  <2> QED BY <2>1, <2>2, <2>4, <2>5, GivenKept
<1>5. PageFirst'
  <2>1. Quietly
    BY DEF Quietly, openChat
  <2>2. NoneOf("getChatHistory", requests', requests)
    BY <1>2 DEF NoneOf
  <2>3. NoneOf("messages", inbox', inbox)
    BY <1>1 DEF NoneOf
  <2> QED BY <2>1, <2>2, <2>3, PageFirstKept
<1> QED BY <1>1, <1>3, <1>4, <1>5

LEMMA OneUpdate ==
  ASSUME NEW e \in UpdateType
  PROVE  <<e>> \in Seq(UpdateType) /\ Len(<<e>>) = 1 /\ \A k \in 1..Len(<<e>>) : <<e>>[k] = e
OBVIOUS

LEMMA HappensFacts ==
  ASSUME ServerTypes, Happens
  PROVE  events' \in 0..MaxEvents
BY CountFacts DEF ServerTypes, Happens

LEMMA MessageArrivesKeeps ==
  ASSUME Inv, NEW c \in Chats, MessageArrives(c)
  PROVE  Inv'
<1> USE DEF Inv, TypeInv, Types
<1> DEFINE es == <<Update("newMessage", c, arrived[c] + 1), Update("readInbox", c, Unread(c) + 1),
                   Update("lastMessage", c, arrived[c] + 1)>>
<1>1. /\ arrived[c] \in Counts /\ read[c] \in Counts /\ read[c] <= arrived[c]
      /\ arrived[c] + 1 \in Counts /\ Unread(c) + 1 \in Counts
  BY BoundsAssumption DEF ServerTypes, MessageArrives, Unread, Counts
<1>2. ServerTypes' /\ Grows /\ arrived'[c] = arrived[c] + 1
  <2>1. arrived' = [arrived EXCEPT ![c] = arrived[c] + 1] /\ events' \in 0..MaxEvents
    BY HappensFacts DEF MessageArrives
  <2>2. \A d \in Chats : arrived'[d] = IF d = c THEN arrived[c] + 1 ELSE arrived[d]
    BY <2>1 DEF ServerTypes
  <2>3. \A d \in Chats : arrived[d] \in Nat /\ read[d] \in Nat
    BY CountFacts DEF ServerTypes
  <2> QED BY <1>1, <2>1, <2>2, <2>3 DEF ServerTypes, MessageArrives, Grows
<1>3. es \in Seq(UpdateType)
  <2>1. /\ Update("newMessage", c, arrived[c] + 1) \in UpdateType
        /\ Update("readInbox", c, Unread(c) + 1) \in UpdateType
        /\ Update("lastMessage", c, arrived[c] + 1) \in UpdateType
    BY <1>1, UpdateTypes
  <2> QED BY <2>1
<1>4. \A k \in 1..Len(es) : es[k].kind # "messages" /\ GoodUpdate(es[k], arrived')
  <2>1. Len(es) = 3
    OBVIOUS
  <2>2. arrived[c] + 1 \in 1..arrived'[c]
    <3>1. arrived[c] \in Nat
      BY <1>1, CountFacts
    <3> QED BY <1>2, <3>1
  <2>3. /\ es[1].kind # "messages" /\ GoodUpdate(es[1], arrived')
        /\ es[2].kind # "messages" /\ GoodUpdate(es[2], arrived')
        /\ es[3].kind # "messages" /\ GoodUpdate(es[3], arrived')
    BY <2>2 DEF Update, GoodUpdate
  <2> HIDE DEF es
  <2> QED BY <2>1, <2>3
<1>5. inbox' = inbox \o es /\ UNCHANGED <<list, openChat, activity, requests>>
  BY DEF MessageArrives, Push
<1> HIDE DEF es
<1> QED BY <1>2, <1>3, <1>4, <1>5, SendKeeps

\* The other updates of TDLib are sent one by one.
LEMMA SendOneKeeps ==
  ASSUME Inv, ServerTypes', UNCHANGED <<arrived, list, openChat, activity, requests>>,
         NEW e \in UpdateType, inbox' = inbox \o <<e>>, e.kind # "messages", GoodUpdate(e, arrived)
  PROVE  Inv' /\ Follows(inbox', inbox, <<e>>)
<1>1. Grows
  <2>1. \A c \in Chats : arrived[c] \in Nat
    BY CountFacts DEF ServerTypes, Inv, TypeInv, Types
  <2> QED BY <2>1 DEF Grows
<1>2. /\ <<e>> \in Seq(UpdateType)
      /\ \A k \in 1..Len(<<e>>) : <<e>>[k].kind # "messages" /\ GoodUpdate(<<e>>[k], arrived')
  BY OneUpdate
<1> QED BY <1>1, <1>2, SendKeeps

LEMMA ReadElsewhereKeeps ==
  ASSUME Inv, NEW c \in Chats, ReadElsewhere(c)
  PROVE  Inv'
<1>1. ServerTypes'
  <2>1. /\ ServerTypes /\ arrived[c] \in Counts /\ arrived[c] \in Nat /\ events' \in 0..MaxEvents
        /\ read' = [read EXCEPT ![c] = arrived[c]]
    BY HappensFacts, CountFacts DEF Inv, TypeInv, Types, ServerTypes, ReadElsewhere
  <2>2. read' \in [Chats -> Counts]
    BY <2>1 DEF ServerTypes
  <2>3. \A d \in Chats : read'[d] <= arrived[d]
    BY <2>1 DEF ServerTypes
  <2> QED BY <2>1, <2>2, <2>3 DEF ServerTypes, ReadElsewhere
<1>2. inbox' = inbox \o <<Update("readInbox", c, 0)>>
  BY DEF ReadElsewhere, Push
<1>3. Update("readInbox", c, 0) \in UpdateType
  BY UpdateTypes, CountFacts
<1>4. /\ Update("readInbox", c, 0).kind # "messages"
      /\ GoodUpdate(Update("readInbox", c, 0), arrived)
  BY DEF GoodUpdate, Update
<1> QED BY <1>1, <1>2, <1>3, <1>4, SendOneKeeps DEF ReadElsewhere

LEMMA MentionsChangeKeeps ==
  ASSUME Inv, NEW c \in Chats, MentionsChange(c)
  PROVE  Inv'
<1>1. 1 - mentions[c] \in 0..1
  BY DEF Inv, TypeInv, Types, ServerTypes
<1>2. ServerTypes'
  BY <1>1, HappensFacts DEF Inv, TypeInv, Types, ServerTypes, MentionsChange
<1>3. inbox' = inbox \o <<Update("mentions", c, 1 - mentions[c])>>
  BY DEF MentionsChange, Push
<1>4. Update("mentions", c, 1 - mentions[c]) \in UpdateType
  BY <1>1, UpdateTypes
<1>5. /\ Update("mentions", c, 1 - mentions[c]).kind # "messages"
      /\ GoodUpdate(Update("mentions", c, 1 - mentions[c]), arrived)
  BY DEF GoodUpdate, Update
<1> QED BY <1>2, <1>3, <1>4, <1>5, SendOneKeeps DEF MentionsChange

LEMMA MuteChangesKeeps ==
  ASSUME Inv, NEW c \in Chats, MuteChanges(c)
  PROVE  Inv'
<1>1. ServerTypes'
  BY HappensFacts DEF Inv, TypeInv, Types, ServerTypes, MuteChanges
<1>2. inbox' = inbox \o <<Update("settings", c, ~muted[c])>>
  BY DEF MuteChanges, Push
<1>3. Update("settings", c, ~muted[c]) \in UpdateType
  BY UpdateTypes
<1>4. /\ Update("settings", c, ~muted[c]).kind # "messages"
      /\ GoodUpdate(Update("settings", c, ~muted[c]), arrived)
  BY DEF GoodUpdate, Update
<1> QED BY <1>1, <1>2, <1>3, <1>4, SendOneKeeps DEF MuteChanges

LEMMA ListChangesKeeps ==
  ASSUME Inv, NEW c \in Chats, ListChanges(c)
  PROVE  Inv'
<1>1. ServerTypes'
  BY HappensFacts DEF Inv, TypeInv, Types, ServerTypes, ListChanges
<1>2. inbox' = inbox \o <<Update("order", c, ~listed[c])>>
  BY DEF ListChanges, Push
<1>3. Update("order", c, ~listed[c]) \in UpdateType
  BY UpdateTypes
<1>4. /\ Update("order", c, ~listed[c]).kind # "messages"
      /\ GoodUpdate(Update("order", c, ~listed[c]), arrived)
  BY DEF GoodUpdate, Update
<1> QED BY <1>1, <1>2, <1>3, <1>4, SendOneKeeps DEF ListChanges

-----------------------------------------------------------------------------
(* The handlers of ChatsModel keep the types. *)

\* Nothing is asked, or something other than the page.
AsksQuietly ==
  /\ requests' \in Seq(RequestType)
  /\ \E rs : /\ Follows(requests', requests, rs)
             /\ \A k \in 1..Len(rs) :
                  rs[k].kind # "getChatHistory" /\ GoodRequest(rs[k], arrived')

LEMMA AskNothing ==
  ASSUME StreamTypes, UNCHANGED requests
  PROVE  AsksQuietly
<1>1. Follows(requests', requests, <<>>) /\ Len(<<>>) = 0
  BY NothingFollows DEF StreamTypes
<1>2. \A k \in 1..Len(<<>>) :
        <<>>[k].kind # "getChatHistory" /\ GoodRequest(<<>>[k], arrived')
  BY <1>1
<1> QED BY <1>1, <1>2 DEF AsksQuietly, StreamTypes

LEMMA AskOne ==
  ASSUME StreamTypes, NEW r \in RequestType, requests' = Append(requests, r),
         r.kind # "getChatHistory", GoodRequest(r, arrived')
  PROVE  AsksQuietly
<1>1. requests' \in Seq(RequestType) /\ Follows(requests', requests, <<r>>)
  BY AppendFollows DEF StreamTypes
<1>2. Len(<<r>>) = 1 /\ \A k \in 1..Len(<<r>>) : <<r>>[k] = r
  OBVIOUS
<1>3. \A k \in 1..Len(<<r>>) :
        <<r>>[k].kind # "getChatHistory" /\ GoodRequest(<<r>>[k], arrived')
  BY <1>2
<1> QED BY <1>1, <1>3 DEF AsksQuietly

\* A handler takes one update and changes nothing of TDLib.
LEMMA HandlerTypes ==
  ASSUME Inv, NEW kind, Consume(kind), AsksQuietly,
         ListTypes', Told', GoodRows', PageTypes', unseenMessageIds' \subseteq 1..arrived'[Open]
  PROVE  Types' /\ Given' /\ Told'
<1> USE DEF Inv, TypeInv, Types
<1>1. inbox' \in Seq(UpdateType) /\ Rest(inbox', inbox)
  BY ConsumeTakes
<1>2. UNCHANGED <<arrived, read, mentions, muted, listed, events>>
  BY DEF Consume, tdlib
<1>3. ServerTypes' /\ Grows
  <2>1. \A c \in Chats : arrived[c] \in Nat
    BY CountFacts DEF ServerTypes
  <2> QED BY <1>2, <2>1 DEF ServerTypes, Grows
<1>4. Asks
  BY DEF AsksQuietly, Asks
<1>5. StreamTypes'
  BY <1>1 DEF StreamTypes, AsksQuietly
<1>6. Given'
  BY <1>1, <1>3, <1>4, GivenKept
<1> QED BY <1>3, <1>5, <1>6

LEMMA HandlerKeeps ==
  ASSUME Inv, NEW kind, Consume(kind), AsksQuietly,
         ListTypes', Told', GoodRows', PageTypes', Quietly,
         unseenMessageIds' \subseteq 1..arrived'[Open]
  PROVE  Inv'
<1>1. Types' /\ Given' /\ Told'
  BY HandlerTypes
<1>2. NoneOf("messages", inbox', inbox)
  BY ConsumeTakes DEF Inv, TypeInv, NoneOf
<1>3. NoneOf("getChatHistory", requests', requests)
  BY DEF AsksQuietly, NoneOf
<1>4. PageFirst'
  BY <1>2, <1>3, PageFirstKept DEF Inv, TypeInv
<1> QED BY <1>1, <1>4 DEF Inv, TypeInv

LEMMA ListHandlerKeeps ==
  ASSUME Inv, NEW kind, Consume(kind), AsksQuietly,
         ListTypes', Told', GoodRows', UNCHANGED openChat
  PROVE  Inv'
<1>1. PageTypes' /\ Quietly /\ unseenMessageIds' \subseteq 1..arrived'[Open]
  BY DEF Inv, TypeInv, Types, Given, PageTypes, Quietly, Consume, openChat, activity, tdlib
<1> QED BY <1>1, HandlerKeeps

\* One row changes.
LEMMA RowChange ==
  ASSUME Inv, NEW c \in Chats, NEW row \in RowType \cup {NoRow},
         row \in RowType => row.last_message <= arrived[c],
         Tells([rows EXCEPT ![c] = row]) \/ KeepsQuiet([rows EXCEPT ![c] = row]),
         arrived' = arrived
  PROVE  ListTypes' /\ Told' /\ GoodRows' /\ rows' = [rows EXCEPT ![c] = row]
<1>1. [rows EXCEPT ![c] = row] \in Rows
  BY DEF Inv, TypeInv, Types, ListTypes, Rows
<1>2. ListTypes' /\ Told' /\ rows' = [rows EXCEPT ![c] = row]
  BY <1>1, RowsChange DEF Inv, TypeInv, Types
<1>3. GoodRows'
  <2> SUFFICES ASSUME NEW d \in Chats, rows'[d].counted
               PROVE  rows'[d].last_message <= arrived[d]
    BY DEF GoodRows, HasRow
  <2>1. CASE d = c
    <3>1. rows'[d] = row
      BY <1>2, <2>1 DEF Inv, TypeInv, Types, ListTypes
    <3>2. row \in RowType
      BY <3>1, RowTypes
    <3> QED BY <2>1, <3>1, <3>2
  <2>2. CASE d # c
    <3>1. rows'[d] = rows[d]
      BY <1>2, <2>2 DEF Inv, TypeInv, Types, ListTypes
    <3> QED BY <3>1 DEF Inv, TypeInv, Given, GoodRows, HasRow
  <2> QED BY <2>1, <2>2
<1> QED BY <1>2, <1>3

LEMMA RowsKept ==
  ASSUME Inv, UNCHANGED list, arrived' = arrived
  PROVE  ListTypes' /\ Told' /\ GoodRows' /\ rows' = rows
BY RowsStay DEF Inv, TypeInv, Types, Given, GoodRows, HasRow

\* What a handler may use of the update it takes.
LEMMA Takes ==
  ASSUME Inv, NEW kind, Consume(kind)
  PROVE  /\ Received \in UpdateType /\ Received.kind = kind /\ Received.chat \in Chats
         /\ GoodUpdate(Received, arrived)
         /\ UNCHANGED <<arrived, read, mentions, muted, listed, events>>
         /\ UNCHANGED <<pageActive, appActive>>
<1>1. /\ Received = inbox[1] /\ inbox[1] \in UpdateType /\ inbox[1].kind = kind
      /\ 1 \in 1..Len(inbox)
  BY ConsumeTakes DEF Inv, TypeInv
<1>2. GoodUpdate(inbox[1], arrived)
  BY <1>1 DEF Inv, TypeInv, Given
<1>3. inbox[1].chat \in Chats
  BY <1>1, ValueTypes
<1> QED BY <1>1, <1>2, <1>3 DEF Consume, tdlib, activity

LEMMA RowGiven ==
  ASSUME Inv, NEW c \in Chats, HasRow(c)
  PROVE  rows[c] \in RowType /\ rows[c].last_message <= arrived[c]
BY RowFacts DEF Inv, TypeInv, Types, Given, GoodRows

LEMMA updateChatMentionCountKeeps ==
  ASSUME Inv, updateChatMentionCount
  PROVE  Inv'
<1> DEFINE c == Received.chat
           row == [rows[c] EXCEPT !.unread_mention_count = Received.value]
<1>1. Consume("mentions") /\ requests' = requests /\ UNCHANGED openChat
  BY DEF updateChatMentionCount
<1>2. c \in Chats /\ Received.value \in 0..1 /\ arrived' = arrived
  BY <1>1, Takes, ValueTypes
<1>3. ListTypes' /\ Told' /\ GoodRows'
  <2>1. CASE HasRow(c)
    <3>1. row \in RowType /\ row.last_message <= arrived[c]
      <4>1. rows[c] \in RowType /\ rows[c].last_message <= arrived[c]
        BY <1>2, <2>1, RowGiven
      <4>2. row \in RowType /\ row.last_message = rows[c].last_message
        BY <1>2, <4>1 DEF RowType
      <4> QED BY <1>2, <4>1, <4>2
    <3>2. Tells([rows EXCEPT ![c] = row])
      BY <2>1 DEF updateChatMentionCount
    <3> HIDE DEF row, c
    <3> QED BY <1>2, <3>1, <3>2, RowChange
  <2>2. CASE ~HasRow(c)
    BY <1>2, <2>2, RowsKept DEF updateChatMentionCount
  <2> QED BY <2>1, <2>2
<1>4. AsksQuietly
  BY <1>1, AskNothing DEF Inv, TypeInv, Types
<1> QED BY <1>1, <1>3, <1>4, ListHandlerKeeps

LEMMA updateChatNotificationSettingsKeeps ==
  ASSUME Inv, updateChatNotificationSettings
  PROVE  Inv'
<1> DEFINE c == Received.chat
           row == [rows[c] EXCEPT !.mute_for = Received.value]
<1>1. Consume("settings") /\ requests' = requests /\ UNCHANGED openChat
  BY DEF updateChatNotificationSettings
<1>2. c \in Chats /\ Received.value \in BOOLEAN /\ arrived' = arrived
  BY <1>1, Takes, ValueTypes
<1>3. ListTypes' /\ Told' /\ GoodRows'
  <2>1. CASE HasRow(c)
    <3>1. row \in RowType /\ row.last_message <= arrived[c]
      <4>1. rows[c] \in RowType /\ rows[c].last_message <= arrived[c]
        BY <1>2, <2>1, RowGiven
      <4>2. row \in RowType /\ row.last_message = rows[c].last_message
        BY <1>2, <4>1 DEF RowType
      <4> QED BY <1>2, <4>1, <4>2
    <3>2. KeepsQuiet([rows EXCEPT ![c] = row])
      BY <2>1 DEF updateChatNotificationSettings
    <3> HIDE DEF row, c
    <3> QED BY <1>2, <3>1, <3>2, RowChange
  <2>2. CASE ~HasRow(c)
    BY <1>2, <2>2, RowsKept DEF updateChatNotificationSettings
  <2> QED BY <2>1, <2>2
<1>4. AsksQuietly
  BY <1>1, AskNothing DEF Inv, TypeInv, Types
<1> QED BY <1>1, <1>3, <1>4, ListHandlerKeeps

LEMMA updateChatReadInboxKeeps ==
  ASSUME Inv, updateChatReadInbox
  PROVE  Inv'
<1> DEFINE c == Received.chat
           row == [rows[c] EXCEPT !.unread_count = Received.value]
<1>1. Consume("readInbox") /\ requests' = requests /\ UNCHANGED openChat
  BY DEF updateChatReadInbox
<1>2. c \in Chats /\ Received.value \in Counts /\ arrived' = arrived
  BY <1>1, Takes, ValueTypes
<1>3. ListTypes' /\ Told' /\ GoodRows'
  <2>1. CASE HasRow(c)
    <3>1. row \in RowType /\ row.last_message <= arrived[c]
      <4>1. rows[c] \in RowType /\ rows[c].last_message <= arrived[c]
        BY <1>2, <2>1, RowGiven
      <4>2. row \in RowType /\ row.last_message = rows[c].last_message
        BY <1>2, <4>1 DEF RowType
      <4> QED BY <1>2, <4>1, <4>2
    <3>2. Tells([rows EXCEPT ![c] = row]) \/ KeepsQuiet([rows EXCEPT ![c] = row])
      BY <2>1 DEF updateChatReadInbox
    <3> HIDE DEF row, c
    <3> QED BY <1>2, <3>1, <3>2, RowChange
  <2>2. CASE ~HasRow(c)
    BY <1>2, <2>2, RowsKept DEF updateChatReadInbox
  <2> QED BY <2>1, <2>2
<1>4. AsksQuietly
  BY <1>1, AskNothing DEF Inv, TypeInv, Types
<1> QED BY <1>1, <1>3, <1>4, ListHandlerKeeps

LEMMA GetChatAsks ==
  ASSUME Inv, NEW c \in Chats, getChat(c)
  PROVE  AsksQuietly
<1>1. Request("getChat", c, 0) \in RequestType
  BY RequestTypes, CountFacts
<1>2. /\ Request("getChat", c, 0).kind # "getChatHistory"
      /\ GoodRequest(Request("getChat", c, 0), arrived')
  BY DEF Request, GoodRequest
<1> QED BY <1>1, <1>2, AskOne DEF getChat, Inv, TypeInv, Types

LEMMA updateChatLastMessageKeeps ==
  ASSUME Inv, updateChatLastMessage
  PROVE  Inv'
<1> DEFINE c == Received.chat
           row == [rows[c] EXCEPT !.last_message = Received.value]
<1>1. Consume("lastMessage") /\ UNCHANGED openChat
  BY DEF updateChatLastMessage
<1>2. c \in Chats /\ Received.value \in Counts /\ arrived' = arrived /\ Received.value <= arrived[c]
  <2>1. /\ Received \in UpdateType /\ Received.kind = "lastMessage" /\ c \in Chats
        /\ GoodUpdate(Received, arrived) /\ arrived' = arrived
    BY <1>1, Takes
  <2>2. Received.value \in 1..arrived[c]
    BY <2>1 DEF GoodUpdate
  <2>3. arrived[c] \in Nat
    BY <2>1, CountFacts DEF Inv, TypeInv, Types, ServerTypes
  <2> QED BY <2>1, <2>2, <2>3, ValueTypes
<1>3. CASE HasRow(c)
  <2>1. row \in RowType /\ row.last_message <= arrived[c]
    <3>1. rows[c] \in RowType /\ rows[c].last_message <= arrived[c]
      BY <1>2, <1>3, RowGiven
    <3>2. row \in RowType /\ row.last_message = Received.value
      BY <1>2, <3>1 DEF RowType
    <3> QED BY <1>2, <3>1, <3>2
  <2>2. KeepsQuiet([rows EXCEPT ![c] = row]) /\ requests' = requests
    BY <1>3 DEF updateChatLastMessage
  <2>3. AsksQuietly
    BY <2>2, AskNothing DEF Inv, TypeInv, Types
  <2> HIDE DEF row, c
  <2>4. ListTypes' /\ Told' /\ GoodRows'
    BY <1>2, <2>1, <2>2, RowChange
  <2> QED BY <1>1, <2>3, <2>4, ListHandlerKeeps
<1>4. CASE ~HasRow(c)
  <2>1. getChat(c) /\ UNCHANGED list
    BY <1>4 DEF updateChatLastMessage
  <2> HIDE DEF c
  <2> QED BY <1>1, <1>2, <2>1, GetChatAsks, RowsKept, ListHandlerKeeps
<1> QED BY <1>3, <1>4

LEMMA updateChatOrderKeeps ==
  ASSUME Inv, updateChatOrder
  PROVE  Inv'
<1> DEFINE c == Received.chat
<1>1. Consume("order") /\ UNCHANGED openChat
  BY DEF updateChatOrder
<1>2. c \in Chats /\ arrived' = arrived
  BY <1>1, Takes
<1>3. CASE getChat(c) /\ UNCHANGED list
  <2> HIDE DEF c
  <2> QED BY <1>1, <1>2, <1>3, GetChatAsks, RowsKept, ListHandlerKeeps
<1>4. CASE KeepsQuiet([rows EXCEPT ![c] = NoRow]) /\ UNCHANGED requests
  <2>1. NoRow \notin RowType
    BY RowTypes
  <2>2. AsksQuietly
    BY <1>4, AskNothing DEF Inv, TypeInv, Types
  <2> HIDE DEF c
  <2>3. ListTypes' /\ Told' /\ GoodRows'
    BY <1>2, <1>4, <2>1, RowChange
  <2> QED BY <1>1, <2>2, <2>3, ListHandlerKeeps
<1>5. CASE UNCHANGED <<requests, list>>
  <2>1. AsksQuietly
    BY <1>5, AskNothing DEF Inv, TypeInv, Types
  <2>2. ListTypes' /\ Told' /\ GoodRows'
    BY <1>2, <1>5, RowsKept
  <2> QED BY <1>1, <2>1, <2>2, ListHandlerKeeps
<1> QED BY <1>3, <1>4, <1>5 DEF updateChatOrder

LEMMA addChatKeeps ==
  ASSUME Inv, addChat
  PROVE  Inv'
<1> DEFINE c == Received.chat
<1>1. Consume("chat") /\ UNCHANGED openChat /\ requests' = requests
  BY DEF addChat
<1>2. /\ c \in Chats /\ arrived' = arrived /\ Received.value \in RowType
      /\ Received.value.last_message <= arrived[c]
  <2>1. /\ Received \in UpdateType /\ Received.kind = "chat" /\ c \in Chats
        /\ GoodUpdate(Received, arrived) /\ arrived' = arrived
    BY <1>1, Takes
  <2> QED BY <2>1, ValueTypes DEF GoodUpdate
<1>3. UNCHANGED list \/ KeepsQuiet([rows EXCEPT ![c] = Received.value])
  BY DEF addChat
<1> HIDE DEF c
<1>4. ListTypes' /\ Told' /\ GoodRows'
  BY <1>2, <1>3, RowsKept, RowChange
<1>5. AsksQuietly
  BY <1>1, AskNothing DEF Inv, TypeInv, Types
<1> QED BY <1>1, <1>4, <1>5, ListHandlerKeeps

LEMMA addChatsAsks ==
  ASSUME Inv, addChats
  PROVE  /\ \A c \in Received.value : \E i \in 1..Len(requests') :
              requests'[i].kind = "getChat" /\ requests'[i].chat = c
         /\ AsksQuietly
<1> DEFINE ids == SetToSeq(Received.value)
           rs == [i \in 1..Len(ids) |-> Request("getChat", ids[i], 0)]
<1>1. Received.value \in SUBSET Chats
  <2>1. Received \in UpdateType /\ Received.kind = "chats"
    BY Takes DEF addChats
  <2> QED BY <2>1, ValueTypes
<1>2. requests' = requests \o rs
  BY DEF addChats
<1>3. /\ ids \in Seq(Received.value)
      /\ \A c \in Received.value : \E i \in 1..Len(ids) : ids[i] = c
  <2>1. IsFiniteSet(Received.value)
    BY <1>1, ChatsAssumption, FS_Subset
  <2> QED BY <2>1, SetToSeqProperties
<1> HIDE DEF ids
<1>4. Len(ids) \in Nat /\ \A i \in 1..Len(ids) : ids[i] \in Chats
  <2>1. Len(ids) \in Nat /\ \A i \in 1..Len(ids) : ids[i] \in Received.value
    BY <1>3, LenProperties, ElementOfSeq
  <2> QED BY <1>1, <2>1
<1>5. \A i \in 1..Len(ids) : Request("getChat", ids[i], 0) \in RequestType
  BY <1>4, RequestTypes, CountFacts
<1>6. rs \in Seq(RequestType) /\ Len(rs) = Len(ids)
  BY <1>4, <1>5
<1>7. requests' \in Seq(RequestType) /\ Follows(requests', requests, rs)
  BY <1>2, <1>6, ConcatFollows DEF Inv, TypeInv, Types, StreamTypes
<1>8. \A k \in 1..Len(rs) : /\ rs[k].kind = "getChat" /\ rs[k].chat = ids[k]
                            /\ GoodRequest(rs[k], arrived')
  BY <1>6 DEF Request, GoodRequest
<1> HIDE DEF rs
<1>9. AsksQuietly
  BY <1>7, <1>8 DEF AsksQuietly
<1>10. ASSUME NEW c \in Received.value
       PROVE  \E i \in 1..Len(requests') : requests'[i].kind = "getChat" /\ requests'[i].chat = c
  <2>1. PICK i \in 1..Len(ids) : ids[i] = c
    BY <1>3
  <2>2. /\ Len(requests) + i \in 1..Len(requests')
        /\ requests'[Len(requests) + i] = rs[i]
    BY <1>6, <1>7 DEF Follows
  <2> QED BY <1>6, <1>8, <2>1, <2>2
<1> QED BY <1>9, <1>10

LEMMA addChatsKeeps ==
  ASSUME Inv, addChats
  PROVE  Inv'
<1>1. Consume("chats") /\ UNCHANGED <<list, openChat>>
  BY DEF addChats
<1>2. ListTypes' /\ Told' /\ GoodRows'
  BY <1>1, Takes, RowsKept
<1> QED BY <1>1, <1>2, addChatsAsks, ListHandlerKeeps

-----------------------------------------------------------------------------
(* The handlers of MessagingModel and what the user does keep the types. *)

LEMMA ViewAsks ==
  ASSUME Inv, NEW ids, ids \subseteq 1..arrived[Open], arrived' = arrived, NEW active,
         viewMessages(ids, active)
  PROVE  AsksQuietly
<1>1. arrived[Open] \in Counts /\ arrived[Open] \in Nat
  BY ChatsAssumption, CountFacts DEF Inv, TypeInv, Types, ServerTypes
<1>2. CASE active /\ ids # {}
  <2>1. Highest(ids) \in 1..arrived[Open]
    BY <1>1, <1>2, HighestFacts
  <2>2. Highest(ids) \in Counts /\ Highest(ids) <= arrived[Open]
    BY <1>1, <2>1, CountFacts DEF Counts
  <2>3. Request("viewMessages", Open, Highest(ids)) \in RequestType
    BY <2>2, RequestTypes, ChatsAssumption
  <2>4. /\ Request("viewMessages", Open, Highest(ids)).kind # "getChatHistory"
        /\ GoodRequest(Request("viewMessages", Open, Highest(ids)), arrived')
    BY <2>2 DEF Request, GoodRequest
  <2>5. requests' = Append(requests, Request("viewMessages", Open, Highest(ids)))
    BY <1>2 DEF viewMessages
  <2> QED BY <2>3, <2>4, <2>5, AskOne DEF Inv, TypeInv, Types
<1>3. CASE ~(active /\ ids # {})
  BY <1>3, AskNothing DEF viewMessages, Inv, TypeInv, Types
<1> QED BY <1>2, <1>3

LEMMA addMessagesKeeps ==
  ASSUME Inv, addMessages
  PROVE  Inv'
<1>1. /\ Consume("messages") /\ m_messages' = Received.value
      /\ viewMessages(Received.value, appActive) /\ UNCHANGED list
      /\ unviewed' = unviewed \cup IF appActive THEN {} ELSE Received.value
      /\ unseenMessageIds' = unseenMessageIds
  BY DEF addMessages
<1>2. /\ Received \in UpdateType /\ Received.kind = "messages"
      /\ Received.value \subseteq 1..arrived[Open] /\ arrived' = arrived
      /\ pageActive' = pageActive /\ appActive' = appActive
  BY <1>1, Takes DEF GoodUpdate
<1>3. Received.value \subseteq 1..MaxMessages
  BY <1>2, ValueTypes
<1>4. 1 \in 1..Len(inbox) /\ Loaded(1)
  BY <1>1, ConsumeTakes DEF Inv, TypeInv, Loaded
<1>5. unseenMessageIds = {}
  BY <1>4 DEF Inv, TypeInv, PageFirst, Loading
<1>6. AsksQuietly
  BY <1>1, <1>2, ViewAsks
<1>7. ListTypes' /\ Told' /\ GoodRows'
  BY <1>1, <1>2, RowsKept
<1>8. PageTypes'
  BY <1>1, <1>2, <1>3, <1>5 DEF PageTypes, Inv, TypeInv, Types
<1>9. Types' /\ Given' /\ Told'
  BY <1>1, <1>5, <1>6, <1>7, <1>8, HandlerTypes
<1>10. PageFirst'
  <2>1. \A i \in 1..Len(inbox') : ~Loaded(i)'
    <3> SUFFICES ASSUME NEW i \in 1..Len(inbox'), Loaded(i)'
                 PROVE  FALSE
      OBVIOUS
    <3>1. i + 1 \in 1..Len(inbox) /\ Loaded(i + 1)
      BY <1>1, ConsumeTakes, RestFrom DEF Inv, TypeInv, Loaded
    <3>2. i + 1 = 1
      BY <1>4, <3>1 DEF Inv, TypeInv, PageFirst
    <3> QED BY <3>2
  <2>2. \A i \in 1..Len(requests) : ~Loads(i)
    BY <1>4 DEF Inv, TypeInv, PageFirst
  <2>3. \A i \in 1..Len(requests') : ~Loads(i)'
    <3>1. NoneOf("getChatHistory", requests', requests)
      BY <1>6 DEF AsksQuietly, NoneOf
    <3>2. PICK d \in 0..1 : \A i \in 1..Len(requests') :
            requests'[i].kind = "getChatHistory" =>
              i + d \in 1..Len(requests) /\ requests[i + d].kind = "getChatHistory"
      BY <3>1, KindWasThere
    <3> QED BY <2>2, <3>2 DEF Loads
  <2> QED BY <1>1, <1>5, <2>1, <2>3 DEF PageFirst, Loading
<1> QED BY <1>9, <1>10 DEF Inv, TypeInv

LEMMA addMessageFromUpdateKeeps ==
  ASSUME Inv, addMessageFromUpdate
  PROVE  Inv'
<1> DEFINE id == Received.value
<1>1. Consume("newMessage") /\ UNCHANGED <<list, unviewed>>
  BY DEF addMessageFromUpdate
<1>2. /\ Received \in UpdateType /\ id \in 1..arrived[Received.chat] /\ Received.kind = "newMessage"
      /\ Received.chat \in Chats
      /\ arrived' = arrived /\ pageActive' = pageActive /\ appActive' = appActive
  BY <1>1, Takes DEF GoodUpdate
<1>3. ListTypes' /\ Told' /\ GoodRows'
  BY <1>1, <1>2, RowsKept
<1>4. CASE Listening(Received.chat)
  <2>1. /\ m_messages' = m_messages \cup {id}
        /\ viewMessages({id}, isActive)
        /\ unseenMessageIds' = unseenMessageIds \cup IF isActive THEN {} ELSE {id}
    BY <1>4 DEF addMessageFromUpdate
  <2>2. Received.chat = Open /\ m_messages # Closed /\ ~Loading
    BY <1>4 DEF Listening, Loading, Loads, Loaded
  <2>3. {id} \subseteq 1..arrived[Open]
    BY <1>2, <2>2
  <2>4. id \in 1..MaxMessages /\ id # 0
    <3>1. arrived[Open] \in Counts
      BY ChatsAssumption DEF Inv, TypeInv, Types, ServerTypes
    <3> QED BY <2>3, <3>1, IdsBelow
  <2>5. AsksQuietly
    BY <1>2, <2>1, <2>3, ViewAsks
  <2>6. PageTypes' /\ m_messages' # Closed
    <3>1. m_messages \subseteq 1..MaxMessages
      BY <2>2 DEF Inv, TypeInv, Types, PageTypes
    <3>2. m_messages' \subseteq 1..MaxMessages
      BY <2>1, <2>4, <3>1
    <3>3. m_messages' # Closed
      BY <2>1, <2>4 DEF Closed
    <3>4. unseenMessageIds' \subseteq m_messages'
      BY <2>1 DEF Inv, TypeInv, Types, PageTypes
    <3> QED BY <1>1, <1>2, <3>2, <3>3, <3>4 DEF Inv, TypeInv, Types, PageTypes
  <2>7. unseenMessageIds' \subseteq 1..arrived'[Open]
    BY <1>2, <2>1, <2>3 DEF Inv, TypeInv, Given
  <2>8. Quietly
    BY <2>2, <2>6 DEF Quietly
  <2> QED BY <1>1, <1>3, <2>5, <2>6, <2>7, <2>8, HandlerKeeps
<1>5. CASE ~Listening(Received.chat)
  <2>1. UNCHANGED <<m_messages, requests, unseenMessageIds>>
    BY <1>5 DEF addMessageFromUpdate
  <2>2. UNCHANGED openChat
    BY <1>1, <2>1 DEF openChat
  <2>3. AsksQuietly
    BY <2>1, AskNothing DEF Inv, TypeInv, Types
  <2> QED BY <1>1, <1>3, <2>2, <2>3, ListHandlerKeeps
<1> QED BY <1>4, <1>5

\* The user changes nothing of TDLib, and takes no update.
LEMMA UserTypes ==
  ASSUME Inv, Happens, UNCHANGED <<tdlib, inbox>>, requests' \in Seq(RequestType), Asks,
         ListTypes', Told', GoodRows', PageTypes', unseenMessageIds' \subseteq 1..arrived'[Open]
  PROVE  Types' /\ Given' /\ Told'
<1> USE DEF Inv, TypeInv, Types
<1>1. ServerTypes' /\ Grows
  <2>1. \A c \in Chats : arrived[c] \in Nat
    BY CountFacts DEF ServerTypes
  <2>2. events' \in 0..MaxEvents
    BY HappensFacts
  <2> QED BY <2>1, <2>2 DEF ServerTypes, Grows, tdlib
<1>2. StreamTypes' /\ Follows(inbox', inbox, <<>>) /\ Len(<<>>) = 0
  BY NothingFollows DEF StreamTypes
<1>3. Sends
  BY <1>2 DEF Sends
<1> QED BY <1>1, <1>2, <1>3, GivenKept

LEMMA UserKeeps ==
  ASSUME Inv, Happens, UNCHANGED <<tdlib, inbox>>, AsksQuietly,
         ListTypes', Told', GoodRows', PageTypes', Quietly,
         unseenMessageIds' \subseteq 1..arrived'[Open]
  PROVE  Inv'
<1>1. Asks /\ requests' \in Seq(RequestType)
  BY DEF AsksQuietly, Asks
<1>2. Types' /\ Given' /\ Told'
  BY <1>1, UserTypes
<1>3. NoneOf("getChatHistory", requests', requests)
  BY DEF AsksQuietly, NoneOf
<1>4. NoneOf("messages", inbox', inbox)
  BY NothingFollows DEF Inv, TypeInv, Types, StreamTypes, NoneOf
<1>5. PageFirst'
  BY <1>3, <1>4, PageFirstKept DEF Inv, TypeInv
<1> QED BY <1>2, <1>5 DEF Inv, TypeInv

LEMMA GetChatsAsks ==
  ASSUME Inv, getChats
  PROVE  AsksQuietly
<1> DEFINE r == Request("getChats", Open, 0)
<1>1. requests' = Append(requests, r)
  BY DEF getChats
<1>2. r \in RequestType
  BY RequestTypes, ChatsAssumption, CountFacts
<1>3. r.kind # "getChatHistory" /\ GoodRequest(r, arrived')
  BY DEF Request, GoodRequest
<1> HIDE DEF r
<1> QED BY <1>1, <1>2, <1>3, AskOne DEF Inv, TypeInv, Types

LEMMA CountsOf ==
  ASSUME ServerTypes, NEW c \in Chats
  PROVE  /\ arrived[c] \in Counts /\ read[c] \in Counts /\ arrived[c] \in Nat /\ read[c] \in Nat
         /\ read[c] <= arrived[c] /\ Unread(c) \in Counts
<1>1. /\ arrived[c] \in Counts /\ read[c] \in Counts /\ read[c] <= arrived[c]
  BY DEF ServerTypes
<1>2. arrived[c] \in Nat /\ read[c] \in Nat
  BY <1>1, CountFacts
<1>3. Unread(c) \in Counts
  BY <1>1, <1>2, CountFacts DEF Unread, Counts
<1> QED BY <1>1, <1>2, <1>3

LEMMA fetchMoreKeeps ==
  ASSUME Inv, fetchMore
  PROVE  Inv'
<1>1. Happens /\ UNCHANGED <<tdlib, inbox, list, openChat, activity>>
  BY DEF fetchMore
<1>2. AsksQuietly
  BY GetChatsAsks DEF fetchMore
<1>3. ListTypes' /\ Told' /\ GoodRows'
  BY <1>1, RowsKept DEF tdlib
<1>4. PageTypes' /\ Quietly /\ unseenMessageIds' \subseteq 1..arrived'[Open]
  BY <1>1 DEF Inv, TypeInv, Types, Given, PageTypes, Quietly, openChat, activity, tdlib
<1> QED BY <1>1, <1>2, <1>3, <1>4, UserKeeps

LEMMA otherModelTellsKeeps ==
  ASSUME Inv, otherModelTells
  PROVE  Inv'
<1>1. /\ Happens /\ stale' = TRUE
      /\ UNCHANGED <<tdlib, requests, inbox, rows, openChat, activity>>
  BY DEF otherModelTells
<1>2. m_totalUnreadCount' \in Nat
  <2>1. PICK chats \in SUBSET Chats : m_totalUnreadCount' = SumOver(chats)
    BY DEF otherModelTells
  <2> DEFINE number == [c \in Chats |-> IF c \in chats THEN Counted(c) ELSE 0]
  <2>2. \A c \in Chats : Counted(c) \in Nat
    <3> SUFFICES ASSUME NEW c \in Chats
                 PROVE  Counted(c) \in Nat
      OBVIOUS
    <3>1. Unread(c) \in Nat /\ mentions[c] \in 0..1
      BY CountsOf, CountFacts DEF Inv, TypeInv, Types, ServerTypes
    <3> QED BY <3>1 DEF Counted
  <2>3. number \in [Chats -> Nat]
    BY <2>2
  <2> HIDE DEF number
  <2>4. Sum(number) \in Nat
    BY <2>3, SumType
  <2> QED BY <2>1, <2>4 DEF SumOver, number
<1>3. ListTypes' /\ Told' /\ GoodRows'
  BY <1>1, <1>2 DEF Inv, TypeInv, Types, ListTypes, Told, Given, GoodRows, HasRow, tdlib
<1>4. PageTypes' /\ Quietly /\ unseenMessageIds' \subseteq 1..arrived'[Open]
  BY <1>1 DEF Inv, TypeInv, Types, Given, PageTypes, Quietly, openChat, activity, tdlib
<1>5. AsksQuietly
  BY <1>1, AskNothing DEF Inv, TypeInv, Types
<1> QED BY <1>1, <1>3, <1>4, <1>5, UserKeeps

LEMMA resetKeeps ==
  ASSUME Inv, reset
  PROVE  Inv'
<1> DEFINE none == [c \in Chats |-> NoRow]
<1>1. /\ Happens /\ Tells(none) /\ UNCHANGED <<tdlib, inbox, openChat, activity>>
  BY DEF reset
<1>2. none \in Rows
  BY DEF Rows
<1>5. AsksQuietly
  BY GetChatsAsks DEF reset
<1>6. ListTypes' /\ Told' /\ rows' = none
  BY <1>1, <1>2, RowsChange DEF Inv, TypeInv, Types
<1>7. GoodRows'
  BY <1>6, RowTypes DEF GoodRows, HasRow
<1>8. PageTypes' /\ Quietly /\ unseenMessageIds' \subseteq 1..arrived'[Open]
  BY <1>1 DEF Inv, TypeInv, Types, Given, PageTypes, Quietly, openChat, activity, tdlib
<1> QED BY <1>1, <1>5, <1>6, <1>7, <1>8, UserKeeps

LEMMA markAsUnreadKeeps ==
  ASSUME Inv, NEW c \in Chats, markAsUnread(c)
  PROVE  Inv'
<1> DEFINE r == Request("viewMessages", c, rows[c].last_message)
<1>1. /\ Happens /\ HasRow(c) /\ requests' = Append(requests, r)
      /\ UNCHANGED <<tdlib, inbox, list, openChat, activity>>
  BY DEF markAsUnread
<1>2. rows[c].last_message \in Counts /\ rows[c].last_message <= arrived[c]
  BY <1>1, RowGiven DEF RowType
<1>3. r \in RequestType
  BY <1>2, RequestTypes
<1>4. r.kind # "getChatHistory" /\ GoodRequest(r, arrived')
  BY <1>1, <1>2 DEF Request, GoodRequest, tdlib
<1> HIDE DEF r
<1>5. AsksQuietly
  BY <1>1, <1>3, <1>4, AskOne DEF Inv, TypeInv, Types
<1>6. ListTypes' /\ Told' /\ GoodRows'
  BY <1>1, RowsKept DEF tdlib
<1>7. PageTypes' /\ Quietly /\ unseenMessageIds' \subseteq 1..arrived'[Open]
  BY <1>1 DEF Inv, TypeInv, Types, Given, PageTypes, Quietly, openChat, activity, tdlib
<1> QED BY <1>1, <1>5, <1>6, <1>7, UserKeeps

LEMMA ActivityChangesKeeps ==
  ASSUME Inv, ActivityChanges
  PROVE  Inv'
<1>1. /\ Happens /\ UNCHANGED <<tdlib, inbox, list, m_messages, unviewed>>
      /\ {pageActive', appActive'} \subseteq BOOLEAN
  BY DEF ActivityChanges, Inv, TypeInv, Types, PageTypes
<1>2. unseenMessageIds' \subseteq unseenMessageIds /\ AsksQuietly
  <2>1. CASE isActive' # isActive
    <3>1. onActiveChanged(isActive')
      BY <2>1 DEF ActivityChanges
    <3>2. /\ viewMessages(IF isActive' THEN unseenMessageIds ELSE {}, appActive')
          /\ unseenMessageIds' = IF isActive' THEN {} ELSE unseenMessageIds
      BY <3>1 DEF onActiveChanged
    <3>3. (IF isActive' THEN unseenMessageIds ELSE {}) \subseteq 1..arrived[Open]
      BY DEF Inv, TypeInv, Given
    <3>4. arrived' = arrived
      BY <1>1 DEF tdlib
    <3>5. AsksQuietly
      BY <3>2, <3>3, <3>4, ViewAsks
    <3> QED BY <3>2, <3>5
  <2>2. CASE isActive' = isActive
    <3>1. UNCHANGED <<requests, unseenMessageIds>>
      BY <2>2 DEF ActivityChanges
    <3> QED BY <3>1, AskNothing DEF Inv, TypeInv, Types
  <2> QED BY <2>1, <2>2
<1>3. ListTypes' /\ Told' /\ GoodRows'
  BY <1>1, RowsKept DEF tdlib
<1>4. PageTypes' /\ Quietly /\ unseenMessageIds' \subseteq 1..arrived'[Open]
  BY <1>1, <1>2 DEF Inv, TypeInv, Types, Given, PageTypes, Quietly, tdlib
<1> QED BY <1>1, <1>2, <1>3, <1>4, UserKeeps

LEMMA setPeerIdKeeps ==
  ASSUME Inv, setPeerId
  PROVE  Inv'
<1> DEFINE r == Request("getChatHistory", Open, 0)
<1>1. /\ Happens /\ m_messages = Closed /\ m_messages' = {} /\ requests' = Append(requests, r)
      /\ UNCHANGED <<tdlib, inbox, list, unseenMessageIds, unviewed, activity>>
  BY DEF setPeerId
<1>2. unseenMessageIds = {} /\ ~Loading
  BY <1>1 DEF Inv, TypeInv, PageFirst
<1>3. r \in RequestType
  BY RequestTypes, ChatsAssumption, CountFacts
<1>4. GoodRequest(r, arrived')
  BY DEF Request, GoodRequest
<1> HIDE DEF r
<1>5. requests' \in Seq(RequestType) /\ Follows(requests', requests, <<r>>)
  BY <1>1, <1>3, AppendFollows DEF Inv, TypeInv, Types, StreamTypes
<1>6. Len(<<r>>) = 1 /\ \A k \in 1..Len(<<r>>) : <<r>>[k] = r
  OBVIOUS
<1>7. Asks
  BY <1>4, <1>5, <1>6 DEF Asks
<1>8. ListTypes' /\ Told' /\ GoodRows'
  BY <1>1, RowsKept DEF tdlib
<1>9. PageTypes' /\ unseenMessageIds' \subseteq 1..arrived'[Open] /\ m_messages' # Closed
  BY <1>1, <1>2 DEF Inv, TypeInv, Types, PageTypes, activity, Closed
<1>10. Types' /\ Given' /\ Told'
  BY <1>1, <1>5, <1>7, <1>8, <1>9, UserTypes
<1>11. PageFirst'
  <2>1. \A i \in 1..Len(inbox') : ~Loaded(i)'
    BY <1>1, <1>2 DEF Loading, Loaded
  <2>2. \A i \in 1..Len(requests') : Loads(i)' => i = Len(requests) + 1
    <3> SUFFICES ASSUME NEW i \in 1..Len(requests'), Loads(i)'
                 PROVE  i = Len(requests) + 1
      OBVIOUS
    <3>1. Len(requests) \in Nat /\ Len(requests') = Len(requests) + 1
      BY <1>5, <1>6 DEF Follows
    <3>2. ~(i \in 1..Len(requests) /\ requests'[i] = requests[i])
      BY <1>2 DEF Loading, Loads
    <3>3. \/ i \in 1..Len(requests) /\ requests'[i] = requests[i]
          \/ i - Len(requests) \in 1..Len(<<r>>)
      BY <1>5, FollowsFrom
    <3> QED BY <1>6, <3>1, <3>2, <3>3
  <2> QED BY <1>1, <1>2, <1>9, <2>1, <2>2 DEF PageFirst
<1> QED BY <1>10, <1>11 DEF Inv, TypeInv

-----------------------------------------------------------------------------
(* The answers of TDLib keep the types. *)

LEMMA AnswersTypes ==
  ASSUME Inv, Answers, ServerTypes', arrived' = arrived,
         NEW es \in Seq(UpdateType), inbox' \in Seq(UpdateType), Follows(inbox', inbox, es),
         \A k \in 1..Len(es) : GoodUpdate(es[k], arrived)
  PROVE  Types' /\ Given' /\ Told'
<1> USE DEF Inv, TypeInv, Types
<1>1. /\ requests # <<>> /\ requests' = Tail(requests)
      /\ UNCHANGED <<arrived, mentions, muted, listed, list, openChat, activity, events>>
  BY DEF Answers
<1>2. requests' \in Seq(RequestType) /\ Rest(requests', requests)
  BY <1>1, TailRest DEF StreamTypes
<1>3. Sends
  BY DEF Sends
<1>4. Grows
  <2>1. \A c \in Chats : arrived[c] \in Nat
    BY CountFacts DEF ServerTypes
  <2> QED BY <2>1 DEF Grows
<1>5. ListTypes' /\ Told' /\ GoodRows'
  BY <1>1, RowsKept
<1>6. PageTypes' /\ unseenMessageIds' \subseteq 1..arrived'[Open]
  BY <1>1 DEF PageTypes, openChat, activity, Given
<1>7. Given'
  BY <1>2, <1>3, <1>4, <1>5, <1>6, GivenKept
<1> QED BY <1>2, <1>5, <1>6, <1>7 DEF StreamTypes

\* No answer brings the page but the one to the request for it.
LEMMA AnswersKeepQuietly ==
  ASSUME Inv, Answers, ServerTypes', arrived' = arrived,
         NEW es \in Seq(UpdateType), inbox' \in Seq(UpdateType), Follows(inbox', inbox, es),
         \A k \in 1..Len(es) : GoodUpdate(es[k], arrived) /\ es[k].kind # "messages"
  PROVE  Inv'
<1>1. Types' /\ Given' /\ Told'
  BY AnswersTypes
<1>2. NoneOf("getChatHistory", requests', requests)
  BY TailRest DEF Answers, NoneOf, Inv, TypeInv, Types, StreamTypes
<1>3. NoneOf("messages", inbox', inbox)
  BY DEF NoneOf
<1>4. Quietly
  BY DEF Quietly, Answers, openChat
<1>5. PageFirst'
  BY <1>2, <1>3, <1>4, PageFirstKept DEF Inv, TypeInv
<1> QED BY <1>1, <1>5 DEF Inv, TypeInv

\* The request that is answered.
LEMMA RequestFacts ==
  ASSUME Inv, Answers
  PROVE  /\ Head(requests) = requests[1] /\ 1 \in 1..Len(requests)
         /\ Head(requests) \in RequestType /\ Head(requests).chat \in Chats
         /\ Head(requests).value \in Counts
         /\ GoodRequest(Head(requests), arrived)
         /\ Rest(requests', requests)
<1>1. /\ requests # <<>> /\ requests' = Tail(requests) /\ requests \in Seq(RequestType)
  BY DEF Answers, Inv, TypeInv, Types, StreamTypes
<1>2. Rest(requests', requests) /\ Head(requests) = requests[1] /\ requests[1] \in RequestType
  BY <1>1, TailRest
<1>3. 1 \in 1..Len(requests)
  BY <1>2 DEF Rest
<1>4. GoodRequest(requests[1], arrived)
  BY <1>3 DEF Inv, TypeInv, Given
<1>5. requests[1].chat \in Chats /\ requests[1].value \in Counts
  BY <1>2 DEF RequestType
<1> QED BY <1>2, <1>3, <1>4, <1>5

LEMMA AnswersViewed ==
  ASSUME Inv, Answers, Head(requests).kind = "viewMessages"
  PROVE  Inv'
<1> DEFINE request == Head(requests)
           c == request.chat
           e == Update("readInbox", c, arrived[c] - request.value)
<1>1. /\ ServerTypes /\ inbox \in Seq(UpdateType)
      /\ UNCHANGED <<arrived, mentions, muted, listed, events>>
  BY DEF Inv, TypeInv, Types, StreamTypes, Answers
<1>2. /\ c \in Chats /\ request.value \in Counts /\ request.value \in Nat
      /\ request.value <= arrived[c]
  <2>1. c \in Chats /\ request.value \in Counts /\ GoodRequest(request, arrived)
    BY RequestFacts
  <2>2. request.value \in Nat
    BY <2>1, CountFacts
  <2> QED BY <2>1, <2>2 DEF GoodRequest
<1>3. /\ arrived[c] \in Counts /\ arrived[c] \in Nat
  BY <1>1, <1>2, CountsOf
<1>4. CASE request.value > read[c]
  <2>1. read' = [read EXCEPT ![c] = request.value] /\ inbox' = Append(inbox, e)
    BY <1>4 DEF Answers
  <2>2. ServerTypes'
    <3>1. read' \in [Chats -> Counts]
      BY <1>1, <1>2, <2>1 DEF ServerTypes
    <3>2. \A d \in Chats : read'[d] <= arrived[d]
      BY <1>1, <1>2, <2>1 DEF ServerTypes
    <3> QED BY <1>1, <3>1, <3>2 DEF ServerTypes
  <2>3. arrived[c] - request.value \in Counts
    BY <1>2, <1>3, CountFacts DEF Counts
  <2>4. e \in UpdateType
    BY <1>2, <2>3, UpdateTypes
  <2>5. e.kind # "messages" /\ GoodUpdate(e, arrived)
    BY DEF Update, GoodUpdate
  <2> HIDE DEF e
  <2>6. inbox' \in Seq(UpdateType) /\ Follows(inbox', inbox, <<e>>)
    BY <1>1, <2>1, <2>4, AppendFollows
  <2>7. <<e>> \in Seq(UpdateType) /\ \A k \in 1..Len(<<e>>) : <<e>>[k] = e
    BY <2>4, OneUpdate
  <2>8. \A k \in 1..Len(<<e>>) : GoodUpdate(<<e>>[k], arrived) /\ <<e>>[k].kind # "messages"
    BY <2>5, <2>7
  <2> QED BY <1>1, <2>2, <2>6, <2>7, <2>8, AnswersKeepQuietly
<1>5. CASE ~(request.value > read[c])
  <2>1. read' = read /\ inbox' = inbox
    BY <1>5 DEF Answers
  <2>2. ServerTypes'
    BY <1>1, <2>1 DEF ServerTypes
  <2>3. inbox' \in Seq(UpdateType) /\ Follows(inbox', inbox, <<>>) /\ Len(<<>>) = 0
    BY <1>1, <2>1, NothingFollows
  <2>4. /\ <<>> \in Seq(UpdateType)
        /\ \A k \in 1..Len(<<>>) : GoodUpdate(<<>>[k], arrived) /\ <<>>[k].kind # "messages"
    BY <2>3
  <2> QED BY <1>1, <2>2, <2>3, <2>4, AnswersKeepQuietly
<1> QED BY <1>4, <1>5

\* The other answers change nothing of TDLib.
LEMMA AnswerKeeps ==
  ASSUME Inv, Answers, UNCHANGED read, NEW e \in UpdateType, inbox' = Append(inbox, e),
         e.kind # "messages", GoodUpdate(e, arrived)
  PROVE  Inv'
<1>1. /\ ServerTypes /\ inbox \in Seq(UpdateType)
      /\ UNCHANGED <<arrived, mentions, muted, listed, events>>
  BY DEF Inv, TypeInv, Types, StreamTypes, Answers
<1>2. ServerTypes'
  BY <1>1 DEF ServerTypes
<1>3. inbox' \in Seq(UpdateType) /\ Follows(inbox', inbox, <<e>>)
  BY <1>1, AppendFollows
<1>4. <<e>> \in Seq(UpdateType) /\ \A k \in 1..Len(<<e>>) : <<e>>[k] = e
  BY OneUpdate
<1>5. \A k \in 1..Len(<<e>>) : GoodUpdate(<<e>>[k], arrived) /\ <<e>>[k].kind # "messages"
  BY <1>4
<1> QED BY <1>1, <1>2, <1>3, <1>4, <1>5, AnswersKeepQuietly

LEMMA AnswersChat ==
  ASSUME Inv, Answers, Head(requests).kind = "getChat"
  PROVE  Inv'
<1> DEFINE c == Head(requests).chat
           row == Row(Unread(c), mentions[c], muted[c], arrived[c])
           e == Update("chat", c, row)
<1>1. inbox' = Append(inbox, e) /\ read' = read
  BY DEF Answers
<1>2. c \in Chats /\ ServerTypes
  BY RequestFacts DEF Inv, TypeInv, Types
<1>3. /\ Unread(c) \in Counts /\ arrived[c] \in Counts /\ arrived[c] \in Nat
      /\ mentions[c] \in 0..1 /\ muted[c] \in BOOLEAN
  BY <1>2, CountsOf DEF ServerTypes
<1> HIDE DEF c
<1>4. row \in RowType /\ row.last_message = arrived[c]
  BY <1>3, RowTypes
<1> HIDE DEF row
<1>5. e \in UpdateType
  BY <1>2, <1>4, UpdateTypes
<1>6. e.kind # "messages" /\ GoodUpdate(e, arrived)
  BY <1>3, <1>4 DEF Update, GoodUpdate
<1> HIDE DEF e
<1> QED BY <1>1, <1>5, <1>6, AnswerKeeps

LEMMA AnswersChats ==
  ASSUME Inv, Answers, Head(requests).kind = "getChats"
  PROVE  Inv'
<1> DEFINE c == Head(requests).chat
<1>1. PICK page \in SUBSET {d \in Chats : listed[d]} :
        inbox' = Append(inbox, Update("chats", c, page)) /\ read' = read
  BY DEF Answers
<1> DEFINE e == Update("chats", c, page)
<1>2. c \in Chats
  BY RequestFacts
<1>3. page \in SUBSET Chats
  OBVIOUS
<1>4. e \in UpdateType
  BY <1>2, <1>3, UpdateTypes
<1>5. e.kind # "messages" /\ GoodUpdate(e, arrived)
  BY DEF Update, GoodUpdate
<1>6. inbox' = Append(inbox, e)
  BY <1>1
<1> HIDE DEF e
<1> QED BY <1>1, <1>4, <1>5, <1>6, AnswerKeeps

LEMMA AnswersHistory ==
  ASSUME Inv, Answers, Head(requests).kind = "getChatHistory"
  PROVE  Inv'
<1> DEFINE c == Head(requests).chat
           e == Update("messages", c, 1..arrived[c])
<1>1. inbox' = Append(inbox, e) /\ read' = read
  BY DEF Answers
<1>2. /\ ServerTypes /\ inbox \in Seq(UpdateType)
      /\ UNCHANGED <<arrived, mentions, muted, listed, events, openChat>>
  BY DEF Inv, TypeInv, Types, StreamTypes, Answers
<1>3. /\ c = Open /\ 1 \in 1..Len(requests) /\ Loads(1) /\ Rest(requests', requests)
  BY RequestFacts DEF GoodRequest, Loads
<1>4. 1..arrived[Open] \in SUBSET (1..MaxMessages)
  <2>1. arrived[Open] \in Counts
    BY <1>2, ChatsAssumption, CountsOf
  <2> QED BY <2>1, IdsBelow
<1>5. e \in UpdateType
  BY <1>3, <1>4, UpdateTypes
<1>6. GoodUpdate(e, arrived)
  BY <1>3 DEF Update, GoodUpdate
<1> HIDE DEF e, c
<1>7. inbox' \in Seq(UpdateType) /\ Follows(inbox', inbox, <<e>>)
  BY <1>1, <1>2, <1>5, AppendFollows
<1>8. <<e>> \in Seq(UpdateType) /\ Len(<<e>>) = 1 /\ \A k \in 1..Len(<<e>>) : <<e>>[k] = e
  BY <1>5, OneUpdate
<1>9. \A k \in 1..Len(<<e>>) : GoodUpdate(<<e>>[k], arrived)
  BY <1>6, <1>8
<1>10. ServerTypes'
  BY <1>1, <1>2 DEF ServerTypes
<1>11. Types' /\ Given' /\ Told'
  BY <1>2, <1>7, <1>8, <1>9, <1>10, AnswersTypes
<1>12. PageFirst'
  <2>1. Loading /\ PageFirst
    BY <1>3 DEF Loading, Inv, TypeInv
  <2>2. m_messages' # Closed /\ unseenMessageIds' = {}
    BY <1>2, <2>1 DEF PageFirst, openChat
  <2>3. \A i \in 1..Len(requests') : ~Loads(i)'
    <3> SUFFICES ASSUME NEW i \in 1..Len(requests'), Loads(i)'
                 PROVE  FALSE
      OBVIOUS
    <3>1. i + 1 \in 1..Len(requests) /\ requests'[i] = requests[i + 1]
      BY <1>3, RestFrom
    <3>2. i + 1 = 1
      BY <1>3, <2>1, <3>1 DEF PageFirst, Loads
    <3> QED BY <3>2
  <2>4. \A j \in 1..Len(inbox') : Loaded(j)' => j = Len(inbox) + 1
    <3> SUFFICES ASSUME NEW j \in 1..Len(inbox'), Loaded(j)'
                 PROVE  j = Len(inbox) + 1
      OBVIOUS
    <3>1. ~(j \in 1..Len(inbox) /\ inbox'[j] = inbox[j])
      BY <1>3, <2>1 DEF PageFirst, Loaded
    <3>2. \/ j \in 1..Len(inbox) /\ inbox'[j] = inbox[j]
          \/ j - Len(inbox) \in 1..Len(<<e>>)
      BY <1>7, FollowsFrom
    <3>3. Len(inbox) \in Nat
      BY <1>7 DEF Follows
    <3> QED BY <1>8, <3>1, <3>2, <3>3
  <2> QED BY <2>2, <2>3, <2>4 DEF PageFirst
<1> QED BY <1>11, <1>12 DEF Inv, TypeInv

LEMMA AnswersKeeps ==
  ASSUME Inv, Answers
  PROVE  Inv'
<1>1. Head(requests).kind \in {"viewMessages", "getChat", "getChats", "getChatHistory"}
  BY DEF Answers
<1> QED BY <1>1, AnswersViewed, AnswersChat, AnswersChats, AnswersHistory

-----------------------------------------------------------------------------
(* The types and the sum that was told, in every state. *)

LEMMA InvInit ==
  ASSUME Init
  PROVE  Inv
<1> USE DEF Init
<1>1. 0 \in Counts /\ 0 \in 0..1 /\ 0 \in Nat /\ 0 \in 0..MaxEvents
  BY BoundsAssumption DEF Counts
<1>2. ServerTypes
  BY <1>1 DEF ServerTypes
<1>3. StreamTypes /\ Len(<<>>) = 0
  BY DEF StreamTypes
<1>4. \A c \in Chats :
        \/ rows[c] = NoRow
        \/ /\ rows[c] \in RowType /\ rows[c].last_message = 0
           /\ rows[c].unread_count = 0 /\ rows[c].unread_mention_count = 0
  BY <1>1, RowTypes
<1>5. ListTypes
  <2>1. rows \in [Chats -> RowType \cup {NoRow}]
    BY <1>4
  <2> QED BY <1>1, <2>1 DEF ListTypes
<1>6. PageTypes
  BY DEF PageTypes
<1>7. Given
  BY <1>1, <1>3, <1>4, RowTypes DEF Given, GoodRows, HasRow
<1>8. PageFirst
  BY <1>3 DEF PageFirst, Loading
<1>9. Told
  <2>1. \A c \in Chats : rows[c].counted <=> rows[c] # NoRow
    BY <1>4, RowTypes
  <2>2. \A c \in Chats : (IF ~rows[c].counted THEN 0
           ELSE rows[c].unread_mention_count
                  + IF rows[c].mute_for THEN 0 ELSE rows[c].unread_count) = 0
    BY <1>4, <2>1
  <2>3. totalUnreadCount(rows) = Sum([c \in Chats |-> 0])
    BY <2>2 DEF totalUnreadCount
  <2>4. Sum([c \in Chats |-> 0]) = 0
    BY SumOfNothing
  <2> QED BY <2>3, <2>4 DEF Told
<1> QED BY <1>2, <1>3, <1>5, <1>6, <1>7, <1>8, <1>9 DEF Inv, TypeInv, Types

LEMMA InvStays ==
  ASSUME Inv, UNCHANGED vars
  PROVE  Inv'
<1>1. /\ UNCHANGED <<arrived, read, mentions, muted, listed, requests, inbox, rows,
                     announced, m_totalUnreadCount, stale, m_messages, unseenMessageIds, pageActive,
                     appActive, unviewed, events>>
  BY DEF vars, tdlib, list, openChat, activity
<1>2. Types'
  BY <1>1 DEF Inv, TypeInv, Types, ServerTypes, StreamTypes, ListTypes, PageTypes
<1>3. Given'
  BY <1>1 DEF Inv, TypeInv, Given, GoodRows, HasRow
<1>4. PageFirst'
  BY <1>1 DEF Inv, TypeInv, PageFirst, Loading, Loads, Loaded
<1>5. Told'
  BY <1>1 DEF Inv, Told, totalUnreadCount
<1> QED BY <1>2, <1>3, <1>4, <1>5 DEF Inv, TypeInv

LEMMA InvKept ==
  ASSUME Inv, [Next]_vars
  PROVE  Inv'
<1>1. CASE Handle
  BY <1>1, updateChatMentionCountKeeps, updateChatNotificationSettingsKeeps,
     updateChatReadInboxKeeps, updateChatLastMessageKeeps, updateChatOrderKeeps, addChatKeeps,
     addChatsKeeps, addMessagesKeeps, addMessageFromUpdateKeeps DEF Handle
<1>2. CASE Answers
  BY <1>2, AnswersKeeps
<1>3. CASE User
  BY <1>3, setPeerIdKeeps, ActivityChangesKeeps, resetKeeps, fetchMoreKeeps,
     otherModelTellsKeeps, markAsUnreadKeeps DEF User
<1>4. CASE Environment
  BY <1>4, MessageArrivesKeeps, ReadElsewhereKeeps, MentionsChangeKeeps, MuteChangesKeeps,
     ListChangesKeeps DEF Environment
<1>5. CASE UNCHANGED vars
  BY <1>5, InvStays
<1> QED BY <1>1, <1>2, <1>3, <1>4, <1>5 DEF Next

LEMMA InvIsInvariant == Spec => []Inv
<1>1. Init => Inv
  BY InvInit
<1>2. Inv /\ [Next]_vars => Inv'
  BY InvKept
<1> QED BY <1>1, <1>2, PTL DEF Spec

\* What ChatsModel was told of are chats.
LEMMA AnnouncedKept ==
  ASSUME announced \subseteq Chats, [Next]_vars
  PROVE  announced' \subseteq Chats
<1>1. CASE Handle
  <2>1. announced' = (announced \ Leaving(Received)) \cup Enters(Received)
    BY <1>1 DEF Handle, Consume, updateChatMentionCount, updateChatNotificationSettings,
                updateChatReadInbox, updateChatLastMessage, updateChatOrder, addChat, addChats,
                addMessages, addMessageFromUpdate
  <2> QED BY <2>1 DEF Enters
<1>2. CASE Answers
  BY <1>2 DEF Answers
<1>3. CASE User
  BY <1>3 DEF User, setPeerId, ActivityChanges, reset, fetchMore, otherModelTells, markAsUnread
<1>4. CASE Environment
  BY <1>4 DEF Environment, MessageArrives, ReadElsewhere, MentionsChange, MuteChanges,
              ListChanges
<1>5. CASE UNCHANGED vars
  BY <1>5 DEF vars
<1> QED BY <1>1, <1>2, <1>3, <1>4, <1>5 DEF Next

LEMMA AnnouncedAreChats == Spec => [](announced \subseteq Chats)
<1>1. Init => announced \subseteq Chats
  BY DEF Init
<1>2. announced \subseteq Chats /\ [Next]_vars => (announced \subseteq Chats)'
  BY AnnouncedKept
<1> QED BY <1>1, <1>2, PTL DEF Spec

LEMMA InvTypes ==
  ASSUME Inv, announced \subseteq Chats
  PROVE  TypeOK
<1> USE DEF Inv, TypeInv, Types
<1>1. \A i \in 1..Len(requests) : requests[i].chat \in Chats /\ requests[i].value \in Counts
  <2> SUFFICES ASSUME NEW i \in 1..Len(requests)
               PROVE  requests[i].chat \in Chats /\ requests[i].value \in Counts
    OBVIOUS
  <2>1. requests[i] \in RequestType
    BY ElementOfSeq DEF StreamTypes
  <2> QED BY <2>1 DEF RequestType
<1>2. \A i \in 1..Len(inbox) : inbox[i].chat \in Chats
  <2> SUFFICES ASSUME NEW i \in 1..Len(inbox)
               PROVE  inbox[i].chat \in Chats
    OBVIOUS
  <2>1. inbox[i] \in UpdateType
    BY ElementOfSeq DEF StreamTypes
  <2> QED BY <2>1, ValueTypes
<1>3. \A c \in Chats :
        rows[c] \in {NoRow} \cup {Row(n, m, mute, last) :
                                    n \in Counts, m \in 0..1, mute \in BOOLEAN, last \in Counts}
  <2> SUFFICES ASSUME NEW c \in Chats, rows[c] \in RowType
               PROVE  \E n, last \in Counts, m \in 0..1, mute \in BOOLEAN :
                        rows[c] = Row(n, m, mute, last)
    BY DEF ListTypes
  <2>1. rows[c] = Row(rows[c].unread_count, rows[c].unread_mention_count, rows[c].mute_for,
                      rows[c].last_message)
    BY DEF RowType, Row
  <2> QED BY <2>1 DEF RowType
<1> QED BY <1>1, <1>2, <1>3 DEF TypeOK, ServerTypes, ListTypes, PageTypes

(* TDLib's side, the requests and updates under way, the rows, the sum for   *)
(* the cover and the open chat keep their types: no message is read that     *)
(* has not arrived, and a message that waits to be viewed is one of the open *)
(* chat.                                                                     *)
THEOREM TypeCorrect == Spec => []TypeOK
<1>1. Inv /\ announced \subseteq Chats => TypeOK
  BY InvTypes
<1> QED BY <1>1, InvIsInvariant, AnnouncedAreChats, PTL

-----------------------------------------------------------------------------
(* A count that is not TDLib's is followed by one that is. *)

Kinds == {"readInbox", "mentions", "settings"}
truth ==
  [c \in Chats |-> [kind \in Kinds |->
     IF kind = "readInbox" THEN Unread(c) ELSE IF kind = "mentions" THEN mentions[c] ELSE muted[c]]]
Field(row, kind) ==
  IF kind = "readInbox" THEN row.unread_count
  ELSE IF kind = "mentions" THEN row.unread_mention_count ELSE row.mute_for

\* An update of the kind comes after the kth of s.
Later(s, kind, c, k) == \E j \in 1..Len(s) : j > k /\ s[j].kind = kind /\ s[j].chat = c
\* The value is the one of t, or another comes.
Says(t, s, value, kind, c, k) == value = t[c][kind] \/ Later(s, kind, c, k)
RowSays(t, s, row, c, k) == \A kind \in Kinds : Says(t, s, Field(row, kind), kind, c, k)
Right(t, s, k) ==
  /\ s[k].kind \in Kinds => Says(t, s, s[k].value, s[k].kind, s[k].chat, k)
  /\ s[k].kind = "chat" => RowSays(t, s, s[k].value, s[k].chat, k)
Current ==
  /\ \A c \in Chats : HasRow(c) => RowSays(truth, inbox, rows[c], c, 0)
  /\ \A k \in 1..Len(inbox) : Right(truth, inbox, k)

\* TDLib, which had t and has v now, sends what is true and what has changed.
TellsTruth(t, v, es) ==
  /\ \A kind \in Kinds, c \in Chats :
       v[c][kind] = t[c][kind] \/ \E j \in 1..Len(es) : es[j].kind = kind /\ es[j].chat = c
  /\ \A j \in 1..Len(es) :
       /\ es[j].kind \in Kinds => es[j].value = v[es[j].chat][es[j].kind]
       /\ es[j].kind = "chat" =>
            \A kind \in Kinds : Field(es[j].value, kind) = v[es[j].chat][kind]

LEMMA SaysKept ==
  ASSUME NEW t, NEW v, NEW s, NEW u, NEW es, Follows(u, s, es), TellsTruth(t, v, es),
         NEW kind \in Kinds, NEW c \in Chats, NEW value, NEW k \in 0..Len(s),
         Says(t, s, value, kind, c, k)
  PROVE  Says(v, u, value, kind, c, k)
<1>1. Len(s) \in Nat /\ Len(es) \in Nat /\ Len(u) = Len(s) + Len(es)
  BY DEF Follows
<1>2. CASE Later(s, kind, c, k)
  <2>1. PICK j \in 1..Len(s) : j > k /\ s[j].kind = kind /\ s[j].chat = c
    BY <1>2 DEF Later
  <2>2. j \in 1..Len(u) /\ u[j] = s[j]
    BY <1>1 DEF Follows
  <2> QED BY <2>1, <2>2 DEF Says, Later
<1>3. CASE value = t[c][kind] /\ v[c][kind] = t[c][kind]
  BY <1>3 DEF Says
<1>4. CASE \E j \in 1..Len(es) : es[j].kind = kind /\ es[j].chat = c
  <2>1. PICK j \in 1..Len(es) : es[j].kind = kind /\ es[j].chat = c
    BY <1>4
  <2>2. /\ Len(s) + j \in 1..Len(u) /\ Len(s) + j > k
        /\ u[Len(s) + j] = es[j]
    BY <1>1 DEF Follows
  <2> QED BY <2>1, <2>2 DEF Says, Later
<1> QED BY <1>2, <1>3, <1>4 DEF Says, TellsTruth

LEMMA RightKept ==
  ASSUME NEW t, NEW v, NEW s, NEW u, NEW es, Follows(u, s, es), TellsTruth(t, v, es),
         \A k \in 1..Len(s) : s[k].chat \in Chats /\ Right(t, s, k),
         NEW k \in 1..Len(u)
  PROVE  Right(v, u, k)
<1>1. CASE k \in 1..Len(s) /\ u[k] = s[k]
  <2>1. Right(t, s, k) /\ k \in 0..Len(s) /\ s[k].chat \in Chats
    BY <1>1 DEF Follows
  <2>2. s[k].kind \in Kinds => Says(v, u, s[k].value, s[k].kind, s[k].chat, k)
    BY <2>1, SaysKept DEF Right
  <2>3. s[k].kind = "chat" =>
          \A kind \in Kinds : Says(v, u, Field(s[k].value, kind), kind, s[k].chat, k)
    BY <2>1, SaysKept DEF Right, RowSays
  <2> QED BY <1>1, <2>2, <2>3 DEF Right, RowSays
<1>2. CASE k - Len(s) \in 1..Len(es) /\ u[k] = es[k - Len(s)]
  <2> DEFINE e == es[k - Len(s)]
  <2>1. /\ e.kind \in Kinds => e.value = v[e.chat][e.kind]
        /\ e.kind = "chat" => \A kind \in Kinds : Field(e.value, kind) = v[e.chat][kind]
    BY <1>2 DEF TellsTruth
  <2>2. u[k] = e
    BY <1>2
  <2> HIDE DEF e
  <2> QED BY <2>1, <2>2 DEF Right, RowSays, Says
<1> QED BY <1>1, <1>2, FollowsFrom

LEMMA InboxChats ==
  ASSUME Inv
  PROVE  \A k \in 1..Len(inbox) : inbox[k].chat \in Chats
<1> SUFFICES ASSUME NEW k \in 1..Len(inbox)
             PROVE  inbox[k].chat \in Chats
  OBVIOUS
<1>1. inbox[k] \in UpdateType
  BY ElementOfSeq DEF Inv, TypeInv, Types, StreamTypes
<1> QED BY <1>1, ValueTypes

\* TDLib sends es, and no row changes but that all may go.
LEMMA CurrentSent ==
  ASSUME Inv, Current, NEW es, Follows(inbox', inbox, es), TellsTruth(truth, truth', es),
         \A c \in Chats : HasRow(c)' => HasRow(c) /\ rows'[c] = rows[c]
  PROVE  Current'
<1>1. Len(inbox) \in Nat
  BY DEF Follows
<1>2. ASSUME NEW c \in Chats, HasRow(c)', NEW kind \in Kinds
      PROVE  Says(truth', inbox', Field(rows'[c], kind), kind, c, 0)
  <2>1. rows'[c] = rows[c] /\ Says(truth, inbox, Field(rows[c], kind), kind, c, 0)
    BY <1>2 DEF Current, RowSays
  <2>2. 0 \in 0..Len(inbox)
    BY <1>1
  <2> QED BY <2>1, <2>2, SaysKept
<1>3. \A k \in 1..Len(inbox') : Right(truth', inbox', k)
  BY RightKept, InboxChats DEF Current
<1> QED BY <1>2, <1>3 DEF Current, RowSays

\* What a handler makes of the rows is true, or was there before and is not
\* what the update is about.
Fresh ==
  \A c \in Chats : HasRow(c)' =>
    \A kind \in Kinds :
      \/ /\ HasRow(c) /\ Field(rows'[c], kind) = Field(rows[c], kind)
         /\ ~(inbox[1].kind = kind /\ inbox[1].chat = c)
      \/ Says(truth, inbox, Field(rows'[c], kind), kind, c, 1)

LEMMA SaysTaken ==
  ASSUME NEW t, NEW s, NEW u, Rest(u, s),
         NEW kind, NEW c, NEW value, NEW k \in 0..Len(u), NEW n, n = k + 1,
         Says(t, s, value, kind, c, n)
  PROVE  Says(t, u, value, kind, c, k)
<1>1. Len(s) \in Nat /\ Len(u) = Len(s) - 1
  BY DEF Rest
<1>2. CASE Later(s, kind, c, n)
  <2>1. PICK j \in 1..Len(s) : j > k + 1 /\ s[j].kind = kind /\ s[j].chat = c
    BY <1>2 DEF Later
  <2>2. j - 1 \in 1..Len(u) /\ j - 1 > k /\ u[j - 1] = s[(j - 1) + 1]
    BY <1>1, <2>1 DEF Rest
  <2>3. (j - 1) + 1 = j
    OBVIOUS
  <2> QED BY <2>1, <2>2, <2>3 DEF Says, Later
<1>3. CASE value = t[c][kind]
  BY <1>3 DEF Says
<1> QED BY <1>2, <1>3 DEF Says

LEMMA CurrentTaken ==
  ASSUME Inv, Current, NEW kind0, Consume(kind0), Fresh
  PROVE  Current'
<1>1. /\ Rest(inbox', inbox)
      /\ Len(inbox) \in Nat /\ Len(inbox') = Len(inbox) - 1 /\ Len(inbox) >= 1
  BY ConsumeTakes DEF Inv, TypeInv, Rest
<1>2. truth' = truth
  BY Takes DEF truth, Unread
<1>3. ASSUME NEW c \in Chats, HasRow(c)', NEW kind \in Kinds
      PROVE  Says(truth, inbox', Field(rows'[c], kind), kind, c, 0)
  <2>1. Says(truth, inbox, Field(rows'[c], kind), kind, c, 1)
    <3>1. CASE /\ HasRow(c) /\ Field(rows'[c], kind) = Field(rows[c], kind)
               /\ ~(inbox[1].kind = kind /\ inbox[1].chat = c)
      <4>1. Says(truth, inbox, Field(rows[c], kind), kind, c, 0)
        BY <3>1 DEF Current, RowSays
      <4>2. ASSUME Later(inbox, kind, c, 0)
            PROVE  Later(inbox, kind, c, 1)
        <5>1. PICK j \in 1..Len(inbox) : inbox[j].kind = kind /\ inbox[j].chat = c
          BY <4>2 DEF Later
        <5>2. j # 1
          BY <3>1, <5>1
        <5>3. j > 1
          BY <1>1, <5>2
        <5> QED BY <5>1, <5>3 DEF Later
      <4> QED BY <3>1, <4>1, <4>2 DEF Says
    <3> QED BY <1>3, <3>1 DEF Fresh
  <2>2. 0 \in 0..Len(inbox') /\ 0 + 1 = 1
    BY <1>1
  <2> QED BY <1>1, <2>1, <2>2, SaysTaken
<1>4. ASSUME NEW k \in 1..Len(inbox')
      PROVE  Right(truth, inbox', k)
  <2>1. k + 1 \in 1..Len(inbox) /\ inbox'[k] = inbox[k + 1] /\ k \in 0..Len(inbox')
    BY <1>1, RestFrom
  <2>2. Right(truth, inbox, k + 1)
    BY <2>1 DEF Current
  <2>3. inbox'[k].kind \in Kinds =>
          Says(truth, inbox', inbox'[k].value, inbox'[k].kind, inbox'[k].chat, k)
    BY <1>1, <2>1, <2>2, SaysTaken DEF Right
  <2>4. inbox'[k].kind = "chat" =>
          \A kind \in Kinds :
            Says(truth, inbox', Field(inbox'[k].value, kind), kind, inbox'[k].chat, k)
    BY <1>1, <2>1, <2>2, SaysTaken DEF Right, RowSays
  <2> QED BY <2>3, <2>4 DEF Right, RowSays
<1> QED BY <1>2, <1>3, <1>4 DEF Current, RowSays

\* What the user does changes no row but that all may go, and TDLib is silent.
LEMMA CurrentSilent ==
  ASSUME Inv, Current, UNCHANGED <<tdlib, inbox>>,
         \A c \in Chats : HasRow(c)' => HasRow(c) /\ rows'[c] = rows[c]
  PROVE  Current'
<1>1. Follows(inbox', inbox, <<>>) /\ Len(<<>>) = 0
  BY NothingFollows DEF Inv, TypeInv, Types, StreamTypes
<1>2. truth' = truth
  BY DEF truth, Unread, tdlib
<1>3. TellsTruth(truth, truth', <<>>)
  BY <1>1, <1>2 DEF TellsTruth
<1> QED BY <1>1, <1>3, CurrentSent

LEMMA UserCurrent ==
  ASSUME Inv, Current, User
  PROVE  Current'
<1>1. UNCHANGED <<tdlib, inbox>>
  BY DEF User, setPeerId, ActivityChanges, reset, fetchMore, otherModelTells, markAsUnread
<1>2. \A c \in Chats : HasRow(c)' => HasRow(c) /\ rows'[c] = rows[c]
  <2>1. CASE reset
    <3>1. rows' = [c \in Chats |-> NoRow]
      BY <2>1 DEF reset, Tells
    <3> QED BY <3>1, RowTypes DEF HasRow
  <2>2. CASE rows' = rows
    BY <2>2 DEF HasRow
  <2> QED BY <2>1, <2>2 DEF User, setPeerId, ActivityChanges, fetchMore, otherModelTells,
                            markAsUnread, list
<1> QED BY <1>1, <1>2, CurrentSilent

\* TDLib sends one update of a kind, which is true, and nothing else changes.
LEMMA TruthFacts ==
  ASSUME NEW c \in Chats
  PROVE  /\ truth[c]["readInbox"] = Unread(c)
         /\ truth[c]["mentions"] = mentions[c]
         /\ truth[c]["settings"] = muted[c]
BY DEF truth, Kinds

LEMMA TruthFactsNext ==
  ASSUME NEW c \in Chats
  PROVE  /\ truth'[c]["readInbox"] = arrived'[c] - read'[c]
         /\ truth'[c]["mentions"] = mentions'[c]
         /\ truth'[c]["settings"] = muted'[c]
BY DEF truth, Kinds, Unread

\* At most one value of one chat changes.
Alters(changed, c) ==
  \A kind \in Kinds, d \in Chats :
    truth'[d][kind] = truth[d][kind] \/ (kind = changed /\ d = c)
Touches(changed, c) ==
  \A d \in Chats :
    /\ arrived'[d] - read'[d] = arrived[d] - read[d] \/ (changed = "readInbox" /\ d = c)
    /\ mentions'[d] = mentions[d] \/ (changed = "mentions" /\ d = c)
    /\ muted'[d] = muted[d] \/ (changed = "settings" /\ d = c)

LEMMA TruthChanges ==
  ASSUME NEW changed, NEW c \in Chats, Touches(changed, c)
  PROVE  Alters(changed, c)
<1> SUFFICES ASSUME NEW kind \in Kinds, NEW d \in Chats
             PROVE  truth'[d][kind] = truth[d][kind] \/ (kind = changed /\ d = c)
  BY DEF Alters
<1>1. /\ kind = "readInbox" => truth[d][kind] = arrived[d] - read[d]
      /\ kind = "mentions" => truth[d][kind] = mentions[d]
      /\ kind = "settings" => truth[d][kind] = muted[d]
  BY DEF truth, Unread
<1>2. /\ kind = "readInbox" => truth'[d][kind] = arrived'[d] - read'[d]
      /\ kind = "mentions" => truth'[d][kind] = mentions'[d]
      /\ kind = "settings" => truth'[d][kind] = muted'[d]
  BY DEF truth, Unread
<1>3. kind = "readInbox" \/ kind = "mentions" \/ kind = "settings"
  BY DEF Kinds
<1> QED BY <1>1, <1>2, <1>3 DEF Touches

LEMMA MessageArrivesCurrent ==
  ASSUME Inv, Current, NEW c \in Chats, MessageArrives(c)
  PROVE  Current'
<1> DEFINE e1 == Update("newMessage", c, arrived[c] + 1)
           e2 == Update("readInbox", c, Unread(c) + 1)
           e3 == Update("lastMessage", c, arrived[c] + 1)
           es == <<e1, e2, e3>>
<1>1. /\ inbox' = inbox \o es /\ arrived' = [arrived EXCEPT ![c] = arrived[c] + 1]
      /\ UNCHANGED <<read, mentions, muted, rows>>
  BY DEF MessageArrives, Push, list
<1>2. ServerTypes /\ inbox \in Seq(UpdateType)
  BY DEF Inv, TypeInv, Types, StreamTypes
<1>3. /\ arrived[c] \in Nat /\ read[c] \in Nat /\ read[c] <= arrived[c]
      /\ arrived[c] + 1 \in Counts /\ Unread(c) + 1 \in Counts
  <2>1. arrived[c] \in Nat /\ read[c] \in Nat /\ read[c] <= arrived[c]
    BY <1>2, CountsOf
  <2> QED BY <2>1, BoundsAssumption DEF MessageArrives, Unread, Counts
<1>4. e1 \in UpdateType /\ e2 \in UpdateType /\ e3 \in UpdateType
  BY <1>3, UpdateTypes
<1>5. /\ e1.kind = "newMessage" /\ e3.kind = "lastMessage"
      /\ e2.kind = "readInbox" /\ e2.chat = c /\ e2.value = Unread(c) + 1
  BY DEF Update
<1>6. truth'[c]["readInbox"] = Unread(c) + 1
  <2>1. arrived'[c] - read'[c] = Unread(c) + 1
    BY <1>1, <1>2, <1>3 DEF Unread, ServerTypes
  <2> QED BY <2>1, TruthFactsNext
<1>7. Alters("readInbox", c)
  <2>1. \A d \in Chats : d # c => arrived'[d] = arrived[d]
    BY <1>1, <1>2 DEF ServerTypes
  <2>2. Touches("readInbox", c)
    BY <1>1, <2>1 DEF Touches
  <2> QED BY <2>2, TruthChanges
<1> HIDE DEF e1, e2, e3
<1>8. /\ es \in Seq(UpdateType) /\ Len(es) = 3
      /\ es[1] = e1 /\ es[2] = e2 /\ es[3] = e3
  BY <1>4
<1> HIDE DEF es
<1>9. Follows(inbox', inbox, es)
  BY <1>1, <1>2, <1>8, ConcatFollows
<1>10. TellsTruth(truth, truth', es)
  <2>1. \A kind \in Kinds, d \in Chats :
          \/ truth'[d][kind] = truth[d][kind]
          \/ \E j \in 1..Len(es) : es[j].kind = kind /\ es[j].chat = d
    <3>1. 2 \in 1..Len(es) /\ es[2].kind = "readInbox" /\ es[2].chat = c
      BY <1>5, <1>8
    <3> QED BY <1>7, <3>1 DEF Alters
  <2>2. ASSUME NEW j \in 1..Len(es)
        PROVE  /\ es[j].kind \in Kinds => es[j].value = truth'[es[j].chat][es[j].kind]
               /\ es[j].kind # "chat"
    <3>1. j = 1 \/ j = 2 \/ j = 3
      BY <1>8
    <3> QED BY <1>5, <1>6, <1>8, <3>1 DEF Kinds
  <2> QED BY <2>1, <2>2 DEF TellsTruth
<1> QED BY <1>1, <1>9, <1>10, CurrentSent DEF HasRow

LEMMA SendOneCurrent ==
  ASSUME Inv, Current, NEW e \in UpdateType, inbox' \in Seq(UpdateType),
         Follows(inbox', inbox, <<e>>), rows' = rows,
         Alters(e.kind, e.chat),
         e.kind \in Kinds => e.value = truth'[e.chat][e.kind],
         e.kind = "chat" => \A kind \in Kinds : Field(e.value, kind) = truth'[e.chat][kind]
  PROVE  Current'
<1> DEFINE es == <<e>>
<1>1. Len(es) = 1 /\ es[1] = e
  OBVIOUS
<1>2. Follows(inbox', inbox, es)
  OBVIOUS
<1> HIDE DEF es
<1>3. \A j \in 1..Len(es) : es[j] = e
  BY <1>1
<1>4. 1 \in 1..Len(es)
  BY <1>1
<1>5. TellsTruth(truth, truth', es)
  BY <1>1, <1>3, <1>4 DEF TellsTruth, Alters
<1> QED BY <1>2, <1>5, CurrentSent DEF HasRow

LEMMA EnvironmentCurrent ==
  ASSUME Inv, Current, Environment
  PROVE  Current'
<1>1. PICK c \in Chats : \/ MessageArrives(c) \/ ReadElsewhere(c) \/ MentionsChange(c)
                         \/ MuteChanges(c) \/ ListChanges(c)
  BY DEF Environment
<1>2. ServerTypes /\ inbox \in Seq(UpdateType)
  BY DEF Inv, TypeInv, Types, StreamTypes
<1>3. CASE MessageArrives(c)
  BY <1>3, MessageArrivesCurrent
<1>4. CASE ReadElsewhere(c)
  <2> DEFINE e == Update("readInbox", c, 0)
  <2>1. /\ read' = [read EXCEPT ![c] = arrived[c]] /\ inbox' = inbox \o <<e>>
        /\ UNCHANGED <<arrived, mentions, muted, rows>>
    BY <1>4 DEF ReadElsewhere, Push, list
  <2>2. e \in UpdateType
    BY UpdateTypes, CountFacts
  <2>3. e.kind = "readInbox" /\ e.chat = c /\ e.value = 0
    BY DEF Update
  <2> HIDE DEF e
  <2>4. inbox' \in Seq(UpdateType) /\ Follows(inbox', inbox, <<e>>)
    BY <1>2, <2>1, <2>2, OneUpdate, ConcatFollows
  <2>5. truth'[c]["readInbox"] = 0
    <3>1. arrived'[c] - read'[c] = 0
      <4>1. arrived[c] \in Nat
        BY <1>2, CountsOf
      <4> QED BY <1>2, <2>1, <4>1 DEF ServerTypes
    <3> QED BY <3>1, TruthFactsNext
  <2>6. Alters("readInbox", c)
    <3>1. \A d \in Chats : d # c => read'[d] = read[d]
      BY <1>2, <2>1 DEF ServerTypes
    <3>2. Touches("readInbox", c)
      BY <2>1, <3>1 DEF Touches
    <3> QED BY <3>2, TruthChanges
  <2> QED BY <2>1, <2>2, <2>3, <2>4, <2>5, <2>6, SendOneCurrent
<1>5. CASE MentionsChange(c)
  <2> DEFINE e == Update("mentions", c, 1 - mentions[c])
  <2>1. /\ mentions' = [mentions EXCEPT ![c] = 1 - mentions[c]] /\ inbox' = inbox \o <<e>>
        /\ UNCHANGED <<arrived, read, muted, rows>>
    BY <1>5 DEF MentionsChange, Push, list
  <2>2. e \in UpdateType
    <3>1. 1 - mentions[c] \in 0..1
      BY <1>2 DEF ServerTypes
    <3> QED BY <3>1, UpdateTypes
  <2>3. e.kind = "mentions" /\ e.chat = c /\ e.value = 1 - mentions[c]
    BY DEF Update
  <2> HIDE DEF e
  <2>4. inbox' \in Seq(UpdateType) /\ Follows(inbox', inbox, <<e>>)
    BY <1>2, <2>1, <2>2, OneUpdate, ConcatFollows
  <2>5. truth'[c]["mentions"] = 1 - mentions[c]
    BY <1>2, <2>1, TruthFactsNext DEF ServerTypes
  <2>6. Alters("mentions", c)
    <3>1. \A d \in Chats : d # c => mentions'[d] = mentions[d]
      BY <1>2, <2>1 DEF ServerTypes
    <3>2. Touches("mentions", c)
      BY <2>1, <3>1 DEF Touches
    <3> QED BY <3>2, TruthChanges
  <2> QED BY <2>1, <2>2, <2>3, <2>4, <2>5, <2>6, SendOneCurrent
<1>6. CASE MuteChanges(c)
  <2> DEFINE e == Update("settings", c, ~muted[c])
  <2>1. /\ muted' = [muted EXCEPT ![c] = ~muted[c]] /\ inbox' = inbox \o <<e>>
        /\ UNCHANGED <<arrived, read, mentions, rows>>
    BY <1>6 DEF MuteChanges, Push, list
  <2>2. e \in UpdateType
    BY UpdateTypes
  <2>3. e.kind = "settings" /\ e.chat = c /\ e.value = ~muted[c]
    BY DEF Update
  <2> HIDE DEF e
  <2>4. inbox' \in Seq(UpdateType) /\ Follows(inbox', inbox, <<e>>)
    BY <1>2, <2>1, <2>2, OneUpdate, ConcatFollows
  <2>5. truth'[c]["settings"] = ~muted[c]
    <3>1. muted'[c] = ~muted[c]
      BY <1>2, <2>1 DEF ServerTypes
    <3> QED BY <3>1, TruthFactsNext
  <2>6. Alters("settings", c)
    <3>1. \A d \in Chats : d # c => muted'[d] = muted[d]
      BY <1>2, <2>1 DEF ServerTypes
    <3>2. Touches("settings", c)
      BY <2>1, <3>1 DEF Touches
    <3> QED BY <3>2, TruthChanges
  <2> QED BY <2>1, <2>2, <2>3, <2>4, <2>5, <2>6, SendOneCurrent
<1>7. CASE ListChanges(c)
  <2> DEFINE e == Update("order", c, ~listed[c])
  <2>1. /\ inbox' = inbox \o <<e>> /\ UNCHANGED <<arrived, read, mentions, muted, rows>>
    BY <1>7 DEF ListChanges, Push, list
  <2>2. e \in UpdateType /\ e.kind = "order"
    BY UpdateTypes DEF Update
  <2> HIDE DEF e
  <2>3. inbox' \in Seq(UpdateType) /\ Follows(inbox', inbox, <<e>>)
    BY <1>2, <2>1, <2>2, OneUpdate, ConcatFollows
  <2>4. truth' = truth
    BY <2>1 DEF truth, Unread
  <2>5. e.kind \notin Kinds /\ e.kind # "chat"
    BY <2>2 DEF Kinds
  <2>6. Alters(e.kind, e.chat)
    BY <2>4 DEF Alters
  <2> QED BY <2>1, <2>2, <2>3, <2>5, <2>6, SendOneCurrent
<1> QED BY <1>1, <1>3, <1>4, <1>5, <1>6, <1>7

LEMMA AnswersCurrent ==
  ASSUME Inv, Current, Answers
  PROVE  Current'
<1> DEFINE request == Head(requests)
           c == request.chat
<1>1. /\ ServerTypes /\ inbox \in Seq(UpdateType)
      /\ UNCHANGED <<arrived, mentions, muted, listed, rows>>
  BY DEF Inv, TypeInv, Types, StreamTypes, Answers, list
<1>2. c \in Chats /\ request.value \in Counts /\ request.value \in Nat
  BY RequestFacts, CountFacts
<1>3. CASE read' = read /\ inbox' = inbox
  <2>1. Follows(inbox', inbox, <<>>) /\ Len(<<>>) = 0
    BY <1>1, <1>3, NothingFollows
  <2>2. truth' = truth
    BY <1>1, <1>3 DEF truth, Unread
  <2>3. TellsTruth(truth, truth', <<>>)
    BY <2>1, <2>2 DEF TellsTruth
  <2> QED BY <1>1, <2>1, <2>3, CurrentSent DEF HasRow
<1>4. CASE request.kind = "viewMessages" /\ request.value > read[c]
  <2> DEFINE e == Update("readInbox", c, arrived[c] - request.value)
  <2>1. read' = [read EXCEPT ![c] = request.value] /\ inbox' = Append(inbox, e)
    BY <1>4 DEF Answers
  <2>2. arrived[c] - request.value \in Counts
    <3>1. request.value <= arrived[c]
      BY <1>4, RequestFacts DEF GoodRequest
    <3>2. arrived[c] \in Counts /\ arrived[c] \in Nat
      BY <1>1, <1>2, CountsOf
    <3> QED BY <1>2, <3>1, <3>2, CountFacts DEF Counts
  <2>3. e \in UpdateType
    BY <1>2, <2>2, UpdateTypes
  <2>4. e.kind = "readInbox" /\ e.chat = c /\ e.value = arrived[c] - request.value
    BY DEF Update
  <2> HIDE DEF e
  <2>5. inbox' \in Seq(UpdateType) /\ Follows(inbox', inbox, <<e>>)
    BY <1>1, <2>1, <2>3, AppendFollows
  <2>6. truth'[c]["readInbox"] = arrived[c] - request.value
    <3>1. arrived'[c] = arrived[c] /\ read'[c] = request.value
      BY <1>1, <1>2, <2>1 DEF ServerTypes
    <3> QED BY <1>2, <3>1, TruthFactsNext
  <2>7. Alters("readInbox", c)
    <3> HIDE DEF c
    <3>1. \A d \in Chats : d # c => read'[d] = read[d]
      BY <1>1, <2>1 DEF ServerTypes
    <3>2. Touches("readInbox", c)
      BY <1>2, <1>1, <3>1 DEF Touches
    <3> QED BY <1>2, <3>2, TruthChanges
  <2> QED BY <1>1, <2>3, <2>4, <2>5, <2>6, <2>7, SendOneCurrent
<1>5. ASSUME read' = read, NEW e \in UpdateType, inbox' = Append(inbox, e), e.kind \notin Kinds,
             e.kind = "chat" => \A kind \in Kinds : Field(e.value, kind) = truth[e.chat][kind]
      PROVE  Current'
  <2>1. inbox' \in Seq(UpdateType) /\ Follows(inbox', inbox, <<e>>)
    BY <1>1, <1>5, AppendFollows
  <2>2. truth' = truth
    BY <1>1, <1>5 DEF truth, Unread
  <2>3. Alters(e.kind, e.chat)
    BY <2>2 DEF Alters
  <2>4. e.kind = "chat" => \A kind \in Kinds : Field(e.value, kind) = truth'[e.chat][kind]
    BY <1>5, <2>2
  <2> QED BY <1>1, <1>5, <2>1, <2>3, <2>4, SendOneCurrent
<1>6. CASE request.kind = "getChat"
  <2> DEFINE row == Row(Unread(c), mentions[c], muted[c], arrived[c])
             e == Update("chat", c, row)
  <2>1. inbox' = Append(inbox, e) /\ read' = read
    BY <1>6 DEF Answers
  <2>2. /\ Unread(c) \in Counts /\ arrived[c] \in Counts
        /\ mentions[c] \in 0..1 /\ muted[c] \in BOOLEAN
    BY <1>1, <1>2, CountsOf DEF ServerTypes
  <2> HIDE DEF c
  <2>3. /\ row \in RowType /\ row.unread_count = Unread(c)
        /\ row.unread_mention_count = mentions[c] /\ row.mute_for = muted[c]
    BY <2>2, RowTypes
  <2> HIDE DEF row
  <2>4. e \in UpdateType
    BY <1>2, <2>3, UpdateTypes
  <2>5. e.kind \notin Kinds /\ e.chat = c /\ e.value = row
    BY DEF Update, Kinds
  <2>6. \A kind \in Kinds : Field(row, kind) = truth[c][kind]
    BY <1>2, <2>3, TruthFacts DEF Field, Kinds
  <2> HIDE DEF e
  <2> QED BY <1>5, <2>1, <2>4, <2>5, <2>6
<1>7. CASE request.kind = "getChats"
  <2>1. PICK page \in SUBSET {d \in Chats : listed[d]} :
          inbox' = Append(inbox, Update("chats", c, page)) /\ read' = read
    BY <1>7 DEF Answers
  <2> DEFINE e == Update("chats", c, page)
  <2>2. page \in SUBSET Chats
    OBVIOUS
  <2>3. e \in UpdateType
    BY <1>2, <2>2, UpdateTypes
  <2>4. e.kind \notin Kinds /\ e.kind # "chat"
    BY DEF Update, Kinds
  <2>5. inbox' = Append(inbox, e)
    BY <2>1
  <2> HIDE DEF e
  <2> QED BY <1>5, <2>1, <2>3, <2>4, <2>5
<1>8. CASE request.kind = "getChatHistory"
  <2> DEFINE e == Update("messages", c, 1..arrived[c])
  <2>1. inbox' = Append(inbox, e) /\ read' = read
    BY <1>8 DEF Answers
  <2>2. c = Open /\ 1..arrived[c] \in SUBSET (1..MaxMessages)
    <3>1. arrived[c] \in Counts
      BY <1>1, <1>2, CountsOf
    <3> QED BY <1>8, <3>1, IdsBelow, RequestFacts DEF GoodRequest
  <2>3. e \in UpdateType
    BY <2>2, UpdateTypes
  <2>4. e.kind \notin Kinds /\ e.kind # "chat"
    BY DEF Update, Kinds
  <2> HIDE DEF e
  <2> QED BY <1>5, <2>1, <2>3, <2>4
<1> QED BY <1>3, <1>4, <1>6, <1>7, <1>8 DEF Answers

\* What the update that is taken says.
LEMMA TakesRight ==
  ASSUME Inv, Current, NEW kind, Consume(kind)
  PROVE  /\ Received = inbox[1] /\ Received.kind = kind /\ Received.chat \in Chats
         /\ Received \in UpdateType
         /\ Right(truth, inbox, 1)
BY ConsumeTakes, Takes DEF Inv, TypeInv, Current

\* Another kind of update that leaves the counts of the rows.
LEMMA FreshStays ==
  ASSUME Inv, Current, NEW kind0, Consume(kind0), kind0 \notin Kinds,
         \A c \in Chats : HasRow(c)' =>
           HasRow(c) /\ \A kind \in Kinds : Field(rows'[c], kind) = Field(rows[c], kind)
  PROVE  Fresh
<1>1. inbox[1].kind \notin Kinds
  BY TakesRight
<1> QED BY <1>1 DEF Fresh

\* An update of a kind that changes its count of its chat, if that has a row.
LEMMA FreshField ==
  ASSUME Inv, Current, NEW kind0 \in Kinds, Consume(kind0), NEW c, c = Received.chat,
         \A d \in Chats : d # c /\ HasRow(d)' => HasRow(d) /\ rows'[d] = rows[d],
         HasRow(c)' => /\ HasRow(c) /\ Field(rows'[c], kind0) = Received.value
                       /\ \A kind \in Kinds \ {kind0} : Field(rows'[c], kind) = Field(rows[c], kind)
  PROVE  Fresh
<1>1. Received = inbox[1] /\ Received.kind = kind0 /\ c \in Chats /\ Right(truth, inbox, 1)
  BY TakesRight
<1>2. Says(truth, inbox, Received.value, kind0, c, 1)
  BY <1>1 DEF Right
<1>3. inbox[1].kind = kind0 /\ inbox[1].chat = c
  BY <1>1
<1> SUFFICES ASSUME NEW d \in Chats, HasRow(d)', NEW kind \in Kinds
             PROVE  \/ /\ HasRow(d) /\ Field(rows'[d], kind) = Field(rows[d], kind)
                       /\ ~(inbox[1].kind = kind /\ inbox[1].chat = d)
                    \/ Says(truth, inbox, Field(rows'[d], kind), kind, d, 1)
  BY DEF Fresh
<1>4. CASE d # c
  BY <1>3, <1>4
<1>5. CASE d = c /\ kind # kind0
  BY <1>3, <1>5
<1>6. CASE d = c /\ kind = kind0
  BY <1>2, <1>6
<1> QED BY <1>4, <1>5, <1>6

LEMMA FieldNames ==
  ASSUME NEW row
  PROVE  /\ Field(row, "readInbox") = row.unread_count
         /\ Field(row, "mentions") = row.unread_mention_count
         /\ Field(row, "settings") = row.mute_for
BY DEF Field

LEMMA FieldsSame ==
  ASSUME NEW row, NEW row2, NEW kind0,
         kind0 = "readInbox" \/ row.unread_count = row2.unread_count,
         kind0 = "mentions" \/ row.unread_mention_count = row2.unread_mention_count,
         kind0 = "settings" \/ row.mute_for = row2.mute_for
  PROVE  \A kind \in Kinds \ {kind0} : Field(row, kind) = Field(row2, kind)
<1> SUFFICES ASSUME NEW kind \in Kinds \ {kind0}
             PROVE  Field(row, kind) = Field(row2, kind)
  OBVIOUS
<1>1. CASE kind = "readInbox"
  BY <1>1, FieldNames
<1>2. CASE kind = "mentions"
  BY <1>2, FieldNames
<1>3. CASE kind = "settings"
  BY <1>3, FieldNames
<1> QED BY <1>1, <1>2, <1>3 DEF Kinds

\* One row is replaced by another that differs in a count.
LEMMA FreshRow ==
  ASSUME Inv, Current, NEW kind0 \in Kinds, Consume(kind0), NEW c, c = Received.chat, HasRow(c),
         NEW row, rows' = [rows EXCEPT ![c] = row], Field(row, kind0) = Received.value,
         \A kind \in Kinds \ {kind0} : Field(row, kind) = Field(rows[c], kind)
  PROVE  Fresh
<1>1. c \in Chats
  BY TakesRight
<1>2. rows'[c] = row /\ \A d \in Chats : d # c => rows'[d] = rows[d]
  BY <1>1 DEF Inv, TypeInv, Types, ListTypes
<1> QED BY <1>1, <1>2, FreshField DEF HasRow

LEMMA FreshNothing ==
  ASSUME Inv, Current, NEW kind0 \in Kinds, Consume(kind0), ~HasRow(Received.chat), rows' = rows
  PROVE  Fresh
BY FreshField DEF HasRow

LEMMA updateChatReadInboxCurrent ==
  ASSUME Inv, Current, updateChatReadInbox
  PROVE  Current'
<1> DEFINE c == Received.chat
           row == [rows[c] EXCEPT !.unread_count = Received.value]
<1>1. Consume("readInbox") /\ "readInbox" \in Kinds
  BY DEF updateChatReadInbox, Kinds
<1>2. c \in Chats /\ Received.value \in Counts
  BY <1>1, Takes, ValueTypes
<1>3. CASE HasRow(c)
  <2>1. rows' = [rows EXCEPT ![c] = row]
    BY <1>3 DEF updateChatReadInbox, KeepsQuiet, Tells
  <2>2. rows[c] \in RowType
    BY <1>2, <1>3, RowGiven
  <2>3. /\ row.unread_count = Received.value
        /\ row.unread_mention_count = rows[c].unread_mention_count
        /\ row.mute_for = rows[c].mute_for
    BY <2>2 DEF RowType
  <2> HIDE DEF row
  <2>4. Field(row, "readInbox") = Received.value
    BY <2>3, FieldNames
  <2>5. \A kind \in Kinds \ {"readInbox"} : Field(row, kind) = Field(rows[c], kind)
    BY <2>3, FieldsSame
  <2>6. Fresh
    BY <1>1, <1>3, <2>1, <2>4, <2>5, FreshRow
  <2> QED BY <1>1, <2>6, CurrentTaken
<1>4. CASE ~HasRow(c)
  <2>1. rows' = rows
    BY <1>4 DEF updateChatReadInbox, list
  <2> QED BY <1>1, <1>4, <2>1, FreshNothing, CurrentTaken
<1> QED BY <1>3, <1>4

LEMMA updateChatMentionCountCurrent ==
  ASSUME Inv, Current, updateChatMentionCount
  PROVE  Current'
<1> DEFINE c == Received.chat
           row == [rows[c] EXCEPT !.unread_mention_count = Received.value]
<1>1. Consume("mentions") /\ "mentions" \in Kinds
  BY DEF updateChatMentionCount, Kinds
<1>2. c \in Chats /\ Received.value \in 0..1
  BY <1>1, Takes, ValueTypes
<1>3. CASE HasRow(c)
  <2>1. rows' = [rows EXCEPT ![c] = row]
    BY <1>3 DEF updateChatMentionCount, Tells
  <2>2. rows[c] \in RowType
    BY <1>2, <1>3, RowGiven
  <2>3. /\ row.unread_mention_count = Received.value
        /\ row.unread_count = rows[c].unread_count
        /\ row.mute_for = rows[c].mute_for
    BY <2>2 DEF RowType
  <2> HIDE DEF row
  <2>4. Field(row, "mentions") = Received.value
    BY <2>3, FieldNames
  <2>5. \A kind \in Kinds \ {"mentions"} : Field(row, kind) = Field(rows[c], kind)
    BY <2>3, FieldsSame
  <2>6. Fresh
    BY <1>1, <1>3, <2>1, <2>4, <2>5, FreshRow
  <2> QED BY <1>1, <2>6, CurrentTaken
<1>4. CASE ~HasRow(c)
  <2>1. rows' = rows
    BY <1>4 DEF updateChatMentionCount, list
  <2> QED BY <1>1, <1>4, <2>1, FreshNothing, CurrentTaken
<1> QED BY <1>3, <1>4

LEMMA updateChatNotificationSettingsCurrent ==
  ASSUME Inv, Current, updateChatNotificationSettings
  PROVE  Current'
<1> DEFINE c == Received.chat
           row == [rows[c] EXCEPT !.mute_for = Received.value]
<1>1. Consume("settings") /\ "settings" \in Kinds
  BY DEF updateChatNotificationSettings, Kinds
<1>2. c \in Chats /\ Received.value \in BOOLEAN
  BY <1>1, Takes, ValueTypes
<1>3. CASE HasRow(c)
  <2>1. rows' = [rows EXCEPT ![c] = row]
    BY <1>3 DEF updateChatNotificationSettings, KeepsQuiet
  <2>2. rows[c] \in RowType
    BY <1>2, <1>3, RowGiven
  <2>3. /\ row.mute_for = Received.value
        /\ row.unread_count = rows[c].unread_count
        /\ row.unread_mention_count = rows[c].unread_mention_count
    BY <2>2 DEF RowType
  <2> HIDE DEF row
  <2>4. Field(row, "settings") = Received.value
    BY <2>3, FieldNames
  <2>5. \A kind \in Kinds \ {"settings"} : Field(row, kind) = Field(rows[c], kind)
    BY <2>3, FieldsSame
  <2>6. Fresh
    BY <1>1, <1>3, <2>1, <2>4, <2>5, FreshRow
  <2> QED BY <1>1, <2>6, CurrentTaken
<1>4. CASE ~HasRow(c)
  <2>1. rows' = rows
    BY <1>4 DEF updateChatNotificationSettings, list
  <2> QED BY <1>1, <1>4, <2>1, FreshNothing, CurrentTaken
<1> QED BY <1>3, <1>4

LEMMA CurrentUnlessRows ==
  ASSUME Inv, Current, NEW kind0, Consume(kind0), kind0 \notin Kinds, rows' = rows
  PROVE  Current'
<1>1. Fresh
  BY FreshStays DEF HasRow
<1> QED BY <1>1, CurrentTaken

LEMMA updateChatLastMessageCurrent ==
  ASSUME Inv, Current, updateChatLastMessage
  PROVE  Current'
<1> DEFINE c == Received.chat
           row == [rows[c] EXCEPT !.last_message = Received.value]
<1>1. Consume("lastMessage") /\ "lastMessage" \notin Kinds
  BY DEF updateChatLastMessage, Kinds
<1>2. c \in Chats /\ Received.value \in Counts
  BY <1>1, Takes, ValueTypes
<1>3. CASE HasRow(c)
  <2>1. rows' = [rows EXCEPT ![c] = row]
    BY <1>3 DEF updateChatLastMessage, KeepsQuiet
  <2>2. rows[c] \in RowType
    BY <1>2, <1>3, RowGiven
  <2>3. /\ row.mute_for = rows[c].mute_for
        /\ row.unread_count = rows[c].unread_count
        /\ row.unread_mention_count = rows[c].unread_mention_count
    BY <2>2 DEF RowType
  <2> HIDE DEF row
  <2>4. \A kind \in Kinds : Field(row, kind) = Field(rows[c], kind)
    <3>1. Kinds \ {"none"} = Kinds
      BY DEF Kinds
    <3> QED BY <2>3, <3>1, FieldsSame
  <2>5. rows'[c] = row /\ \A d \in Chats : d # c => rows'[d] = rows[d]
    BY <1>2, <2>1 DEF Inv, TypeInv, Types, ListTypes
  <2>6. Fresh
    <3> HIDE DEF c
    <3>1. \A d \in Chats : HasRow(d)' =>
            HasRow(d) /\ \A kind \in Kinds : Field(rows'[d], kind) = Field(rows[d], kind)
      BY <1>3, <2>4, <2>5 DEF HasRow
    <3> QED BY <1>1, <3>1, FreshStays
  <2> QED BY <1>1, <2>6, CurrentTaken
<1>4. CASE ~HasRow(c)
  <2>1. rows' = rows
    BY <1>4 DEF updateChatLastMessage, list
  <2> QED BY <1>1, <2>1, CurrentUnlessRows
<1> QED BY <1>3, <1>4

LEMMA updateChatOrderCurrent ==
  ASSUME Inv, Current, updateChatOrder
  PROVE  Current'
<1> DEFINE c == Received.chat
<1>1. Consume("order") /\ "order" \notin Kinds
  BY DEF updateChatOrder, Kinds
<1>2. CASE rows' = rows
  BY <1>1, <1>2, CurrentUnlessRows
<1>3. CASE rows' = [rows EXCEPT ![c] = NoRow]
  <2>1. c \in Chats
    BY <1>1, Takes
  <2> HIDE DEF c
  <2>2. rows'[c] = NoRow /\ \A d \in Chats : d # c => rows'[d] = rows[d]
    BY <1>3, <2>1 DEF Inv, TypeInv, Types, ListTypes
  <2>3. \A d \in Chats : HasRow(d)' => HasRow(d) /\ rows'[d] = rows[d]
    BY <2>2, RowTypes DEF HasRow
  <2>4. Fresh
    BY <1>1, <2>3, FreshStays
  <2> QED BY <1>1, <2>4, CurrentTaken
<1> QED BY <1>2, <1>3 DEF updateChatOrder, KeepsQuiet, list

LEMMA addChatCurrent ==
  ASSUME Inv, Current, addChat
  PROVE  Current'
<1> DEFINE c == Received.chat
<1>1. Consume("chat") /\ "chat" \notin Kinds
  BY DEF addChat, Kinds
<1>2. CASE rows' = rows
  BY <1>1, <1>2, CurrentUnlessRows
<1>3. CASE rows' = [rows EXCEPT ![c] = Received.value]
  <2>1. Received = inbox[1] /\ Received.kind = "chat" /\ c \in Chats /\ Right(truth, inbox, 1)
    BY <1>1, TakesRight
  <2>2. RowSays(truth, inbox, Received.value, c, 1)
    BY <2>1 DEF Right
  <2>3. inbox[1].kind \notin Kinds
    BY <1>1, <2>1
  <2> HIDE DEF c
  <2>4. rows'[c] = Received.value /\ \A d \in Chats : d # c => rows'[d] = rows[d]
    BY <1>3, <2>1 DEF Inv, TypeInv, Types, ListTypes
  <2>5. \A d \in Chats : d # c /\ HasRow(d)' => HasRow(d) /\ rows'[d] = rows[d]
    BY <2>4 DEF HasRow
  <2>6. Fresh
    BY <2>2, <2>3, <2>4, <2>5 DEF Fresh, RowSays
  <2> QED BY <1>1, <2>6, CurrentTaken
<1> QED BY <1>2, <1>3 DEF addChat, KeepsQuiet, list

LEMMA HandleCurrent ==
  ASSUME Inv, Current, Handle
  PROVE  Current'
<1>1. CASE addChats
  <2>1. Consume("chats") /\ "chats" \notin Kinds /\ rows' = rows
    BY <1>1 DEF addChats, Kinds, list
  <2> QED BY <2>1, CurrentUnlessRows
<1>2. CASE addMessages
  <2>1. Consume("messages") /\ "messages" \notin Kinds /\ rows' = rows
    BY <1>2 DEF addMessages, Kinds, list
  <2> QED BY <2>1, CurrentUnlessRows
<1>3. CASE addMessageFromUpdate
  <2>1. Consume("newMessage") /\ "newMessage" \notin Kinds /\ rows' = rows
    BY <1>3 DEF addMessageFromUpdate, Kinds, list
  <2> QED BY <2>1, CurrentUnlessRows
<1> QED BY <1>1, <1>2, <1>3, updateChatReadInboxCurrent, updateChatMentionCountCurrent,
           updateChatNotificationSettingsCurrent, updateChatLastMessageCurrent,
           updateChatOrderCurrent, addChatCurrent DEF Handle

-----------------------------------------------------------------------------
(* A chat that ChatsModel was told of and that has no row has one under way. *)

Brings(e, c) == e.kind = "chat" /\ e.chat = c
AskedFor(r, c) == r.kind = "getChat" /\ r.chat = c
UnderWay(s, c) == \E k \in 1..Len(s) : Brings(s[k], c)
Asked(q, c) == \E i \in 1..Len(q) : AskedFor(q[i], c)
Listed ==
  \A c \in announced \cap Chats : HasRow(c) \/ UnderWay(inbox, c) \/ Asked(requests, c)

LEMMA StaysUnderWay ==
  ASSUME NEW s, NEW u, NEW es, Follows(u, s, es), NEW c
  PROVE  /\ UnderWay(s, c) => UnderWay(u, c)
         /\ \A j \in 1..Len(es) : Brings(es[j], c) => UnderWay(u, c)
<1>1. /\ Len(s) \in Nat /\ Len(es) \in Nat /\ Len(u) = Len(s) + Len(es)
      /\ \A k \in 1..Len(s) : u[k] = s[k]
      /\ \A k \in 1..Len(es) : u[Len(s) + k] = es[k]
  BY DEF Follows
<1>2. \A k \in 1..Len(s) : k \in 1..Len(u)
  BY <1>1
<1>3. \A k \in 1..Len(es) : Len(s) + k \in 1..Len(u)
  BY <1>1
<1> QED BY <1>1, <1>2, <1>3 DEF UnderWay

LEMMA StaysAsked ==
  ASSUME NEW q, NEW p, NEW rs, Follows(p, q, rs), NEW c
  PROVE  /\ Asked(q, c) => Asked(p, c)
         /\ \A j \in 1..Len(rs) : AskedFor(rs[j], c) => Asked(p, c)
<1>1. /\ Len(q) \in Nat /\ Len(rs) \in Nat /\ Len(p) = Len(q) + Len(rs)
      /\ \A k \in 1..Len(q) : p[k] = q[k]
      /\ \A k \in 1..Len(rs) : p[Len(q) + k] = rs[k]
  BY DEF Follows
<1>2. \A k \in 1..Len(q) : k \in 1..Len(p)
  BY <1>1
<1>3. \A k \in 1..Len(rs) : Len(q) + k \in 1..Len(p)
  BY <1>1
<1> QED BY <1>1, <1>2, <1>3 DEF Asked

\* TDLib sends es.
LEMMA ListedSent ==
  ASSUME Listed, UNCHANGED <<rows, announced>>, NEW es, Follows(inbox', inbox, es),
         \A c \in Chats : Asked(requests, c) =>
           Asked(requests', c) \/ \E j \in 1..Len(es) : Brings(es[j], c)
  PROVE  Listed'
<1> SUFFICES ASSUME NEW c \in announced \cap Chats
             PROVE  rows[c].counted \/ UnderWay(inbox', c) \/ Asked(requests', c)
  BY DEF Listed, HasRow
<1>1. rows[c].counted \/ UnderWay(inbox, c) \/ Asked(requests, c)
  BY DEF Listed, HasRow
<1> QED BY <1>1, StaysUnderWay

\* The client asks for more, and no row goes.
LEMMA ListedAsked ==
  ASSUME Listed, UNCHANGED <<announced, inbox>>, \A c \in Chats : HasRow(c) => HasRow(c)',
         NEW rs, Follows(requests', requests, rs)
  PROVE  Listed'
BY StaysAsked DEF Listed

\* A handler takes an update.
LEMMA ListedTaken ==
  ASSUME Inv, Listed, NEW kind, Consume(kind), AsksQuietly,
         \A c \in Chats : HasRow(c) => HasRow(c)' \/ c \in Leaving(inbox[1]) \ Enters(inbox[1]),
         \A c \in Chats : Brings(inbox[1], c) \/ c \in Enters(inbox[1]) =>
           HasRow(c)' \/ Asked(requests', c)
  PROVE  Listed'
<1>1. /\ Rest(inbox', inbox) /\ Received = inbox[1]
      /\ Len(inbox) \in Nat /\ Len(inbox) >= 1 /\ Len(inbox') = Len(inbox) - 1
  BY ConsumeTakes, Takes DEF Inv, TypeInv, Rest
<1>2. announced' = (announced \ Leaving(inbox[1])) \cup Enters(inbox[1])
  BY <1>1 DEF Consume
<1> SUFFICES ASSUME NEW c \in announced' \cap Chats
             PROVE  HasRow(c)' \/ UnderWay(inbox', c) \/ Asked(requests', c)
  BY DEF Listed
<1>3. CASE c \in Enters(inbox[1])
  BY <1>3
<1>4. CASE c \in announced /\ c \notin Leaving(inbox[1])
  <2>1. CASE HasRow(c)
    BY <1>4, <2>1
  <2>2. CASE UnderWay(inbox, c)
    <3>1. PICK k \in 1..Len(inbox) : Brings(inbox[k], c)
      BY <2>2 DEF UnderWay
    <3>2. CASE k = 1
      BY <3>1, <3>2
    <3>3. CASE k # 1
      <4>1. /\ k - 1 \in 1..Len(inbox') /\ (k - 1) + 1 = k
            /\ inbox'[k - 1] = inbox[(k - 1) + 1]
        BY <1>1, <3>3 DEF Rest
      <4> QED BY <3>1, <4>1 DEF UnderWay
    <3> QED BY <3>2, <3>3
  <2>3. CASE Asked(requests, c)
    BY <2>3, StaysAsked DEF AsksQuietly
  <2> QED BY <1>4, <2>1, <2>2, <2>3 DEF Listed
<1> QED BY <1>2, <1>3, <1>4

\* An update that brings no row and takes none.
LEMMA ListedUnlessRows ==
  ASSUME Inv, Listed, NEW kind, Consume(kind),
         kind \notin {"order", "lastMessage", "chat", "chats"}, AsksQuietly,
         \A c \in Chats : HasRow(c) => HasRow(c)'
  PROVE  Listed'
<1>1. inbox[1].kind = kind
  BY ConsumeTakes DEF Inv, TypeInv
<1>2. \A c \in Chats : ~Brings(inbox[1], c) /\ c \notin Enters(inbox[1])
  BY <1>1 DEF Brings, Enters
<1> QED BY <1>2, ListedTaken

\* A change of a field takes no row.
LEMMA FieldKeepsRow ==
  ASSUME Inv, NEW c \in Chats, NEW row \in RowType, rows' = [rows EXCEPT ![c] = row]
  PROVE  \A d \in Chats : HasRow(d) => HasRow(d)'
<1>1. rows'[c] = row /\ \A d \in Chats : d # c => rows'[d] = rows[d]
  BY DEF Inv, TypeInv, Types, ListTypes
<1>2. row.counted
  BY RowTypes
<1> QED BY <1>1, <1>2 DEF HasRow

LEMMA GetChatAsked ==
  ASSUME Inv, NEW c \in Chats, getChat(c)
  PROVE  Asked(requests', c)
<1> DEFINE r == Request("getChat", c, 0)
<1>1. r \in RequestType /\ r.kind = "getChat" /\ r.chat = c
  BY RequestTypes, CountFacts DEF Request
<1>2. requests' = Append(requests, r)
  BY DEF getChat
<1> HIDE DEF r
<1>3. Follows(requests', requests, <<r>>)
  BY <1>1, <1>2, AppendFollows DEF Inv, TypeInv, Types, StreamTypes
<1>4. 1 \in 1..Len(<<r>>) /\ <<r>>[1] = r
  OBVIOUS
<1>5. AskedFor(<<r>>[1], c)
  BY <1>1, <1>4 DEF AskedFor
<1> QED BY <1>3, <1>4, <1>5, StaysAsked

LEMMA HandleListed ==
  ASSUME Inv, Listed, Handle
  PROVE  Listed'
<1> DEFINE c == Received.chat
<1> USE DEF Handle
<1>1. CASE updateChatReadInbox
  <2> DEFINE row == [rows[c] EXCEPT !.unread_count = Received.value]
  <2>1. Consume("readInbox") /\ requests' = requests
    BY <1>1 DEF updateChatReadInbox
  <2>2. \A d \in Chats : HasRow(d) => HasRow(d)'
    <3>1. c \in Chats /\ Received.value \in Counts
      BY <2>1, Takes, ValueTypes
    <3>2. CASE HasRow(c)
      <4>1. rows' = [rows EXCEPT ![c] = row]
        BY <1>1, <3>2 DEF updateChatReadInbox, KeepsQuiet, Tells
      <4>2. rows[c] \in RowType
        BY <3>1, <3>2, RowGiven
      <4>3. row \in RowType
        BY <3>1, <4>2 DEF RowType
      <4> HIDE DEF row, c
      <4> QED BY <3>1, <4>1, <4>3, FieldKeepsRow
    <3>3. CASE ~HasRow(c)
      BY <1>1, <3>3 DEF updateChatReadInbox, list, HasRow
    <3> QED BY <3>2, <3>3
  <2>3. AsksQuietly
    BY <2>1, AskNothing DEF Inv, TypeInv, Types
  <2> QED BY <2>1, <2>2, <2>3, ListedUnlessRows
<1>2. CASE updateChatMentionCount
  <2> DEFINE row == [rows[c] EXCEPT !.unread_mention_count = Received.value]
  <2>1. Consume("mentions") /\ requests' = requests
    BY <1>2 DEF updateChatMentionCount
  <2>2. \A d \in Chats : HasRow(d) => HasRow(d)'
    <3>1. c \in Chats /\ Received.value \in 0..1
      BY <2>1, Takes, ValueTypes
    <3>2. CASE HasRow(c)
      <4>1. rows' = [rows EXCEPT ![c] = row]
        BY <1>2, <3>2 DEF updateChatMentionCount, Tells
      <4>2. rows[c] \in RowType
        BY <3>1, <3>2, RowGiven
      <4>3. row \in RowType
        BY <3>1, <4>2 DEF RowType
      <4> HIDE DEF row, c
      <4> QED BY <3>1, <4>1, <4>3, FieldKeepsRow
    <3>3. CASE ~HasRow(c)
      BY <1>2, <3>3 DEF updateChatMentionCount, list, HasRow
    <3> QED BY <3>2, <3>3
  <2>3. AsksQuietly
    BY <2>1, AskNothing DEF Inv, TypeInv, Types
  <2> QED BY <2>1, <2>2, <2>3, ListedUnlessRows
<1>3. CASE updateChatNotificationSettings
  <2> DEFINE row == [rows[c] EXCEPT !.mute_for = Received.value]
  <2>1. Consume("settings") /\ requests' = requests
    BY <1>3 DEF updateChatNotificationSettings
  <2>2. \A d \in Chats : HasRow(d) => HasRow(d)'
    <3>1. c \in Chats /\ Received.value \in BOOLEAN
      BY <2>1, Takes, ValueTypes
    <3>2. CASE HasRow(c)
      <4>1. rows' = [rows EXCEPT ![c] = row]
        BY <1>3, <3>2 DEF updateChatNotificationSettings, KeepsQuiet
      <4>2. rows[c] \in RowType
        BY <3>1, <3>2, RowGiven
      <4>3. row \in RowType
        BY <3>1, <4>2 DEF RowType
      <4> HIDE DEF row, c
      <4> QED BY <3>1, <4>1, <4>3, FieldKeepsRow
    <3>3. CASE ~HasRow(c)
      BY <1>3, <3>3 DEF updateChatNotificationSettings, list, HasRow
    <3> QED BY <3>2, <3>3
  <2>3. AsksQuietly
    BY <2>1, AskNothing DEF Inv, TypeInv, Types
  <2> QED BY <2>1, <2>2, <2>3, ListedUnlessRows
<1>4. CASE updateChatLastMessage
  <2> DEFINE row == [rows[c] EXCEPT !.last_message = Received.value]
  <2>1. Consume("lastMessage")
    BY <1>4 DEF updateChatLastMessage
  <2>2. /\ c \in Chats /\ Received.value \in Counts
        /\ Received = inbox[1] /\ inbox[1].kind = "lastMessage" /\ c = inbox[1].chat
    BY <2>1, ConsumeTakes, Takes, ValueTypes DEF Inv, TypeInv
  <2>3. \A d \in Chats : Brings(inbox[1], d) \/ d \in Enters(inbox[1]) => d = c
    BY <2>2 DEF Brings, Enters
  <2>4. CASE HasRow(c)
    <3>1. rows' = [rows EXCEPT ![c] = row] /\ requests' = requests
      BY <1>4, <2>4 DEF updateChatLastMessage, KeepsQuiet
    <3>2. rows[c] \in RowType
      BY <2>2, <2>4, RowGiven
    <3>3. row \in RowType
      BY <2>2, <3>2 DEF RowType
    <3> HIDE DEF row, c
    <3>4. \A d \in Chats : HasRow(d) => HasRow(d)'
      BY <2>2, <3>1, <3>3, FieldKeepsRow
    <3>5. AsksQuietly
      BY <3>1, AskNothing DEF Inv, TypeInv, Types
    <3>6. \A d \in Chats : Brings(inbox[1], d) \/ d \in Enters(inbox[1]) => HasRow(d)'
      BY <2>3, <2>4, <3>4
    <3> QED BY <2>1, <3>4, <3>5, <3>6, ListedTaken
  <2>5. CASE ~HasRow(c)
    <3>1. getChat(c) /\ rows' = rows
      BY <1>4, <2>5 DEF updateChatLastMessage, list
    <3> HIDE DEF c
    <3>2. AsksQuietly /\ Asked(requests', c)
      BY <2>2, <3>1, GetChatAsks, GetChatAsked
    <3>3. \A d \in Chats : HasRow(d) => HasRow(d)'
      BY <3>1 DEF HasRow
    <3>4. \A d \in Chats : Brings(inbox[1], d) \/ d \in Enters(inbox[1]) => Asked(requests', d)
      BY <2>3, <3>2
    <3> QED BY <2>1, <3>2, <3>3, <3>4, ListedTaken
  <2> QED BY <2>4, <2>5
<1>5. CASE updateChatOrder
  <2>1. Consume("order")
    BY <1>5 DEF updateChatOrder
  <2>2. Received = inbox[1] /\ inbox[1].kind = "order" /\ c \in Chats /\ c = inbox[1].chat
    BY <2>1, ConsumeTakes, Takes DEF Inv, TypeInv
  <2>3. /\ \A d \in Chats : Brings(inbox[1], d) \/ d \in Enters(inbox[1]) =>
             d = c /\ Received.value
        /\ ~Received.value => c \in Leaving(inbox[1]) \ Enters(inbox[1])
    BY <2>2 DEF Brings, Enters, Leaving
  <2>4. CASE Received.value /\ ~HasRow(c) /\ getChat(c) /\ UNCHANGED list
    <3> HIDE DEF c
    <3>1. AsksQuietly /\ Asked(requests', c)
      BY <2>2, <2>4, GetChatAsks, GetChatAsked
    <3>2. \A d \in Chats : HasRow(d) => HasRow(d)'
      BY <2>4 DEF HasRow, list
    <3> QED BY <2>1, <2>3, <3>1, <3>2, ListedTaken
  <2>5. CASE /\ ~Received.value /\ HasRow(c) /\ rows' = [rows EXCEPT ![c] = NoRow]
             /\ UNCHANGED requests
    <3> HIDE DEF c
    <3>1. \A d \in Chats : d # c => rows'[d] = rows[d]
      BY <2>2, <2>5 DEF Inv, TypeInv, Types, ListTypes
    <3>2. \A d \in Chats :
            HasRow(d) => HasRow(d)' \/ d \in Leaving(inbox[1]) \ Enters(inbox[1])
      BY <2>3, <2>5, <3>1 DEF HasRow
    <3>3. AsksQuietly
      BY <2>5, AskNothing DEF Inv, TypeInv, Types
    <3> QED BY <2>1, <2>3, <2>5, <3>2, <3>3, ListedTaken
  <2>6. CASE Received.value = HasRow(c) /\ UNCHANGED <<requests, list>>
    <3> HIDE DEF c
    <3>1. \A d \in Chats : HasRow(d) => HasRow(d)'
      BY <2>6 DEF HasRow, list
    <3>2. Received.value => rows'[c].counted
      BY <2>2, <2>6 DEF HasRow, list
    <3>3. AsksQuietly
      BY <2>6, AskNothing DEF Inv, TypeInv, Types
    <3>4. \A d \in Chats :
            Brings(inbox[1], d) \/ d \in Enters(inbox[1]) => HasRow(d)' \/ Asked(requests', d)
      BY <2>3, <3>2 DEF HasRow
    <3> QED BY <2>1, <3>1, <3>3, <3>4, ListedTaken
  <2> QED BY <1>5, <2>4, <2>5, <2>6 DEF updateChatOrder, KeepsQuiet
<1>6. CASE addChat
  <2>1. Consume("chat") /\ requests' = requests
    BY <1>6 DEF addChat
  <2>2. /\ Received = inbox[1] /\ inbox[1].kind = "chat" /\ c \in Chats /\ c = inbox[1].chat
        /\ Received.value \in RowType
    BY <2>1, ConsumeTakes, Takes, ValueTypes DEF Inv, TypeInv
  <2>3. \A d \in Chats : Brings(inbox[1], d) \/ d \in Enters(inbox[1]) => d = c
    BY <2>2 DEF Brings, Enters
  <2>4. AsksQuietly
    BY <2>1, AskNothing DEF Inv, TypeInv, Types
  <2>5. (\A d \in Chats : HasRow(d) => HasRow(d)') /\ rows'[c].counted
    <3>1. CASE HasRow(c)
      <4>1. rows' = rows
        BY <1>6, <3>1 DEF addChat, list
      <4> HIDE DEF c
      <4> QED BY <2>2, <3>1, <4>1 DEF HasRow
    <3>2. CASE ~HasRow(c)
      <4>1. rows' = [rows EXCEPT ![c] = Received.value]
        BY <1>6, <3>2 DEF addChat, KeepsQuiet
      <4> HIDE DEF c
      <4>2. \A d \in Chats : HasRow(d) => HasRow(d)'
        BY <2>2, <4>1, FieldKeepsRow
      <4>3. rows'[c] = Received.value
        BY <2>2, <4>1 DEF Inv, TypeInv, Types, ListTypes
      <4> QED BY <2>2, <4>2, <4>3, RowTypes DEF HasRow
    <3> QED BY <3>1, <3>2
  <2> HIDE DEF c
  <2>6. \A d \in Chats : Brings(inbox[1], d) \/ d \in Enters(inbox[1]) => HasRow(d)'
    BY <2>3, <2>5 DEF HasRow
  <2> QED BY <2>1, <2>4, <2>5, <2>6, ListedTaken
<1>7. CASE addChats
  <2>1. Consume("chats") /\ UNCHANGED list
    BY <1>7 DEF addChats
  <2>2. Received = inbox[1] /\ inbox[1].kind = "chats"
    BY <2>1, ConsumeTakes DEF Inv, TypeInv
  <2>3. AsksQuietly
    BY <1>7, addChatsAsks
  <2>4. \A d \in Chats : Brings(inbox[1], d) \/ d \in Enters(inbox[1]) => Asked(requests', d)
    <3> SUFFICES ASSUME NEW d \in Chats, d \in Received.value
                 PROVE  Asked(requests', d)
      BY <2>2 DEF Brings, Enters
    <3>1. PICK i \in 1..Len(requests') : requests'[i].kind = "getChat" /\ requests'[i].chat = d
      BY <1>7, addChatsAsks
    <3> QED BY <3>1 DEF Asked, AskedFor
  <2>5. \A d \in Chats : HasRow(d) => HasRow(d)'
    BY <2>1 DEF HasRow, list
  <2> QED BY <2>1, <2>3, <2>4, <2>5, ListedTaken
<1>8. CASE addMessages
  <2>1. Consume("messages") /\ rows' = rows /\ viewMessages(Received.value, appActive)
    BY <1>8 DEF addMessages, list
  <2>2. Received.value \subseteq 1..arrived[Open] /\ arrived' = arrived
    BY <2>1, Takes DEF GoodUpdate
  <2>3. AsksQuietly
    BY <2>1, <2>2, ViewAsks
  <2>4. \A d \in Chats : HasRow(d) => HasRow(d)'
    BY <2>1 DEF HasRow
  <2> QED BY <2>1, <2>3, <2>4, ListedUnlessRows
<1>9. CASE addMessageFromUpdate
  <2>1. Consume("newMessage") /\ rows' = rows
    BY <1>9 DEF addMessageFromUpdate, list
  <2>2. \A d \in Chats : HasRow(d) => HasRow(d)'
    BY <2>1 DEF HasRow
  <2>3. AsksQuietly
    <3>1. CASE Listening(c)
      <4>1. viewMessages({Received.value}, isActive) /\ c = Open
        BY <1>9, <3>1 DEF addMessageFromUpdate, Listening
      <4>2. Received.value \in 1..arrived[c] /\ arrived' = arrived
        BY <2>1, Takes DEF GoodUpdate
      <4>3. {Received.value} \subseteq 1..arrived[Open]
        BY <4>1, <4>2
      <4> QED BY <4>1, <4>2, <4>3, ViewAsks
    <3>2. CASE ~Listening(c)
      BY <1>9, <3>2, AskNothing DEF addMessageFromUpdate, Inv, TypeInv, Types
    <3> QED BY <3>1, <3>2
  <2> QED BY <2>1, <2>2, <2>3, ListedUnlessRows
<1> QED BY <1>1, <1>2, <1>3, <1>4, <1>5, <1>6, <1>7, <1>8, <1>9

LEMMA UserListed ==
  ASSUME Inv, Listed, User
  PROVE  Listed'
<1>1. requests \in Seq(RequestType)
  BY DEF Inv, TypeInv, Types, StreamTypes
<1>2. CASE reset
  <2>1. announced' = {}
    BY <1>2 DEF reset
  <2> QED BY <2>1 DEF Listed
<1>3. ASSUME UNCHANGED <<announced, inbox, list>>, NEW r \in RequestType,
             requests' = Append(requests, r)
      PROVE  Listed'
  <2>1. Follows(requests', requests, <<r>>)
    BY <1>1, <1>3, AppendFollows
  <2> QED BY <1>3, <2>1, ListedAsked DEF list, HasRow
<1>4. CASE setPeerId
  <2>1. Request("getChatHistory", Open, 0) \in RequestType
    BY RequestTypes, ChatsAssumption, CountFacts
  <2> QED BY <1>3, <1>4, <2>1 DEF setPeerId
<1>5. ASSUME NEW c \in Chats, markAsUnread(c)
      PROVE  Listed'
  <2>1. rows[c].last_message \in Counts
    BY <1>5, RowGiven DEF markAsUnread, RowType
  <2>2. Request("viewMessages", c, rows[c].last_message) \in RequestType
    BY <2>1, RequestTypes
  <2> QED BY <1>3, <1>5, <2>2 DEF markAsUnread
<1>6. CASE ActivityChanges
  <2>1. UNCHANGED <<tdlib, inbox, list, announced>>
    BY <1>6 DEF ActivityChanges
  <2>2. AsksQuietly
    <3>1. CASE isActive' # isActive
      <4>1. viewMessages(IF isActive' THEN unseenMessageIds ELSE {}, appActive')
        BY <1>6, <3>1 DEF ActivityChanges, onActiveChanged
      <4>2. (IF isActive' THEN unseenMessageIds ELSE {}) \subseteq 1..arrived[Open]
        BY DEF Inv, TypeInv, Given
      <4>3. arrived' = arrived
        BY <2>1 DEF tdlib
      <4> QED BY <4>1, <4>2, <4>3, ViewAsks
    <3>2. CASE isActive' = isActive
      BY <1>6, <3>2, AskNothing DEF ActivityChanges, Inv, TypeInv, Types
    <3> QED BY <3>1, <3>2
  <2> QED BY <2>1, <2>2, ListedAsked DEF AsksQuietly, list, HasRow
<1>7. CASE fetchMore
  <2>1. Request("getChats", Open, 0) \in RequestType
    BY RequestTypes, ChatsAssumption, CountFacts
  <2> QED BY <1>3, <1>7, <2>1 DEF fetchMore, getChats
<1>8. CASE otherModelTells
  BY <1>8 DEF otherModelTells, Listed, HasRow
<1> QED BY <1>2, <1>4, <1>5, <1>6, <1>7, <1>8 DEF User

LEMMA EnvironmentListed ==
  ASSUME Inv, Listed, Environment
  PROVE  Listed'
<1>1. PICK c \in Chats : \/ MessageArrives(c) \/ ReadElsewhere(c) \/ MentionsChange(c)
                         \/ MuteChanges(c) \/ ListChanges(c)
  BY DEF Environment
<1>2. /\ inbox \in Seq(UpdateType) /\ ServerTypes /\ c \in Chats
      /\ UNCHANGED <<requests, rows, announced>>
  BY <1>1 DEF Inv, TypeInv, Types, StreamTypes, MessageArrives, ReadElsewhere, MentionsChange,
              MuteChanges, ListChanges, list
<1>3. ASSUME NEW es \in Seq(UpdateType), inbox' = inbox \o es
      PROVE  Listed'
  <2>1. Follows(inbox', inbox, es)
    BY <1>2, <1>3, ConcatFollows
  <2> QED BY <1>2, <2>1, ListedSent
<1>4. ASSUME NEW e \in UpdateType, inbox' = inbox \o <<e>>
      PROVE  Listed'
  BY <1>3, <1>4, OneUpdate
<1>5. CASE MessageArrives(c)
  <2> DEFINE e1 == Update("newMessage", c, arrived[c] + 1)
             e2 == Update("readInbox", c, Unread(c) + 1)
             e3 == Update("lastMessage", c, arrived[c] + 1)
             es == <<e1, e2, e3>>
  <2>1. inbox' = inbox \o es
    BY <1>5 DEF MessageArrives, Push
  <2>2. arrived[c] + 1 \in Counts /\ Unread(c) + 1 \in Counts
    <3>1. arrived[c] \in Nat /\ read[c] \in Nat /\ read[c] <= arrived[c]
      BY <1>2, CountsOf
    <3> QED BY <1>5, <3>1, BoundsAssumption DEF MessageArrives, Unread, Counts
  <2>3. e1 \in UpdateType /\ e2 \in UpdateType /\ e3 \in UpdateType
    BY <1>2, <2>2, UpdateTypes
  <2> HIDE DEF e1, e2, e3
  <2>4. es \in Seq(UpdateType)
    BY <2>3
  <2> HIDE DEF es
  <2> QED BY <1>3, <2>1, <2>4
<1>6. CASE ReadElsewhere(c)
  <2>1. Update("readInbox", c, 0) \in UpdateType
    BY <1>2, UpdateTypes, CountFacts
  <2> QED BY <1>4, <1>6, <2>1 DEF ReadElsewhere, Push
<1>7. CASE MentionsChange(c)
  <2>1. 1 - mentions[c] \in 0..1
    BY <1>2 DEF ServerTypes
  <2>2. Update("mentions", c, 1 - mentions[c]) \in UpdateType
    BY <1>2, <2>1, UpdateTypes
  <2> QED BY <1>4, <1>7, <2>2 DEF MentionsChange, Push
<1>8. CASE MuteChanges(c)
  <2>1. Update("settings", c, ~muted[c]) \in UpdateType
    BY <1>2, UpdateTypes
  <2> QED BY <1>4, <1>8, <2>1 DEF MuteChanges, Push
<1>9. CASE ListChanges(c)
  <2>1. Update("order", c, ~listed[c]) \in UpdateType
    BY <1>2, UpdateTypes
  <2> QED BY <1>4, <1>9, <2>1 DEF ListChanges, Push
<1> QED BY <1>1, <1>5, <1>6, <1>7, <1>8, <1>9

LEMMA AnswersListed ==
  ASSUME Inv, Listed, Answers
  PROVE  Listed'
<1> DEFINE request == Head(requests)
           c == request.chat
<1>1. /\ inbox \in Seq(UpdateType) /\ ServerTypes /\ UNCHANGED <<rows, announced>>
  BY DEF Inv, TypeInv, Types, StreamTypes, Answers, list
<1>2. /\ request = requests[1] /\ Rest(requests', requests) /\ request \in RequestType
      /\ c \in Chats
  BY RequestFacts
<1>3. \A d \in Chats : Asked(requests, d) => Asked(requests', d) \/ AskedFor(request, d)
  <2> SUFFICES ASSUME NEW d \in Chats, NEW i \in 1..Len(requests), AskedFor(requests[i], d), i # 1
               PROVE  Asked(requests', d)
    BY <1>2 DEF Asked
  <2>1. /\ i - 1 \in 1..Len(requests') /\ (i - 1) + 1 = i
        /\ requests'[i - 1] = requests[(i - 1) + 1]
    BY <1>2 DEF Rest
  <2> QED BY <2>1 DEF Asked
<1>4. CASE request.kind = "viewMessages" /\ inbox' = inbox
  <2>1. Follows(inbox', inbox, <<>>) /\ Len(<<>>) = 0
    BY <1>1, <1>4, NothingFollows
  <2>2. \A d \in Chats : ~AskedFor(request, d)
    BY <1>4 DEF AskedFor
  <2> QED BY <1>1, <1>3, <2>1, <2>2, ListedSent
<1>5. ASSUME NEW e, inbox' = Append(inbox, e), e \in UpdateType,
             \A d \in Chats : AskedFor(request, d) => Brings(e, d)
      PROVE  Listed'
  <2>1. Follows(inbox', inbox, <<e>>)
    BY <1>1, <1>5, AppendFollows
  <2>2. 1 \in 1..Len(<<e>>) /\ \A j \in 1..Len(<<e>>) : <<e>>[j] = e
    BY <1>5, OneUpdate
  <2>3. \A d \in Chats : Asked(requests, d) =>
          Asked(requests', d) \/ \E j \in 1..Len(<<e>>) : Brings(<<e>>[j], d)
    BY <1>3, <1>5, <2>2
  <2> QED BY <1>1, <2>1, <2>3, ListedSent
<1>6. CASE request.kind = "viewMessages" /\ inbox' # inbox
  <2> DEFINE e == Update("readInbox", c, arrived[c] - request.value)
  <2>1. inbox' = Append(inbox, e)
    BY <1>6 DEF Answers
  <2>2. arrived[c] - request.value \in Counts
    <3>1. request.value <= arrived[c] /\ request.value \in Counts
      BY <1>6, RequestFacts DEF GoodRequest
    <3>2. request.value \in Nat
      BY <3>1, CountFacts
    <3>3. arrived[c] \in Counts /\ arrived[c] \in Nat
      BY <1>1, <1>2, CountsOf
    <3> QED BY <3>1, <3>2, <3>3, CountFacts DEF Counts
  <2>3. e \in UpdateType
    BY <1>2, <2>2, UpdateTypes
  <2>4. \A d \in Chats : ~AskedFor(request, d)
    BY <1>6 DEF AskedFor
  <2> HIDE DEF e
  <2> QED BY <1>5, <2>1, <2>3, <2>4
<1>7. CASE request.kind = "getChat"
  <2> DEFINE row == Row(Unread(c), mentions[c], muted[c], arrived[c])
             e == Update("chat", c, row)
  <2>1. inbox' = Append(inbox, e)
    BY <1>7 DEF Answers
  <2>2. /\ Unread(c) \in Counts /\ arrived[c] \in Counts
        /\ mentions[c] \in 0..1 /\ muted[c] \in BOOLEAN
    BY <1>1, <1>2, CountsOf DEF ServerTypes
  <2>3. row \in RowType
    BY <2>2, RowTypes
  <2> HIDE DEF row
  <2>4. e \in UpdateType
    BY <1>2, <2>3, UpdateTypes
  <2>5. e.kind = "chat" /\ e.chat = c
    BY DEF Update
  <2> HIDE DEF e
  <2>6. \A d \in Chats : AskedFor(request, d) => Brings(e, d)
    BY <1>7, <2>5 DEF AskedFor, Brings
  <2> QED BY <1>5, <2>1, <2>4, <2>6
<1>8. CASE request.kind = "getChats"
  <2>1. PICK page \in SUBSET {d \in Chats : listed[d]} :
          inbox' = Append(inbox, Update("chats", c, page))
    BY <1>8 DEF Answers
  <2> DEFINE e == Update("chats", c, page)
  <2>2. page \in SUBSET Chats
    OBVIOUS
  <2>3. e \in UpdateType
    BY <1>2, <2>2, UpdateTypes
  <2>4. \A d \in Chats : ~AskedFor(request, d)
    BY <1>8 DEF AskedFor
  <2>5. inbox' = Append(inbox, e)
    BY <2>1
  <2> HIDE DEF e
  <2> QED BY <1>5, <2>3, <2>4, <2>5
<1>9. CASE request.kind = "getChatHistory"
  <2> DEFINE e == Update("messages", c, 1..arrived[c])
  <2>1. inbox' = Append(inbox, e)
    BY <1>9 DEF Answers
  <2>2. c = Open /\ 1..arrived[c] \in SUBSET (1..MaxMessages)
    <3>1. arrived[c] \in Counts
      BY <1>1, <1>2, CountsOf
    <3> QED BY <1>9, <3>1, IdsBelow, RequestFacts DEF GoodRequest
  <2>3. e \in UpdateType
    BY <2>2, UpdateTypes
  <2>4. \A d \in Chats : ~AskedFor(request, d)
    BY <1>9 DEF AskedFor
  <2> HIDE DEF e
  <2> QED BY <1>5, <2>1, <2>3, <2>4
<1> QED BY <1>4, <1>6, <1>7, <1>8, <1>9 DEF Answers

-----------------------------------------------------------------------------
(* The cover. *)

BadgeInv == Inv /\ Current /\ Listed

LEMMA BadgeInit ==
  ASSUME Init
  PROVE  BadgeInv
<1>1. Inv
  BY InvInit
<1>2. Len(inbox) = 0 /\ inbox = <<>>
  BY DEF Init
<1>3. ASSUME NEW c \in Chats, HasRow(c)
      PROVE  /\ rows[c].unread_count = 0 /\ rows[c].unread_mention_count = 0
             /\ rows[c].mute_for = muted[c]
             /\ Unread(c) = 0 /\ mentions[c] = 0
  <2>1. c \in announced
    BY <1>3, RowTypes DEF Init, HasRow
  <2>2. muted[c] \in BOOLEAN /\ rows[c] = Row(0, 0, muted[c], 0) /\ 0 \in 0..1 /\ 0 \in Counts
    BY <2>1, CountFacts DEF Init
  <2>3. Unread(c) = 0 /\ mentions[c] = 0
    BY DEF Init, Unread
  <2> QED BY <2>2, <2>3, RowTypes
<1>4. Current
  <2> SUFFICES ASSUME NEW c \in Chats, HasRow(c), NEW kind \in Kinds
               PROVE  Field(rows[c], kind) = truth[c][kind]
    BY <1>2 DEF Current, RowSays, Says
  <2> QED BY <1>3 DEF Field, truth, Kinds
<1>5. Listed
  <2> SUFFICES ASSUME NEW c \in Chats, c \in announced
               PROVE  HasRow(c)
    BY DEF Listed
  <2>1. muted[c] \in BOOLEAN /\ rows[c] = Row(0, 0, muted[c], 0) /\ 0 \in 0..1 /\ 0 \in Counts
    BY CountFacts DEF Init
  <2> QED BY <2>1, RowTypes DEF HasRow
<1> QED BY <1>1, <1>4, <1>5 DEF BadgeInv

LEMMA BadgeStays ==
  ASSUME BadgeInv, UNCHANGED vars
  PROVE  BadgeInv'
<1>1. UNCHANGED <<arrived, read, mentions, muted, listed, requests, inbox, rows, announced>>
  BY DEF vars, tdlib, list
<1>2. truth' = truth
  BY <1>1 DEF truth, Unread
<1>3. Current'
  BY <1>1, <1>2 DEF BadgeInv, Current, HasRow
<1>4. Listed'
  BY <1>1 DEF BadgeInv, Listed, HasRow
<1> QED BY <1>3, <1>4, InvStays DEF BadgeInv

LEMMA BadgeKept ==
  ASSUME BadgeInv, [Next]_vars
  PROVE  BadgeInv'
<1>1. Inv'
  BY InvKept DEF BadgeInv
<1>2. CASE Handle
  BY <1>1, <1>2, HandleCurrent, HandleListed DEF BadgeInv
<1>3. CASE Answers
  BY <1>1, <1>3, AnswersCurrent, AnswersListed DEF BadgeInv
<1>4. CASE User
  BY <1>1, <1>4, UserCurrent, UserListed DEF BadgeInv
<1>5. CASE Environment
  BY <1>1, <1>5, EnvironmentCurrent, EnvironmentListed DEF BadgeInv
<1>6. CASE UNCHANGED vars
  BY <1>6, BadgeStays
<1> QED BY <1>2, <1>3, <1>4, <1>5, <1>6 DEF Next

LEMMA BadgeIsInvariant == Spec => []BadgeInv
<1>1. Init => BadgeInv
  BY BadgeInit
<1>2. BadgeInv /\ [Next]_vars => BadgeInv'
  BY BadgeKept
<1> QED BY <1>1, <1>2, PTL DEF Spec

\* The rows are TDLib's when nothing is under way.
RowsTrue ==
  Quiet => \A c \in Chats :
    /\ c \in announced => HasRow(c)
    /\ HasRow(c) => /\ rows[c].unread_count = Unread(c)
                    /\ rows[c].unread_mention_count = mentions[c]
                    /\ rows[c].mute_for = muted[c]

LEMMA QuietRows ==
  ASSUME BadgeInv
  PROVE  RowsTrue
<1> SUFFICES ASSUME Quiet, NEW c \in Chats
             PROVE  /\ c \in announced => HasRow(c)
                    /\ HasRow(c) => /\ rows[c].unread_count = Unread(c)
                                    /\ rows[c].unread_mention_count = mentions[c]
                                    /\ rows[c].mute_for = muted[c]
  BY DEF RowsTrue
<1>1. Len(inbox) = 0 /\ Len(requests) = 0
  BY DEF Quiet
<1>2. c \in announced => HasRow(c)
  BY <1>1 DEF BadgeInv, Listed, UnderWay, Asked
<1>3. HasRow(c) => \A kind \in Kinds : Field(rows[c], kind) = truth[c][kind]
  BY <1>1 DEF BadgeInv, Current, RowSays, Says, Later
<1>4. HasRow(c) => /\ Field(rows[c], "readInbox") = truth[c]["readInbox"]
                   /\ Field(rows[c], "mentions") = truth[c]["mentions"]
                   /\ Field(rows[c], "settings") = truth[c]["settings"]
  BY <1>3 DEF Kinds
<1> QED BY <1>2, <1>4, FieldNames, TruthFacts

(* Once TDLib has answered everything and every update was taken, every chat *)
(* that a page or an update since the reset put into the list has a row,     *)
(* unless it has left it, and every row shows TDLib's counts and mute        *)
(* setting, whatever order updates and answers came in.  Chats of pages that *)
(* were not fetched need have none (ChatsModel.cpp:356-363).                 *)
THEOREM RowsBecomeTrue == Spec => []RowsTrue
<1>1. BadgeInv => RowsTrue
  BY QuietRows
<1> QED BY <1>1, BadgeIsInvariant, PTL

LEMMA QuietBadge ==
  ASSUME BadgeInv, announced \subseteq Chats
  PROVE  BadgeCurrent
<1> DEFINE shown == {c \in Chats : HasRow(c)} \cup announced
<1> SUFFICES ASSUME Quiet, ~stale, \A c \in Chats : HasRow(c) => listed[c]
             PROVE  m_totalUnreadCount = SumOver(shown)
  BY DEF BadgeCurrent
<1> DEFINE number(c) == IF ~rows[c].counted THEN 0
             ELSE rows[c].unread_mention_count
                    + IF rows[c].mute_for THEN 0 ELSE rows[c].unread_count
<1>1. m_totalUnreadCount = Sum([c \in Chats |-> number(c)])
  BY DEF BadgeInv, Inv, Told, totalUnreadCount
<1>2. ASSUME NEW c \in Chats
      PROVE  number(c) = IF c \in shown THEN Counted(c) ELSE 0
  <2>1. HasRow(c) => /\ rows[c].unread_count = Unread(c)
                     /\ rows[c].unread_mention_count = mentions[c]
                     /\ rows[c].mute_for = muted[c]
    BY QuietRows DEF RowsTrue
  <2>2. c \in shown <=> HasRow(c)
    BY QuietRows DEF RowsTrue
  <2> HIDE DEF shown
  <2>3. CASE HasRow(c)
    BY <2>1, <2>2, <2>3 DEF Counted, HasRow
  <2>4. CASE ~HasRow(c)
    BY <2>2, <2>4 DEF HasRow
  <2> QED BY <2>3, <2>4
<1> HIDE DEF number, shown
<1>3. [c \in Chats |-> number(c)] = [c \in Chats |-> IF c \in shown THEN Counted(c) ELSE 0]
  BY <1>2
<1> QED BY <1>1, <1>3 DEF SumOver

(* When nothing is under way, the number on the cover is the number of       *)
(* unread messages, in the chats that are not muted, and of mentions over    *)
(* the chats of the list that have a row or that ChatsModel was told of,     *)
(* unless the rows' sum has changed since it was told, the ChatsModel of     *)
(* SelectChatDialog has told its own, or a chat that left the list has a     *)
(* row.                                                                      *)
THEOREM BadgeTrue == Spec => []BadgeCurrent
<1>1. BadgeInv /\ announced \subseteq Chats => BadgeCurrent
  BY QuietBadge
<1> QED BY <1>1, BadgeIsInvariant, AnnouncedAreChats, PTL

=============================================================================
