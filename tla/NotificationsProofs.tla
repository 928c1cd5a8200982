-------------------------- MODULE NotificationsProofs --------------------------
(***************************************************************************)
(* Theorems about Notifications for all its constants, checked by TLAPS.   *)
(*                                                                         *)
(* First the types, then who owns which id: what is on the screen is the   *)
(* manager's, and no two chats share an id.                                *)
(***************************************************************************)
EXTENDS Notifications, FiniteSetTheorems, SequenceTheorems, TLAPS

-----------------------------------------------------------------------------
(* Messages. *)

LEMMA MessageType ==
  ASSUME NEW m \in Message
  PROVE  /\ m.kind = "connection" => m.state \in ConnectionStates
         /\ m.kind # "connection" => m.chat \in Chats
         /\ m.kind = "readInbox" => m.unread_count \in Nat
         /\ m.kind = "settings" => m.mute \in BOOLEAN
BY DEF Message

LEMMA MessagesAreTyped ==
  /\ \A state \in ConnectionStates : Connection(state) \in Message
  /\ \A c \in Chats : Group(c) \in Message /\ ReadOutbox(c) \in Message
  /\ \A c \in Chats, n \in Nat : ReadInbox(c, n) \in Message
  /\ \A c \in Chats, mute \in BOOLEAN : Settings(c, mute) \in Message
BY DEF Message, Connection, Group, ReadOutbox, ReadInbox, Settings

(* Handling a message takes it from a well-typed inbox. *)
LEMMA ConsumeType ==
  ASSUME TypeOK, NEW kind, Consume(kind)
  PROVE  /\ Received \in Message
         /\ Received.kind = kind
         /\ inbox' \in Seq(Message)
BY HeadTailProperties DEF TypeOK, Consume, Received

(* Sending messages keeps the inbox well typed. *)
LEMMA PushType ==
  ASSUME TypeOK, NEW ms \in Seq(Message), Push(ms)
  PROVE  inbox' \in Seq(Message)
BY ConcatProperties DEF TypeOK, Push

-----------------------------------------------------------------------------
(* The ids the server gives. *)

\* How many chats of S there are up to c.
Rank(S, c) == Cardinality({d \in S : d <= c})

LEMMA RankFacts ==
  ASSUME NEW S \in SUBSET Chats, NEW c \in S
  PROVE  /\ Rank(S, c) \in 1..Cardinality(S)
         /\ \A d \in S : Rank(S, c) = Rank(S, d) => c = d
<1>1. /\ IsFiniteSet(S)
      /\ S \subseteq Int
  BY ChatsAssumption, FS_Subset
<1> DEFINE upTo(d) == {e \in S : e <= d}
<1>2. \A d : /\ IsFiniteSet(upTo(d))
             /\ Cardinality(upTo(d)) \in Nat
             /\ Cardinality(upTo(d)) <= Cardinality(S)
  BY <1>1, FS_Subset, FS_CardinalityType
<1>3. Cardinality(upTo(c)) # 0
  <2>1. c \in upTo(c)
    BY <1>1
  <2> QED BY <1>2, <2>1, FS_EmptySet
<1>4. Cardinality(S) \in Nat
  BY <1>1, FS_CardinalityType
<1>5. ASSUME NEW d \in S, NEW e \in S, Rank(S, d) = Rank(S, e), d <= e
      PROVE  d = e
  <2>1. upTo(d) \subseteq upTo(e)
    <3>1. \A x \in S : x \in Int
      BY <1>1
    <3> QED BY <3>1, <1>5
  <2>2. upTo(d) = upTo(e)
    <3>1. Cardinality(upTo(e)) = Cardinality(upTo(d))
      BY <1>5 DEF Rank
    <3> HIDE DEF upTo
    <3> QED BY <1>2, <2>1, <3>1, FS_Subset
  <2>3. e \in upTo(d)
    BY <1>1, <2>2
  <2> QED BY <1>1, <1>5, <2>3
<1>6. \A d \in S : Rank(S, c) = Rank(S, d) => c = d
  BY <1>1, <1>5
<1>7. Rank(S, c) = Cardinality(upTo(c))
  BY DEF Rank
<1>8. Rank(S, c) \in 1..Cardinality(S)
  <2> HIDE DEF upTo
  <2> QED BY <1>2, <1>3, <1>4, <1>7
<1> QED BY <1>6, <1>8

-----------------------------------------------------------------------------
(* Who owns which id. *)

\* The ids the manager has for c.
Owned(c) == {m_chatIdsPublished[c], m_chatIdsToPublish[c]} \ {Nothing, NoId}

IdsGiven == \A c \in Chats : Owned(c) \subseteq 1..lastId

OneOwner == \A c, d \in Chats : c # d => Owned(c) \cap Owned(d) = {}

\* A notification on the screen is the published one of its chat, and the one
\* that waits, if any, replaces it.
ScreenIsOwned ==
  \A n \in screen :
    /\ m_chatIdsPublished[n.chat] = n.id
    /\ m_chatIdsToPublish[n.chat] \in {Nothing, n.id}

MapTypes ==
  /\ m_chatIdsToPublish \in [Chats -> Entries]
  /\ m_chatIdsPublished \in [Chats -> Entries]
  /\ lastId \in Nat
  /\ screen \subseteq [id : 1..lastId, chat : Chats]

MapInv == MapTypes /\ IdsGiven /\ OneOwner /\ ScreenIsOwned

(* A notification that begins to wait keeps the maps in order. *)
LEMMA NotifyKeeps ==
  ASSUME MapInv, NEW c \in Chats, notify(c), UNCHANGED <<m_chatIdsPublished, server>>
  PROVE  MapInv'
<1> USE DEF MapInv, notify, server
<1>1. \A d \in Chats : Owned(d)' \subseteq Owned(d)
  BY DEF MapTypes, Owned, Nothing, NoId
<1>2. MapTypes'
  BY DEF MapTypes, Entries, Nothing, NoId
<1>3. IdsGiven' /\ OneOwner'
  BY <1>1 DEF IdsGiven, OneOwner
<1>4. ScreenIsOwned'
  BY DEF MapTypes, ScreenIsOwned, Nothing, NoId
<1> QED BY <1>2, <1>3, <1>4

(* Withdrawing the notification of a chat keeps the maps in order, whether what
   waits goes on waiting or not. *)
LEMMA RemoveKeeps ==
  ASSUME MapInv, NEW c \in Chats, removeNotification(c), UNCHANGED lastId,
         \/ UNCHANGED m_chatIdsToPublish
         \/ m_chatIdsToPublish' = [m_chatIdsToPublish EXCEPT ![c] = Nothing]
  PROVE  MapInv'
<1> USE DEF MapInv, removeNotification
<1>1. \A d \in Chats : Owned(d)' \subseteq Owned(d)
  BY DEF MapTypes, Owned, Nothing, NoId
<1>2. MapTypes'
  BY DEF MapTypes, Entries, Nothing, Closed
<1>3. IdsGiven' /\ OneOwner'
  BY <1>1 DEF IdsGiven, OneOwner
<1>4. ScreenIsOwned'
  <2> SUFFICES ASSUME NEW n \in screen'
               PROVE  /\ m_chatIdsPublished'[n.chat] = n.id
                      /\ m_chatIdsToPublish'[n.chat] \in {Nothing, n.id}
    BY DEF ScreenIsOwned
  <2>1. n \in screen /\ n.id # m_chatIdsPublished[c] /\ n.chat \in Chats
    BY DEF Closed, MapTypes
  <2>2. n.chat # c
    BY <2>1 DEF ScreenIsOwned
  <2> QED BY <2>1, <2>2 DEF ScreenIsOwned, MapTypes
<1> QED BY <1>2, <1>3, <1>4

(* What the ids of publishing are: new ones beyond the last, each for one chat,
   and the ones that waited. *)
LEMMA IdOfFacts ==
  ASSUME MapInv, NEW c \in Waiting
  PROVE  /\ Cardinality(WithoutId) \in Nat
         /\ IdOf(c) \in 1..(lastId + Cardinality(WithoutId))
         /\ c \in WithoutId => IdOf(c) > lastId
         /\ c \notin WithoutId => /\ IdOf(c) = m_chatIdsToPublish[c]
                                  /\ IdOf(c) \in Owned(c)
                                  /\ IdOf(c) \in 1..lastId
         /\ \A d \in Waiting : IdOf(c) = IdOf(d) => c = d
<1>1. WithoutId \in SUBSET Chats /\ Waiting \subseteq Chats
  BY DEF WithoutId, Waiting
<1>2. Cardinality(WithoutId) \in Nat
  BY <1>1, ChatsAssumption, FS_Subset, FS_CardinalityType
<1>3. lastId \in Nat
  BY DEF MapInv, MapTypes
<1>4. ASSUME NEW d \in WithoutId
      PROVE  /\ IdOf(d) = lastId + Rank(WithoutId, d)
             /\ IdOf(d) \in (lastId + 1)..(lastId + Cardinality(WithoutId))
  <2>1. Rank(WithoutId, d) \in 1..Cardinality(WithoutId)
    BY <1>1, RankFacts
  <2>2. IdOf(d) = lastId + Rank(WithoutId, d)
    BY DEF IdOf, Rank
  <2> QED BY <1>2, <1>3, <2>1, <2>2
<1>5. ASSUME NEW d \in Waiting, d \notin WithoutId
      PROVE  /\ IdOf(d) = m_chatIdsToPublish[d]
             /\ IdOf(d) \in Owned(d)
             /\ IdOf(d) \in 1..lastId
  <2>1. IdOf(d) = m_chatIdsToPublish[d]
    BY <1>5 DEF IdOf
  <2>2. IdOf(d) \in Owned(d)
    BY <1>5, <2>1 DEF Waiting, WithoutId, Owned
  <2> QED BY <1>1, <2>1, <2>2 DEF MapInv, IdsGiven
<1>6. ASSUME NEW d \in Waiting, IdOf(c) = IdOf(d)
      PROVE  c = d
  <2>1. CASE c \in WithoutId /\ d \in WithoutId
    <3>1. Rank(WithoutId, c) \in Int /\ Rank(WithoutId, d) \in Int
      BY <1>1, <1>2, <2>1, RankFacts
    <3>2. Rank(WithoutId, c) = Rank(WithoutId, d)
      BY <1>3, <1>4, <1>6, <2>1, <3>1
    <3> QED BY <1>1, <2>1, <3>2, RankFacts
  <2>2. CASE c \notin WithoutId /\ d \notin WithoutId
    BY <1>1, <1>5, <1>6, <2>2 DEF MapInv, OneOwner
  <2>3. CASE (c \in WithoutId) # (d \in WithoutId)
    BY <1>2, <1>3, <1>4, <1>5, <1>6, <2>3
  <2> QED BY <2>1, <2>2, <2>3
<1> QED BY <1>2, <1>3, <1>4, <1>5, <1>6

(* Publishing keeps the maps in order: what is shown replaces what had its id. *)
LEMMA PublishKeeps ==
  ASSUME MapInv, NEW state, publishNotifications(state)
  PROVE  MapInv'
<1>1. CASE state # "Ready"
  BY <1>1 DEF publishNotifications, server, MapInv, MapTypes, IdsGiven, OneOwner, ScreenIsOwned,
              Owned
<1>2. CASE state = "Ready"
  <2> DEFINE N == Cardinality(WithoutId)
  <2>1. /\ Show
        /\ lastId' = lastId + N
        /\ m_chatIdsPublished' =
             [c \in Chats |-> IF c \in Waiting THEN IdOf(c) ELSE m_chatIdsPublished[c]]
        /\ m_chatIdsToPublish' = [c \in Chats |-> Nothing]
    BY <1>2 DEF publishNotifications
  <2>2. N \in Nat
    BY ChatsAssumption, FS_Subset, FS_CardinalityType DEF WithoutId, Waiting
  <2> HIDE DEF N
  <2>3. ASSUME NEW c \in Waiting
        PROVE  /\ c \in Chats
               /\ IdOf(c) \in 1..lastId'
               /\ c \in WithoutId => IdOf(c) > lastId
               /\ c \notin WithoutId => IdOf(c) \in Owned(c)
               /\ \A d \in Waiting : IdOf(c) = IdOf(d) => c = d
    BY <2>1, IdOfFacts DEF N, Waiting
  <2>4. PICK ignored \in SUBSET Unknown :
          screen' = {n \in screen : \A c \in Waiting : n.id # IdOf(c)}
                      \cup {[id |-> IdOf(c), chat |-> c] : c \in Waiting \ ignored}
    BY <2>1 DEF Show
  <2>5. lastId \in Nat /\ lastId' \in Nat /\ lastId <= lastId'
    BY <2>1, <2>2 DEF MapInv, MapTypes
  <2>6. \A c \in Chats : /\ m_chatIdsToPublish'[c] = Nothing
                         /\ c \in Waiting => m_chatIdsPublished'[c] = IdOf(c)
                         /\ c \notin Waiting => m_chatIdsPublished'[c] = m_chatIdsPublished[c]
    BY <2>1
  <2>7. \A n \in screen' :
          \/ n \in screen /\ \A c \in Waiting : n.id # IdOf(c)
          \/ \E c \in Waiting : n = [id |-> IdOf(c), chat |-> c]
    BY <2>4
  <2>8. MapTypes'
    <3>1. \A n \in screen' : n \in [id : 1..lastId', chat : Chats]
      <4> SUFFICES ASSUME NEW n \in screen'
                   PROVE  n \in [id : 1..lastId', chat : Chats]
        OBVIOUS
      <4>1. CASE n \in screen
        BY <2>5, <4>1 DEF MapInv, MapTypes
      <4>2. CASE \E c \in Waiting : n = [id |-> IdOf(c), chat |-> c]
        BY <2>3, <4>2
      <4> QED BY <2>7, <4>1, <4>2
    <3>2. m_chatIdsPublished' \in [Chats -> Entries]
      BY <2>1, <2>3 DEF MapInv, MapTypes, Entries
    <3>3. m_chatIdsToPublish' \in [Chats -> Entries]
      BY <2>1 DEF Entries
    <3> QED BY <2>5, <3>1, <3>2, <3>3 DEF MapTypes
  <2>9. ASSUME NEW c \in Chats, NEW i \in Owned(c)'
        PROVE  /\ i \in 1..lastId'
               /\ c \in Waiting => i = IdOf(c)
               /\ i \in Owned(c) \/ (c \in WithoutId /\ i > lastId)
    <3>1. i = m_chatIdsPublished'[c] /\ i \notin {Nothing, NoId}
      BY <2>6, <2>9 DEF Owned
    <3>2. CASE c \in Waiting
      BY <2>3, <2>6, <3>1, <3>2
    <3>3. CASE c \notin Waiting
      <4>1. i \in Owned(c)
        BY <2>6, <3>1, <3>3 DEF Owned
      <4> QED BY <2>5, <3>3, <4>1 DEF MapInv, IdsGiven
    <3> QED BY <3>2, <3>3
  <2>10. IdsGiven'
    BY <2>9 DEF IdsGiven
  <2>11. OneOwner'
    <3> SUFFICES ASSUME NEW c \in Chats, NEW d \in Chats, NEW i \in Owned(c)' \cap Owned(d)'
                 PROVE  c = d
      BY DEF OneOwner
    <3>1. CASE i \in Owned(c) /\ i \in Owned(d)
      BY <3>1 DEF MapInv, OneOwner
    <3>2. CASE i > lastId
      <4>1. \A e \in Chats : i \notin Owned(e)
        BY <2>5, <3>2 DEF MapInv, IdsGiven
      <4>2. c \in Waiting /\ d \in Waiting /\ i = IdOf(c) /\ i = IdOf(d)
        BY <2>9, <4>1 DEF WithoutId
      <4> QED BY <2>3, <4>2
    <3> QED
      <4>1. /\ i \in Owned(c) \/ i > lastId
            /\ i \in Owned(d) \/ i > lastId
        BY <2>9
      <4> QED BY <3>1, <3>2, <4>1
  <2>12. ScreenIsOwned'
    <3> SUFFICES ASSUME NEW n \in screen'
                 PROVE  /\ n.chat \in Chats
                        /\ m_chatIdsPublished'[n.chat] = n.id
      BY <2>6 DEF ScreenIsOwned
    <3>1. CASE \E c \in Waiting : n = [id |-> IdOf(c), chat |-> c]
      BY <2>3, <2>6, <3>1
    <3>2. CASE n \in screen /\ \A c \in Waiting : n.id # IdOf(c)
      <4>1. n.chat \in Chats /\ n.id \in Nat \ {0}
        BY <3>2 DEF MapInv, MapTypes
      <4>2. n.chat \notin Waiting
        <5> SUFFICES ASSUME n.chat \in Waiting PROVE FALSE
          OBVIOUS
        <5>1. m_chatIdsToPublish[n.chat] = n.id
          BY <3>2 DEF MapInv, ScreenIsOwned, Waiting
        <5>2. n.chat \notin WithoutId
          BY <4>1, <5>1 DEF WithoutId, NoId
        <5>3. IdOf(n.chat) = n.id
          BY <5>1, <5>2 DEF IdOf
        <5> QED BY <3>2, <5>3
      <4>3. m_chatIdsPublished[n.chat] = n.id
        BY <3>2 DEF MapInv, ScreenIsOwned
      <4> QED BY <2>6, <4>1, <4>2, <4>3
    <3> QED BY <2>7, <3>1, <3>2
  <2> QED BY <2>8, <2>10, <2>11, <2>12 DEF MapInv
<1> QED BY <1>1, <1>2

(* The user closing a notification keeps the maps in order, whether or not the
   objects lose their id. *)
LEMMA CloseKeeps ==
  ASSUME MapInv, NEW n \in screen, UserCloses(n)
  PROVE  MapInv'
<1> DEFINE without(ids) == [c \in Chats |-> IF ids[c] = n.id THEN NoId ELSE ids[c]]
<1>1. /\ screen' = screen \ {n}
      /\ lastId' = lastId
      /\ \/ m_chatIdsPublished' = m_chatIdsPublished /\ m_chatIdsToPublish' = m_chatIdsToPublish
         \/ /\ m_chatIdsPublished' = without(m_chatIdsPublished)
            /\ m_chatIdsToPublish' = without(m_chatIdsToPublish)
  BY DEF UserCloses
<1>2. MapTypes'
  BY <1>1 DEF MapInv, MapTypes, Entries, NoId
<1>3. \A c \in Chats : Owned(c)' \subseteq Owned(c)
  BY <1>1 DEF Owned
<1>4. IdsGiven' /\ OneOwner'
  BY <1>1, <1>3 DEF MapInv, IdsGiven, OneOwner
<1>5. ScreenIsOwned'
  <2> SUFFICES ASSUME NEW k \in screen'
               PROVE  /\ m_chatIdsPublished'[k.chat] = k.id
                      /\ m_chatIdsToPublish'[k.chat] \in {Nothing, k.id}
    BY DEF ScreenIsOwned
  <2>1. /\ k \in screen /\ k # n /\ k.chat \in Chats
        /\ k \in [id : 1..lastId, chat : Chats]
        /\ n \in [id : 1..lastId, chat : Chats]
    BY <1>1 DEF MapInv, MapTypes
  <2>2. /\ m_chatIdsPublished[k.chat] = k.id
        /\ m_chatIdsToPublish[k.chat] \in {Nothing, k.id}
        /\ m_chatIdsPublished[n.chat] = n.id
    BY <2>1 DEF MapInv, ScreenIsOwned
  <2>3. k.id # n.id
    <3> SUFFICES ASSUME k.id = n.id PROVE FALSE
      OBVIOUS
    <3>1. k.chat = n.chat
      BY <2>1, <2>2 DEF MapInv, OneOwner, Owned, Nothing, NoId
    <3> QED BY <2>1, <3>1
  <2>4. Nothing # n.id
    BY <2>1 DEF Nothing
  <2> QED BY <1>1, <2>1, <2>2, <2>3, <2>4
<1> QED BY <1>2, <1>4, <1>5 DEF MapInv

-----------------------------------------------------------------------------
(* The steps. *)

\* The types of what is not the maps or the server.
OtherTypes ==
  /\ connection \in ConnectionStates \cup {"WaitingForNetwork"}
  /\ unread \in [Chats -> Nat]
  /\ muted \in [Chats -> BOOLEAN]
  /\ inbox \in Seq(Message)
  /\ m_connectionState \in ConnectionStates
  /\ isAtFirstLoaded \in BOOLEAN
  /\ publishTimer \in BOOLEAN
  /\ mute_for \in [Chats -> BOOLEAN]
  /\ viewOpen \in BOOLEAN
  /\ running \in BOOLEAN
  /\ lateRead \subseteq Chats
  /\ expired \in BOOLEAN
  /\ events \in 0..MaxEvents

LEMMA TypeParts == TypeOK <=> MapTypes /\ OtherTypes
BY DEF TypeOK, MapTypes, OtherTypes

\* The end takes the running manager's invariant along and leaves the screen.
IdsInv == TypeOK /\ OnePerChat /\ (running => MapInv)

LEMMA OwnedIsOnePerChat == MapTypes /\ ScreenIsOwned => OnePerChat
<1> SUFFICES ASSUME MapTypes, ScreenIsOwned, NEW m \in screen, NEW n \in screen,
                    m.chat = n.chat
             PROVE  m = n
  BY DEF OnePerChat
<1>1. m.id = n.id
  BY DEF ScreenIsOwned
<1>2. /\ m \in [id : 1..lastId, chat : Chats]
      /\ n \in [id : 1..lastId, chat : Chats]
  BY DEF MapTypes
<1> QED BY <1>1, <1>2

LEMMA IdsInvInit == Init => IdsInv
<1> SUFFICES ASSUME Init PROVE IdsInv
  OBVIOUS
<1>1. TypeOK
  <2>1. inbox \in Seq(Message)
    BY EmptySeq DEF Init
  <2>2. /\ events \in 0..MaxEvents
        /\ unread \in [Chats -> Nat]
        /\ screen \subseteq [id : 1..lastId, chat : Chats]
        /\ lastId \in Nat
    BY BoundsAssumption DEF Init
  <2>3. /\ connection \in ConnectionStates \cup {"WaitingForNetwork"}
        /\ m_connectionState \in ConnectionStates
    BY StatesAssumption DEF Init
  <2>4. /\ muted \in [Chats -> BOOLEAN] /\ mute_for \in [Chats -> BOOLEAN]
        /\ isAtFirstLoaded \in BOOLEAN /\ publishTimer \in BOOLEAN
        /\ viewOpen \in BOOLEAN /\ running \in BOOLEAN /\ expired \in BOOLEAN
        /\ lateRead \subseteq Chats
    BY SettingAssumption DEF Init
  <2>5. /\ m_chatIdsToPublish \in [Chats -> Entries]
        /\ m_chatIdsPublished \in [Chats -> Entries]
    BY DEF Init, Entries
  <2> QED BY <2>1, <2>2, <2>3, <2>4, <2>5 DEF TypeOK
<1>2. OnePerChat
  BY DEF Init, OnePerChat
<1>3. MapInv
  BY <1>1 DEF Init, MapInv, MapTypes, TypeOK, IdsGiven, OneOwner, ScreenIsOwned, Owned, Nothing
<1> QED BY <1>1, <1>2, <1>3 DEF IdsInv

\* Nothing happens to the maps.
SameMaps == UNCHANGED <<m_chatIdsPublished, m_chatIdsToPublish, server>>

LEMMA SameMapsKeep == MapInv /\ SameMaps => MapInv'
BY DEF SameMaps, server, MapInv, MapTypes, IdsGiven, OneOwner, ScreenIsOwned, Owned

(* TDLib's steps send typed messages and leave the manager alone. *)
LEMMA TDLibStepTypes ==
  ASSUME TypeOK,
         \/ \E state \in ConnectionStates : ConnectionChanges(state)
         \/ \E c \in Chats :
              \/ \E group \in BOOLEAN : MessageArrives(c, group)
              \/ ReadElsewhere(c) \/ ReadByTheOther(c) \/ MuteChanges(c)
  PROVE  OtherTypes' /\ SameMaps
<1>1. /\ UNCHANGED manager
      /\ Happens
  BY DEF ConnectionChanges, MessageArrives, ReadElsewhere, ReadByTheOther, MuteChanges
<1>2. /\ SameMaps
      /\ UNCHANGED <<m_connectionState, isAtFirstLoaded, publishTimer, mute_for, viewOpen,
                     running, lateRead, expired>>
  BY <1>1 DEF SameMaps, manager, waiting, server, process
<1>3. events' \in 0..MaxEvents
  BY <1>1, BoundsAssumption DEF Happens, TypeOK
<1>4. ASSUME NEW state \in ConnectionStates, ConnectionChanges(state)
      PROVE  OtherTypes'
  <2>1. inbox' \in Seq(Message)
    <3>1. <<Connection(state)>> \in Seq(Message)
      BY MessagesAreTyped, SeqDef
    <3> QED BY <1>4, <3>1, PushType DEF ConnectionChanges
  <2> QED BY <1>2, <1>3, <1>4, <2>1 DEF OtherTypes, TypeOK, ConnectionChanges
<1>5. ASSUME NEW c \in Chats, NEW group \in BOOLEAN, MessageArrives(c, group)
      PROVE  OtherTypes'
  <2> DEFINE read == <<ReadInbox(c, unread[c] + 1)>>
             told == IF group THEN <<Group(c)>> ELSE <<>>
  <2>1. inbox' \in Seq(Message)
    <3>1. unread[c] + 1 \in Nat
      BY DEF TypeOK
    <3>2. read \in Seq(Message)
      BY <3>1, MessagesAreTyped
    <3>3. told \in Seq(Message)
      BY MessagesAreTyped, EmptySeq
    <3>4. read \o told \in Seq(Message)
      BY <3>2, <3>3, ConcatProperties
    <3>5. Push(read \o told)
      BY <1>5 DEF MessageArrives
    <3> HIDE DEF read, told
    <3> QED BY <3>4, <3>5, PushType
  <2> QED BY <1>2, <1>3, <1>5, <2>1 DEF OtherTypes, TypeOK, MessageArrives
<1>6. ASSUME NEW c \in Chats, ReadElsewhere(c)
      PROVE  OtherTypes'
  <2>1. inbox' \in Seq(Message)
    <3>1. <<ReadInbox(c, 0)>> \in Seq(Message)
      BY MessagesAreTyped
    <3> QED BY <1>6, <3>1, PushType DEF ReadElsewhere
  <2> QED BY <1>2, <1>3, <1>6, <2>1 DEF OtherTypes, TypeOK, ReadElsewhere
<1>7. ASSUME NEW c \in Chats, ReadByTheOther(c)
      PROVE  OtherTypes'
  <2>1. inbox' \in Seq(Message)
    <3>1. <<ReadOutbox(c)>> \in Seq(Message)
      BY MessagesAreTyped
    <3> QED BY <1>7, <3>1, PushType DEF ReadByTheOther
  <2> QED BY <1>2, <1>3, <1>7, <2>1 DEF OtherTypes, TypeOK, ReadByTheOther, tdlib
<1>8. ASSUME NEW c \in Chats, MuteChanges(c)
      PROVE  OtherTypes'
  <2>1. inbox' \in Seq(Message)
    <3> DEFINE mute == ~muted[c]
    <3>1. mute \in BOOLEAN
      OBVIOUS
    <3>2. Push(<<Settings(c, mute)>>)
      BY <1>8 DEF MuteChanges
    <3> HIDE DEF mute
    <3>3. <<Settings(c, mute)>> \in Seq(Message)
      BY <3>1, MessagesAreTyped
    <3> QED BY <3>2, <3>3, PushType
  <2> QED BY <1>2, <1>3, <1>8, <2>1 DEF OtherTypes, TypeOK, MuteChanges
<1> QED BY <1>2, <1>4, <1>5, <1>6, <1>7, <1>8

(* A handler takes one message from a typed inbox and leaves the types and the
   maps in order. *)
LEMMA HandleKeeps ==
  ASSUME TypeOK, MapInv, Handle
  PROVE  running /\ OtherTypes' /\ MapInv'
<1>1. ASSUME NEW kind, Consume(kind)
      PROVE  /\ running /\ UNCHANGED <<tdlib, process, events>>
             /\ Received \in Message /\ Received.kind = kind
             /\ inbox' \in Seq(Message)
  BY <1>1, ConsumeType DEF Consume
<1>2. CASE connectionStateChanged
  <2>1. /\ running /\ UNCHANGED <<tdlib, process, events>>
        /\ Received.state \in ConnectionStates
        /\ inbox' \in Seq(Message)
    BY <1>1, <1>2, MessageType DEF connectionStateChanged
  <2>2. MapInv'
    <3>1. publishNotifications(Received.state) \/ SameMaps
      BY <1>2 DEF connectionStateChanged, SameMaps
    <3> QED BY <3>1, PublishKeeps, SameMapsKeep
  <2>3. OtherTypes'
    <3>1. isAtFirstLoaded' \in BOOLEAN
      BY <1>2 DEF connectionStateChanged
    <3> QED BY <1>2, <2>1, <3>1
            DEF connectionStateChanged, TypeOK, OtherTypes, tdlib, process
  <2> QED BY <2>1, <2>2, <2>3
<1>3. CASE gotNotificationGroup
  <2>1. /\ running /\ UNCHANGED <<tdlib, process, events>>
        /\ Received.chat \in Chats
        /\ inbox' \in Seq(Message)
    BY <1>1, <1>3, MessageType DEF gotNotificationGroup
  <2>2. MapInv'
    BY <1>3, <2>1, NotifyKeeps DEF gotNotificationGroup
  <2>3. OtherTypes'
    BY <1>3, <2>1 DEF gotNotificationGroup, notify, TypeOK, OtherTypes, tdlib, process, settled
  <2> QED BY <2>1, <2>2, <2>3
<1>4. CASE updateChatReadInbox
  <2> DEFINE c == Received.chat
  <2>1. /\ running /\ UNCHANGED <<tdlib, process, events, settled, lastId>>
        /\ c \in Chats
        /\ inbox' \in Seq(Message)
    BY <1>1, <1>4, MessageType DEF updateChatReadInbox
  <2>2. lateRead' \subseteq Chats
    <3>1. lateRead' \in {lateRead, lateRead \ {c}, lateRead \cup {c}}
      BY <1>4 DEF updateChatReadInbox
    <3> QED BY <2>1, <3>1 DEF TypeOK
  <2>3. \/ notify(c) /\ UNCHANGED <<m_chatIdsPublished, server>>
        \/ removeNotification(c) /\ UNCHANGED <<waiting, lastId>>
        \/ readWhenReady(c) /\ UNCHANGED lastId
        \/ UNCHANGED waiting /\ SameMaps
    BY <1>4, <2>1
       DEF updateChatReadInbox, unreadBeforeReady, SameMaps, server, waiting
  <2>4. MapInv'
    BY <2>1, <2>3, NotifyKeeps, RemoveKeeps, SameMapsKeep DEF readWhenReady, waiting
  <2>5. publishTimer' \in BOOLEAN /\ expired' \in BOOLEAN
    BY <2>3 DEF notify, readWhenReady, waiting, TypeOK
  <2>6. OtherTypes'
    BY <2>1, <2>2, <2>5 DEF TypeOK, OtherTypes, tdlib, process, settled
  <2> QED BY <2>1, <2>4, <2>6
<1>5. CASE getUpdateChatOutbox
  <2>1. /\ running /\ UNCHANGED <<tdlib, process, events>>
        /\ Received.chat \in Chats
        /\ inbox' \in Seq(Message)
    BY <1>1, <1>5, MessageType DEF getUpdateChatOutbox
  <2>2. MapInv'
    BY <1>5, <2>1, RemoveKeeps DEF getUpdateChatOutbox, waiting
  <2>3. OtherTypes'
    BY <1>5, <2>1 DEF getUpdateChatOutbox, TypeOK, OtherTypes, tdlib, process, settled, waiting
  <2> QED BY <2>1, <2>2, <2>3
<1>6. CASE updateChatNotificationSettings
  <2>1. /\ running /\ UNCHANGED <<tdlib, process, events>>
        /\ Received.mute \in BOOLEAN
        /\ inbox' \in Seq(Message)
    BY <1>1, <1>6, MessageType DEF updateChatNotificationSettings
  <2>2. MapInv'
    BY <1>6, SameMapsKeep DEF updateChatNotificationSettings, SameMaps, waiting
  <2>3. mute_for' \in [Chats -> BOOLEAN]
    BY <1>6, <2>1 DEF updateChatNotificationSettings, TypeOK
  <2>4. OtherTypes'
    BY <1>6, <2>1, <2>3
       DEF updateChatNotificationSettings, TypeOK, OtherTypes, tdlib, process, waiting
  <2> QED BY <2>1, <2>2, <2>4
<1> QED BY <1>2, <1>3, <1>4, <1>5, <1>6 DEF Handle

(* So does the timer. *)
LEMMA TimeoutKeeps ==
  ASSUME TypeOK, MapInv, PublishTimeout
  PROVE  running /\ OtherTypes' /\ MapInv'
<1>1. MapInv'
  BY PublishKeeps DEF PublishTimeout
<1>2. OtherTypes'
  BY DEF PublishTimeout, TypeOK, OtherTypes, tdlib, settled, process
<1> QED BY <1>1, <1>2 DEF PublishTimeout

(* So does what the user does to a running application. *)
LEMMA UserKeeps ==
  ASSUME TypeOK, MapInv,
         \/ \E c \in Chats : onViewMessages(c)
         \/ \E n \in screen : UserCloses(n)
         \/ OpensOrClosesView
  PROVE  running /\ OtherTypes' /\ MapInv'
<1>1. Happens
  BY DEF onViewMessages, UserCloses, OpensOrClosesView
<1>2. running /\ events' \in 0..MaxEvents
  BY <1>1, BoundsAssumption DEF Happens, TypeOK
<1>3. ASSUME NEW c \in Chats, onViewMessages(c)
      PROVE  OtherTypes' /\ MapInv'
  <2>1. inbox' \in Seq(Message)
    <3>1. <<ReadInbox(c, 0)>> \in Seq(Message)
      BY MessagesAreTyped
    <3> QED BY <1>3, <3>1, PushType DEF onViewMessages
  <2>2. MapInv'
    BY <1>3, RemoveKeeps DEF onViewMessages, waiting
  <2>3. OtherTypes'
    BY <1>2, <1>3, <2>1 DEF onViewMessages, TypeOK, OtherTypes, settled, waiting, process
  <2> QED BY <2>2, <2>3
<1>4. ASSUME NEW n \in screen, UserCloses(n)
      PROVE  OtherTypes' /\ MapInv'
  <2>1. MapInv'
    BY <1>4, CloseKeeps
  <2>2. OtherTypes'
    BY <1>2, <1>4 DEF UserCloses, TypeOK, OtherTypes, tdlib, settled, process
  <2> QED BY <2>1, <2>2
<1>5. CASE OpensOrClosesView
  <2>1. MapInv'
    BY <1>5, SameMapsKeep DEF OpensOrClosesView, SameMaps, waiting
  <2>2. OtherTypes'
    BY <1>2, <1>5 DEF OpensOrClosesView, TypeOK, OtherTypes, tdlib, settled, waiting
  <2> QED BY <1>2, <2>1, <2>2
<1> QED BY <1>2, <1>3, <1>4, <1>5

(* The end only takes from the screen. *)
LEMMA ExitKeeps ==
  ASSUME TypeOK, OnePerChat, Exit
  PROVE  ~running' /\ TypeOK' /\ OnePerChat'
<1>1. /\ ~running'
      /\ screen' \subseteq screen
      /\ UNCHANGED <<tdlib, inbox, settled, waiting, lastId, viewOpen, lateRead, events>>
  BY DEF Exit, removeAll, Closed
<1>2. m_chatIdsPublished' \in [Chats -> Entries]
  BY DEF Exit, removeAll, TypeOK, Entries
<1>3. running' \in BOOLEAN
  BY DEF Exit
<1>4. TypeOK'
  BY <1>1, <1>2, <1>3 DEF TypeOK, tdlib, settled, waiting
<1>5. OnePerChat'
  BY <1>1 DEF OnePerChat
<1> QED BY <1>1, <1>4, <1>5

LEMMA IdsInvStep == IdsInv /\ [Next]_vars => IdsInv'
<1> SUFFICES ASSUME IdsInv, [Next]_vars PROVE IdsInv'
  OBVIOUS
<1>1. TypeOK /\ OnePerChat /\ (running => MapInv)
  BY DEF IdsInv
<1>2. ASSUME OtherTypes', MapInv'
      PROVE  IdsInv'
  <2>1. MapTypes' /\ ScreenIsOwned'
    BY <1>2 DEF MapInv
  <2>2. TypeOK'
    BY <1>2, <2>1 DEF TypeOK, MapTypes, OtherTypes
  <2>3. OnePerChat'
    <3>1. (MapTypes /\ ScreenIsOwned => OnePerChat)'
      BY OwnedIsOnePerChat, PTL
    <3> QED BY <2>1, <3>1
  <2> QED BY <1>2, <2>2, <2>3 DEF IdsInv
<1>3. CASE UNCHANGED vars
  <2>1. SameMaps /\ running' = running
    BY <1>3 DEF vars, SameMaps, waiting, server, process
  <2>2. TypeOK' /\ OnePerChat'
    BY <1>1, <1>3 DEF vars, TypeOK, OnePerChat, tdlib, waiting, server, process
  <2> QED BY <1>1, <2>1, <2>2, SameMapsKeep DEF IdsInv
<1>4. CASE Handle
  <2>1. running
    BY <1>4 DEF Handle, Consume, connectionStateChanged, gotNotificationGroup,
                updateChatReadInbox, getUpdateChatOutbox, updateChatNotificationSettings
  <2> QED BY <1>1, <1>2, <1>4, <2>1, HandleKeeps
<1>5. CASE PublishTimeout
  <2>1. running
    BY <1>5 DEF PublishTimeout
  <2> QED BY <1>1, <1>2, <1>5, <2>1, TimeoutKeeps
<1>6. CASE \/ \E state \in ConnectionStates : ConnectionChanges(state)
           \/ \E c \in Chats :
                \/ \E group \in BOOLEAN : MessageArrives(c, group)
                \/ ReadElsewhere(c) \/ ReadByTheOther(c) \/ MuteChanges(c)
  <2>1. running
    BY <1>6 DEF ConnectionChanges, MessageArrives, ReadElsewhere, ReadByTheOther, MuteChanges,
                Happens
  <2>2. OtherTypes' /\ SameMaps
    BY <1>1, <1>6, TDLibStepTypes
  <2> QED BY <1>1, <1>2, <2>1, <2>2, SameMapsKeep
<1>7. CASE \/ \E c \in Chats : onViewMessages(c)
           \/ \E n \in screen : UserCloses(n)
           \/ OpensOrClosesView
  <2>1. running
    BY <1>7 DEF onViewMessages, UserCloses, OpensOrClosesView, Happens
  <2> QED BY <1>1, <1>2, <1>7, <2>1, UserKeeps
<1>8. CASE Exit
  BY <1>1, <1>8, ExitKeeps DEF IdsInv
<1> QED BY <1>3, <1>4, <1>5, <1>6, <1>7, <1>8 DEF Next, Environment

LEMMA IdsInvariant == Spec => []IdsInv
BY IdsInvInit, IdsInvStep, PTL DEF Spec

(* Every variable keeps its type: what is on the screen has an id the server
   gave, and every message a handler takes has the fields it reads. *)
THEOREM TypeCorrect == Spec => []TypeOK
<1>1. IdsInv => TypeOK
  BY DEF IdsInv
<1> QED BY <1>1, IdsInvariant, PTL

(* The screen never shows two notifications of one chat. *)
THEOREM OneOnTheScreen == Spec => []OnePerChat
<1>1. IdsInv => OnePerChat
  BY DEF IdsInv
<1> QED BY <1>1, IdsInvariant, PTL

(* While the application runs, what is on the screen is what the map of
   published notifications has for its chat. *)
THEOREM NoneForgotten == Spec => []NothingLeftBehind
<1>1. IdsInv => NothingLeftBehind
  BY DEF IdsInv, MapInv, ScreenIsOwned, NothingLeftBehind
<1> QED BY <1>1, IdsInvariant, PTL

-----------------------------------------------------------------------------
(* The stream: what is on its way to the manager about a chat that is read. *)

\* Handling m may raise a notification of c.
Raises(m, c) ==
  \/ m.kind = "group" /\ m.chat = c
  \/ m.kind = "readInbox" /\ m.chat = c /\ m.unread_count > 0

Calm(c) == \A i \in 1..Len(inbox) : ~Raises(inbox[i], c)

\* The last that matters on the way is that c was read.
LastWord(c) ==
  \E i \in 1..Len(inbox) :
    /\ inbox[i] = ReadInbox(c, 0)
    /\ \A j \in 1..Len(inbox) : j > i => ~Raises(inbox[j], c)

Clean(c) == c \notin Waiting /\ \A n \in screen : n.chat # c

Quiet(c) == c \in lateRead \/ Clean(c)

StreamInv == \A c \in Chats : unread[c] = 0 => LastWord(c) \/ (Calm(c) /\ Quiet(c))

(* Taking the first message moves the last word on, or hears it. *)
LEMMA ConsumeWord ==
  ASSUME TypeOK, NEW kind, Consume(kind), NEW c \in Chats
  PROVE  /\ LastWord(c) => LastWord(c)' \/ (Received = ReadInbox(c, 0) /\ Calm(c)')
         /\ Calm(c) => Calm(c)' /\ ~Raises(Received, c)
<1>1. /\ inbox \in Seq(Message) /\ inbox # <<>>
      /\ inbox' = Tail(inbox)
      /\ Received = inbox[1]
  BY DEF TypeOK, Consume, Received
<1>2. /\ Len(inbox) \in Nat \ {0}
      /\ Len(inbox') = Len(inbox) - 1
      /\ \A j \in 1..Len(inbox') : inbox'[j] = inbox[j + 1]
  BY <1>1, EmptySeq, LenProperties, HeadTailProperties
<1>3. ASSUME Calm(c)
      PROVE  Calm(c)' /\ ~Raises(Received, c)
  BY <1>1, <1>2, <1>3 DEF Calm, Raises
<1>4. ASSUME LastWord(c)
      PROVE  LastWord(c)' \/ (Received = ReadInbox(c, 0) /\ Calm(c)')
  <2>1. PICK i \in 1..Len(inbox) : /\ inbox[i] = ReadInbox(c, 0)
                                  /\ \A j \in 1..Len(inbox) : j > i => ~Raises(inbox[j], c)
    BY <1>4 DEF LastWord
  <2>2. CASE i = 1
    <3>1. \A j \in 1..Len(inbox') : ~Raises(inbox[j + 1], c)
      BY <1>2, <2>1, <2>2
    <3>2. \A j \in 1..Len(inbox') : ~Raises(inbox'[j], c)
      BY <1>2, <3>1
    <3>3. Calm(c)'
      BY <3>2 DEF Calm, Raises
    <3> QED BY <1>1, <2>1, <2>2, <3>3
  <2>3. CASE i # 1
    <3>1. i - 1 \in 1..Len(inbox') /\ inbox'[i - 1] = ReadInbox(c, 0)
      BY <1>2, <2>1, <2>3
    <3>2. \A j \in 1..Len(inbox') : j > i - 1 => ~Raises(inbox[j + 1], c)
      BY <1>2, <2>1
    <3>3. \A j \in 1..Len(inbox') : j > i - 1 => ~Raises(inbox'[j], c)
      BY <1>2, <3>2
    <3> QED BY <3>1, <3>3 DEF LastWord, Raises, ReadInbox
  <2> QED BY <2>2, <2>3
<1> QED BY <1>3, <1>4

(* Sending what raises nothing for c keeps the last word about it; sending that
   c was read is the last word. *)
LEMMA PushWord ==
  ASSUME TypeOK, NEW ms \in Seq(Message), Push(ms), NEW c \in Chats,
         \A i \in 1..Len(ms) : ~Raises(ms[i], c)
  PROVE  /\ LastWord(c) => LastWord(c)'
         /\ Calm(c) => Calm(c)'
         /\ ms = <<ReadInbox(c, 0)>> => LastWord(c)'
<1>1. /\ inbox \in Seq(Message)
      /\ inbox' = inbox \o ms
  BY DEF TypeOK, Push
<1>2. /\ Len(inbox) \in Nat /\ Len(ms) \in Nat
      /\ Len(inbox') = Len(inbox) + Len(ms)
      /\ \A i \in 1..Len(inbox') :
           inbox'[i] = IF i <= Len(inbox) THEN inbox[i] ELSE ms[i - Len(inbox)]
  BY <1>1, LenProperties, ConcatProperties
<1>3. \A i \in 1..Len(inbox') : i > Len(inbox) => ~Raises(inbox'[i], c)
  <2> SUFFICES ASSUME NEW i \in 1..Len(inbox'), i > Len(inbox)
               PROVE  ~Raises(inbox'[i], c)
    OBVIOUS
  <2>1. i - Len(inbox) \in 1..Len(ms) /\ inbox'[i] = ms[i - Len(inbox)]
    BY <1>2
  <2> QED BY <2>1
<1>4. ASSUME Calm(c) PROVE Calm(c)'
  <2>1. \A i \in 1..Len(inbox') : i <= Len(inbox) => ~Raises(inbox'[i], c)
    BY <1>2, <1>4 DEF Calm
  <2>2. \A i \in 1..Len(inbox') : i <= Len(inbox) \/ i > Len(inbox)
    BY <1>2
  <2> QED BY <1>3, <2>1, <2>2 DEF Calm, Raises
<1>5. ASSUME LastWord(c) PROVE LastWord(c)'
  <2>1. PICK i \in 1..Len(inbox) : /\ inbox[i] = ReadInbox(c, 0)
                                  /\ \A j \in 1..Len(inbox) : j > i => ~Raises(inbox[j], c)
    BY <1>5 DEF LastWord
  <2>2. i \in 1..Len(inbox') /\ inbox'[i] = ReadInbox(c, 0)
    BY <1>2, <2>1
  <2>3. \A j \in 1..Len(inbox') : j > i => ~Raises(inbox'[j], c)
    <3> SUFFICES ASSUME NEW j \in 1..Len(inbox'), j > i
                 PROVE  ~Raises(inbox'[j], c)
      OBVIOUS
    <3>1. CASE j > Len(inbox)
      BY <1>3, <3>1
    <3>2. CASE j <= Len(inbox)
      <4>1. j \in 1..Len(inbox) /\ inbox'[j] = inbox[j]
        BY <1>2, <3>2
      <4> QED BY <2>1, <4>1
    <3> QED BY <1>2, <3>1, <3>2
  <2> QED BY <2>2, <2>3 DEF LastWord, Raises, ReadInbox
<1>6. ASSUME ms = <<ReadInbox(c, 0)>> PROVE LastWord(c)'
  <2>1. Len(ms) = 1 /\ ms[1] = ReadInbox(c, 0)
    BY <1>6
  <2> DEFINE i == Len(inbox) + 1
  <2>2. i \in 1..Len(inbox') /\ inbox'[i] = ReadInbox(c, 0)
    BY <1>2, <2>1
  <2>3. \A j \in 1..Len(inbox') : ~(j > i)
    BY <1>2, <2>1
  <2> HIDE DEF i
  <2> QED BY <2>2, <2>3 DEF LastWord, Raises, ReadInbox
<1> QED BY <1>4, <1>5, <1>6

(* Publishing raises nothing for a chat that does not wait. *)
LEMMA PublishClean ==
  ASSUME MapInv, NEW state, publishNotifications(state), NEW c \in Chats, Clean(c)
  PROVE  Clean(c)'
<1>1. CASE state # "Ready"
  BY <1>1 DEF publishNotifications, server, Clean, Waiting
<1>2. CASE state = "Ready"
  <2>1. c \notin Waiting'
    BY <1>2 DEF publishNotifications, Waiting
  <2>2. \A n \in screen' : n \in screen \/ \E d \in Waiting : n = [id |-> IdOf(d), chat |-> d]
    BY <1>2 DEF publishNotifications, Show
  <2> QED BY <2>1, <2>2 DEF Clean
<1> QED BY <1>1, <1>2

(* Withdrawing the notification of a chat takes it from the screen. *)
LEMMA RemovedFromScreen ==
  ASSUME MapInv, NEW c \in Chats, removeNotification(c)
  PROVE  screen' \subseteq screen /\ \A n \in screen' : n.chat # c
BY DEF removeNotification, Closed, MapInv, ScreenIsOwned

(* Handling what raises nothing for c leaves it quiet. *)
LEMMA HandleQuiet ==
  ASSUME TypeOK, MapInv, Handle, NEW c \in Chats, Quiet(c), ~Raises(Received, c)
  PROVE  Quiet(c)'
<1>1. CASE c \in lateRead /\ c \in lateRead'
  BY <1>1 DEF Quiet
<1>2. CASE c \in lateRead /\ c \notin lateRead'
  <2>1. /\ updateChatReadInbox
        /\ Received.chat = c
        /\ m_connectionState = "Ready" /\ ~mute_for[c]
        /\ ~(Received.unread_count > 0)
    BY <1>2 DEF Handle, connectionStateChanged, gotNotificationGroup, updateChatReadInbox,
                getUpdateChatOutbox, updateChatNotificationSettings
  <2>2. Received.unread_count = 0
    <3>1. Received \in Message /\ Received.kind = "readInbox"
      BY <2>1, ConsumeType DEF updateChatReadInbox
    <3>2. Received.unread_count \in Nat
      BY <3>1, MessageType
    <3> QED BY <2>1, <3>2
  <2>3. readWhenReady(c)
    BY <2>1, <2>2 DEF updateChatReadInbox
  <2>4. c \notin Waiting'
    BY <2>3 DEF readWhenReady, Waiting, MapInv, MapTypes
  <2> QED BY <2>3, <2>4, RemovedFromScreen DEF readWhenReady, Quiet, Clean
<1>3. CASE Clean(c)
  <2>1. CASE connectionStateChanged
    <3>1. publishNotifications(Received.state) \/ SameMaps
      BY <2>1 DEF connectionStateChanged, SameMaps
    <3>2. CASE SameMaps
      BY <1>3, <3>2 DEF SameMaps, server, Quiet, Clean, Waiting
    <3> QED BY <1>3, <3>1, <3>2, PublishClean DEF Quiet
  <2>2. CASE gotNotificationGroup
    <3>1. Received.chat # c
      BY <2>2 DEF gotNotificationGroup, Consume, Raises
    <3>2. c \notin Waiting'
      BY <1>3, <2>2, <3>1
         DEF gotNotificationGroup, notify, Clean, Waiting, MapInv, MapTypes
    <3> QED BY <1>3, <2>2, <3>2 DEF gotNotificationGroup, server, Quiet, Clean
  <2>3. CASE updateChatReadInbox
    <3> DEFINE d == Received.chat
    <3>1. Received.kind = "readInbox" /\ UNCHANGED lastId /\ d \in Chats
      BY <2>3, ConsumeType, MessageType DEF updateChatReadInbox
    <3>2. \/ notify(d) /\ d # c /\ UNCHANGED <<m_chatIdsPublished, server>>
          \/ removeNotification(d) /\ UNCHANGED waiting
          \/ readWhenReady(d)
          \/ UNCHANGED waiting /\ SameMaps
      BY <2>3, <3>1
         DEF updateChatReadInbox, unreadBeforeReady, SameMaps, server, waiting, Raises
    <3>3. screen' \subseteq screen
      BY <3>2, <3>1, RemovedFromScreen DEF readWhenReady, SameMaps, server
    <3>4. c \notin Waiting'
      BY <1>3, <3>2
         DEF readWhenReady, notify, waiting, Clean, Waiting, MapInv, MapTypes
    <3> QED BY <1>3, <3>3, <3>4 DEF Quiet, Clean
  <2>4. CASE getUpdateChatOutbox
    <3>1. Received.chat \in Chats
      BY <2>4, ConsumeType, MessageType DEF getUpdateChatOutbox
    <3>2. screen' \subseteq screen
      BY <2>4, <3>1, RemovedFromScreen DEF getUpdateChatOutbox
    <3> QED BY <1>3, <2>4, <3>2 DEF getUpdateChatOutbox, waiting, Quiet, Clean, Waiting
  <2>5. CASE updateChatNotificationSettings
    BY <1>3, <2>5 DEF updateChatNotificationSettings, waiting, server, Quiet, Clean, Waiting
  <2> QED BY <2>1, <2>2, <2>3, <2>4, <2>5 DEF Handle
<1> QED BY <1>1, <1>2, <1>3 DEF Quiet

(* Hearing that c was read makes it quiet. *)
LEMMA HearingQuiets ==
  ASSUME TypeOK, MapInv, Handle, NEW c \in Chats, Received = ReadInbox(c, 0)
  PROVE  Quiet(c)'
<1>1. /\ Received.kind = "readInbox"
      /\ Received.chat = c
      /\ Received.unread_count = 0
  BY DEF ReadInbox
<1>2. updateChatReadInbox
  BY <1>1 DEF Handle, connectionStateChanged, gotNotificationGroup, getUpdateChatOutbox,
              updateChatNotificationSettings, Consume
<1>3. CASE m_connectionState = "Ready" /\ ~mute_for[c]
  <2>1. readWhenReady(c)
    BY <1>1, <1>2, <1>3 DEF updateChatReadInbox
  <2>2. c \notin Waiting'
    BY <2>1 DEF readWhenReady, Waiting, MapInv, MapTypes
  <2> QED BY <2>1, <2>2, RemovedFromScreen DEF readWhenReady, Quiet, Clean
<1>4. CASE ~(m_connectionState = "Ready" /\ ~mute_for[c])
  <2>1. c \in lateRead'
    BY <1>1, <1>2, <1>4 DEF updateChatReadInbox
  <2> QED BY <2>1 DEF Quiet
<1> QED BY <1>3, <1>4

(* What the timer and the user do leaves a quiet chat quiet. *)
LEMMA OthersQuiet ==
  ASSUME TypeOK, MapInv, NEW c \in Chats, Quiet(c),
         \/ PublishTimeout
         \/ \E d \in Chats : onViewMessages(d)
         \/ \E n \in screen : UserCloses(n)
         \/ OpensOrClosesView
  PROVE  Quiet(c)'
<1>1. UNCHANGED lateRead
  BY DEF PublishTimeout, onViewMessages, UserCloses, OpensOrClosesView
<1>2. CASE c \in lateRead
  BY <1>1, <1>2 DEF Quiet
<1>3. CASE Clean(c)
  <2>1. CASE PublishTimeout
    BY <1>3, <2>1, PublishClean DEF PublishTimeout, Quiet
  <2>2. ASSUME NEW d \in Chats, onViewMessages(d)
        PROVE  Quiet(c)'
    <3>1. screen' \subseteq screen
      BY <2>2, RemovedFromScreen DEF onViewMessages
    <3> QED BY <1>3, <2>2, <3>1 DEF onViewMessages, waiting, Quiet, Clean, Waiting
  <2>3. ASSUME NEW n \in screen, UserCloses(n)
        PROVE  Quiet(c)'
    <3>1. n.id # Nothing
      BY DEF MapInv, MapTypes, Nothing
    <3>2. screen' \subseteq screen /\ c \notin Waiting'
      BY <1>3, <2>3, <3>1 DEF UserCloses, Clean, Waiting
    <3> QED BY <1>3, <3>2 DEF Quiet, Clean
  <2>4. CASE OpensOrClosesView
    BY <1>3, <2>4 DEF OpensOrClosesView, waiting, server, Quiet, Clean, Waiting
  <2> QED BY <2>1, <2>2, <2>3, <2>4
<1> QED BY <1>2, <1>3 DEF Quiet

\* What is owed to c.
Heard(c) == LastWord(c) \/ (Calm(c) /\ Quiet(c))

(* With the same inbox what is owed to a quiet chat stays. *)
LEMMA SameInbox ==
  ASSUME UNCHANGED inbox, NEW c, Quiet(c) => Quiet(c)', Heard(c)
  PROVE  Heard(c)'
BY DEF Heard, LastWord, Calm, Raises, ReadInbox

(* TDLib's step, or viewing, keeps what is owed to each chat read before and
   after, and owes the word itself when it makes the chat read. *)
LEMMA SendKeeps ==
  ASSUME TypeOK, StreamInv, NEW ms \in Seq(Message), Push(ms), NEW c \in Chats,
         unread'[c] = 0,
         \A i \in 1..Len(ms) : ~Raises(ms[i], c),
         Quiet(c) => Quiet(c)',
         unread[c] = 0 \/ ms = <<ReadInbox(c, 0)>>
  PROVE  Heard(c)'
<1>1. CASE ms = <<ReadInbox(c, 0)>>
  BY <1>1, PushWord DEF Heard
<1>2. CASE unread[c] = 0
  BY <1>2, PushWord DEF StreamInv, Heard
<1> QED BY <1>1, <1>2

LEMMA StreamInvStep ==
  ASSUME IdsInv, running, StreamInv, Next, running'
  PROVE  StreamInv'
<1> SUFFICES ASSUME NEW c \in Chats, unread'[c] = 0 PROVE Heard(c)'
  BY DEF StreamInv, Heard
<1>1. /\ TypeOK /\ MapInv
      /\ unread[c] = 0 => Heard(c)
  BY DEF IdsInv, StreamInv, Heard
<1>2. CASE Handle
  <2>1. PICK kind : Consume(kind)
    BY <1>2 DEF Handle, connectionStateChanged, gotNotificationGroup, updateChatReadInbox,
                getUpdateChatOutbox, updateChatNotificationSettings
  <2>2. unread[c] = 0
    BY <2>1 DEF Consume, tdlib
  <2>3. \/ LastWord(c)'
        \/ Received = ReadInbox(c, 0) /\ Calm(c)'
        \/ Quiet(c) /\ Calm(c)' /\ ~Raises(Received, c)
    BY <1>1, <2>1, <2>2, ConsumeWord DEF Heard
  <2> QED BY <1>1, <1>2, <2>3, HandleQuiet, HearingQuiets DEF Heard
<1>3. CASE \/ PublishTimeout
           \/ \E n \in screen : UserCloses(n)
           \/ OpensOrClosesView
  <2>1. UNCHANGED <<inbox, unread>>
    BY <1>3 DEF PublishTimeout, UserCloses, OpensOrClosesView, tdlib
  <2>2. Quiet(c) => Quiet(c)'
    BY <1>1, <1>3, OthersQuiet
  <2> QED BY <1>1, <2>1, <2>2, SameInbox
<1>4. ASSUME NEW d \in Chats, onViewMessages(d)
      PROVE  Heard(c)'
  <2> DEFINE ms == <<ReadInbox(d, 0)>>
  <2>1. ms \in Seq(Message) /\ Push(ms)
    BY <1>4, MessagesAreTyped DEF onViewMessages
  <2>2. \A i \in 1..Len(ms) : ~Raises(ms[i], c)
    BY DEF Raises, ReadInbox
  <2>3. unread[c] = 0 \/ ms = <<ReadInbox(c, 0)>>
    BY <1>1, <1>4 DEF onViewMessages, TypeOK
  <2>4. Quiet(c) => Quiet(c)'
    BY <1>1, <1>4, OthersQuiet
  <2> HIDE DEF ms
  <2> QED BY <1>1, <2>1, <2>2, <2>3, <2>4, SendKeeps
<1>5. ASSUME UNCHANGED manager
      PROVE  Quiet(c) => Quiet(c)'
  BY <1>5 DEF manager, waiting, server, Quiet, Clean, Waiting
<1>6. ASSUME NEW state \in ConnectionStates, ConnectionChanges(state)
      PROVE  Heard(c)'
  <2> DEFINE ms == <<Connection(state)>>
  <2>1. ms \in Seq(Message) /\ Push(ms) /\ unread[c] = 0
    BY <1>6, MessagesAreTyped DEF ConnectionChanges
  <2>2. \A i \in 1..Len(ms) : ~Raises(ms[i], c)
    BY DEF Raises, Connection
  <2>3. Quiet(c) => Quiet(c)'
    BY <1>5, <1>6 DEF ConnectionChanges
  <2> HIDE DEF ms
  <2> QED BY <1>1, <2>1, <2>2, <2>3, SendKeeps
<1>7. ASSUME NEW d \in Chats, NEW group \in BOOLEAN, MessageArrives(d, group)
      PROVE  Heard(c)'
  <2> DEFINE read == <<ReadInbox(d, unread[d] + 1)>>
             told == IF group THEN <<Group(d)>> ELSE <<>>
             ms == read \o told
  <2>1. d # c /\ unread[c] = 0
    BY <1>1, <1>7 DEF MessageArrives, TypeOK
  <2>2. read \in Seq(Message) /\ told \in Seq(Message)
    <3>1. unread[d] + 1 \in Nat
      BY <1>1 DEF TypeOK
    <3> QED BY <3>1, MessagesAreTyped, EmptySeq
  <2>3. Push(ms)
    BY <1>7 DEF MessageArrives
  <2>4. \A i \in 1..Len(ms) : ~Raises(ms[i], c)
    <3>1. Len(read) = 1 /\ ~Raises(read[1], c)
      BY <2>1 DEF Raises, ReadInbox
    <3>2. Len(told) \in {0, 1} /\ (Len(told) = 1 => ~Raises(told[1], c))
      BY <2>1 DEF Raises, Group
    <3> HIDE DEF read, told
    <3>3. /\ Len(ms) = Len(read) + Len(told)
          /\ \A i \in 1..Len(ms) :
               ms[i] = IF i <= Len(read) THEN read[i] ELSE told[i - Len(read)]
      BY <2>2, ConcatProperties
    <3> HIDE DEF ms
    <3> SUFFICES ASSUME NEW i \in 1..Len(ms) PROVE ~Raises(ms[i], c)
      OBVIOUS
    <3>4. CASE i = 1
      BY <3>1, <3>3, <3>4
    <3>5. CASE i # 1
      <4>1. i = 2 /\ Len(told) = 1 /\ ms[i] = told[1]
        BY <3>1, <3>2, <3>3, <3>5
      <4> QED BY <3>2, <4>1
    <3> QED BY <3>4, <3>5
  <2>5. Quiet(c) => Quiet(c)'
    BY <1>5, <1>7 DEF MessageArrives
  <2>6. ms \in Seq(Message)
    <3> HIDE DEF read, told
    <3> QED BY <2>2, ConcatProperties
  <2> HIDE DEF ms
  <2> QED BY <1>1, <2>1, <2>3, <2>4, <2>5, <2>6, SendKeeps
<1>8. ASSUME NEW d \in Chats, ReadElsewhere(d)
      PROVE  Heard(c)'
  <2> DEFINE ms == <<ReadInbox(d, 0)>>
  <2>1. ms \in Seq(Message) /\ Push(ms)
    BY <1>8, MessagesAreTyped DEF ReadElsewhere
  <2>2. \A i \in 1..Len(ms) : ~Raises(ms[i], c)
    BY DEF Raises, ReadInbox
  <2>3. unread[c] = 0 \/ ms = <<ReadInbox(c, 0)>>
    BY <1>1, <1>8 DEF ReadElsewhere, TypeOK
  <2>4. Quiet(c) => Quiet(c)'
    BY <1>5, <1>8 DEF ReadElsewhere
  <2> HIDE DEF ms
  <2> QED BY <1>1, <2>1, <2>2, <2>3, <2>4, SendKeeps
<1>9. ASSUME NEW d \in Chats, ReadByTheOther(d)
      PROVE  Heard(c)'
  <2> DEFINE ms == <<ReadOutbox(d)>>
  <2>1. ms \in Seq(Message) /\ Push(ms) /\ unread[c] = 0
    BY <1>9, MessagesAreTyped DEF ReadByTheOther, tdlib
  <2>2. \A i \in 1..Len(ms) : ~Raises(ms[i], c)
    BY DEF Raises, ReadOutbox
  <2>3. Quiet(c) => Quiet(c)'
    BY <1>5, <1>9 DEF ReadByTheOther
  <2> HIDE DEF ms
  <2> QED BY <1>1, <2>1, <2>2, <2>3, SendKeeps
<1>10. ASSUME NEW d \in Chats, MuteChanges(d)
       PROVE  Heard(c)'
  <2> DEFINE mute == ~muted[d]
             ms == <<Settings(d, mute)>>
  <2>1. mute \in BOOLEAN
    OBVIOUS
  <2>2. Push(ms) /\ unread[c] = 0
    BY <1>10 DEF MuteChanges
  <2> HIDE DEF mute
  <2>3. ms \in Seq(Message)
    BY <2>1, MessagesAreTyped
  <2>4. \A i \in 1..Len(ms) : ~Raises(ms[i], c)
    BY DEF Raises, Settings
  <2>5. Quiet(c) => Quiet(c)'
    BY <1>5, <1>10 DEF MuteChanges
  <2> HIDE DEF ms
  <2> QED BY <1>1, <2>2, <2>3, <2>4, <2>5, SendKeeps
<1>11. ~Exit
  BY DEF Exit
<1> QED BY <1>2, <1>3, <1>4, <1>6, <1>7, <1>8, <1>9, <1>10, <1>11 DEF Next, Environment

\* The stream matters as long as the application runs.
ReadInv == IdsInv /\ (running => StreamInv)

LEMMA ReadInvInit == Init => ReadInv
<1> SUFFICES ASSUME Init PROVE ReadInv
  OBVIOUS
<1>1. inbox = <<>> /\ screen = {} /\ Waiting = {}
  BY DEF Init, Waiting
<1>2. \A c \in Chats : Calm(c) /\ Quiet(c)
  BY <1>1 DEF Calm, Quiet, Clean
<1> QED BY <1>2, IdsInvInit DEF ReadInv, StreamInv

LEMMA ReadInvStep == ReadInv /\ [Next]_vars => ReadInv'
<1> SUFFICES ASSUME ReadInv, [Next]_vars PROVE ReadInv'
  OBVIOUS
<1>1. IdsInv'
  BY IdsInvStep DEF ReadInv
<1>2. ASSUME running' PROVE StreamInv'
  <2>1. CASE UNCHANGED vars
    <3>1. running /\ StreamInv
      BY <1>2, <2>1 DEF vars, process, ReadInv
    <3>2. ASSUME NEW c \in Chats, unread'[c] = 0
          PROVE  Heard(c)'
      <4>1. /\ UNCHANGED <<inbox, unread>>
            /\ Quiet(c) => Quiet(c)'
        BY <2>1 DEF vars, tdlib, waiting, server, Quiet, Clean, Waiting
      <4> QED BY <3>1, <3>2, <4>1, SameInbox DEF StreamInv, Heard
    <3> QED BY <3>2 DEF StreamInv, Heard
  <2>2. CASE Next
    <3>1. running
      BY <2>2 DEF Next, Handle, Consume, connectionStateChanged, gotNotificationGroup,
                  updateChatReadInbox, getUpdateChatOutbox, updateChatNotificationSettings,
                  PublishTimeout, Environment, ConnectionChanges, MessageArrives, ReadElsewhere,
                  ReadByTheOther, MuteChanges, onViewMessages, UserCloses, OpensOrClosesView,
                  Exit, Happens
    <3> QED BY <1>2, <2>2, <3>1, StreamInvStep DEF ReadInv
  <2> QED BY <2>1, <2>2
<1> QED BY <1>1, <1>2 DEF ReadInv

(* A chat that is read, with nothing under way for it, has no notification on
   the screen and none that waits, except where the manager did not heed that it
   was read. *)
THEOREM ReadIsQuiet == Spec => []NoNotificationForReadChat
<1>1. ReadInv => NoNotificationForReadChat
  <2> SUFFICES ASSUME ReadInv, NEW c \in Chats, unread[c] = 0, ~UnderWay(c), running,
                      c \notin lateRead
               PROVE  Clean(c)
    BY DEF NoNotificationForReadChat, Clean
  <2>1. LastWord(c) \/ Quiet(c)
    BY DEF ReadInv, StreamInv
  <2>2. ~LastWord(c)
    BY DEF LastWord, UnderWay, ReadInbox
  <2> QED BY <2>1, <2>2 DEF Quiet
<1> QED BY <1>1, ReadInvInit, ReadInvStep, PTL DEF Spec
=============================================================================
