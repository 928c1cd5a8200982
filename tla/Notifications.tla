----------------------------- MODULE Notifications -----------------------------
(***************************************************************************)
(* NotificationManager: which chats have a notification on the screen.     *)
(*                                                                         *)
(* TDLib tells of messages, of reading here and elsewhere and of the       *)
(* connection through one stream that the main thread handles in order.    *)
(* A new notification waits in m_chatIdsToPublish for a timer of a second; *)
(* when it runs out everything that waits is published, if the connection  *)
(* is ready.  The notification server knows a notification by an id, which *)
(* a later one of the same chat replaces.                                  *)
(*                                                                         *)
(* Texts, item counts and the difference between notifySummary and         *)
(* notifyPreview (how it looks) are left out.                              *)
(***************************************************************************)
EXTENDS Integers, Sequences, FiniteSets

CONSTANTS
  Chats,              \* chat ids, the keys of the maps
  ConnectionStates,   \* TDLib's, with "Connecting" and "Ready"
  QuitOnCloseUi,      \* the setting: no daemon without the user interface
  MaxMessages,        \* bound: messages of one chat not read
  MaxInbox,           \* bound: updates not handled yet
  MaxEvents           \* bound: what TDLib and the user do

ASSUME ChatsAssumption == Chats \subseteq Int /\ IsFiniteSet(Chats)
ASSUME StatesAssumption == {"Connecting", "Ready"} \subseteq ConnectionStates
ASSUME SettingAssumption == QuitOnCloseUi \in BOOLEAN
ASSUME BoundsAssumption == {MaxMessages, MaxInbox, MaxEvents} \subseteq Nat

VARIABLES
  connection, unread, muted,   \* TDLib's
  inbox,                       \* updates on their way to the main thread
  m_connectionState, isAtFirstLoaded,
  m_chatIdsToPublish,          \* chat -> id to replace, or Nothing
  m_chatIdsPublished,          \* chat -> id on the server, or Nothing
  publishTimer,                \* m_PublishTimer is active
  mute_for,                    \* UsersModel: whether a chat is taken as muted
  viewOpen,                    \* the pages exist, and with them ChatsModel
  screen,                      \* what the server shows: [id, chat]
  lastId,                      \* the last id the server gave
  running,
  lateRead,                    \* chats read while the reading was not heeded (history)
  expired,                     \* the timer ran out last while not ready (history)
  events                       \* counts to MaxEvents

tdlib    == <<connection, unread, muted>>
waiting  == <<m_chatIdsToPublish, publishTimer, expired>>
server   == <<screen, lastId>>
process  == <<viewOpen, running>>
vars == <<tdlib, inbox, m_connectionState, isAtFirstLoaded, waiting, m_chatIdsPublished,
          mute_for, server, process, lateRead, events>>

Nothing == -1   \* no entry in the map
NoId == 0       \* a notification without an id

-----------------------------------------------------------------------------
(* TDLib, other devices and other people. *)

Happens ==
  /\ running
  /\ events < MaxEvents
  /\ events' = events + 1

Push(messages) ==
  /\ Len(inbox) + Len(messages) <= MaxInbox
  /\ inbox' = inbox \o messages

Connection(state) == [kind |-> "connection", state |-> state]
Group(c)          == [kind |-> "group", chat |-> c]
ReadInbox(c, n)   == [kind |-> "readInbox", chat |-> c, unread_count |-> n]
ReadOutbox(c)     == [kind |-> "readOutbox", chat |-> c]
Settings(c, mute) == [kind |-> "settings", chat |-> c, mute |-> mute]

Message ==
  [kind : {"connection"}, state : ConnectionStates]
    \cup [kind : {"group", "readOutbox"}, chat : Chats]
    \cup [kind : {"readInbox"}, chat : Chats, unread_count : Nat]
    \cup [kind : {"settings"}, chat : Chats, mute : BOOLEAN]

manager == <<m_connectionState, isAtFirstLoaded, waiting, m_chatIdsPublished, mute_for,
             server, process, lateRead>>

ConnectionChanges(state) ==
  /\ Happens
  /\ state # connection
  /\ connection' = state
  /\ Push(<<Connection(state)>>)
  /\ UNCHANGED <<unread, muted, manager>>

\* TDLib tells the number of unread messages, and of the message itself in a
\* notification group if the chat is not muted and it is not catching up.
MessageArrives(c, group) ==
  /\ Happens
  /\ unread[c] < MaxMessages
  /\ group => ~muted[c]
  /\ unread' = [unread EXCEPT ![c] = @ + 1]
  /\ Push(<<ReadInbox(c, unread[c] + 1)>>
          \o IF group THEN <<Group(c)>> ELSE <<>>)
  /\ UNCHANGED <<connection, muted, manager>>

ReadElsewhere(c) ==
  /\ Happens
  /\ unread[c] > 0
  /\ unread' = [unread EXCEPT ![c] = 0]
  /\ Push(<<ReadInbox(c, 0)>>)
  /\ UNCHANGED <<connection, muted, manager>>

ReadByTheOther(c) ==
  /\ Happens
  /\ Push(<<ReadOutbox(c)>>)
  /\ UNCHANGED <<tdlib, manager>>

MuteChanges(c) ==
  /\ Happens
  /\ muted' = [muted EXCEPT ![c] = ~@]
  /\ Push(<<Settings(c, ~muted[c])>>)
  /\ UNCHANGED <<connection, unread, manager>>

-----------------------------------------------------------------------------
(* The map of published notifications. *)

\* Closing one that the user has closed before does nothing.
Closed(chats) == {n \in screen : \A c \in chats : n.id # m_chatIdsPublished[c]}

\* Mutant: the notification is forgotten and stays on the screen.
removeNotification_Open(c) ==
  /\ m_chatIdsPublished' = [m_chatIdsPublished EXCEPT ![c] = Nothing]
  /\ UNCHANGED screen

removeNotification(c) ==
  /\ screen' = Closed({c})
  /\ m_chatIdsPublished' = [m_chatIdsPublished EXCEPT ![c] = Nothing]

removeAll ==
  /\ screen' = Closed(Chats)
  /\ m_chatIdsPublished' = [c \in Chats |-> Nothing]

\* Mutant: the new notification does not replace the published one.
notify_New(c) ==
  /\ m_chatIdsToPublish' = [m_chatIdsToPublish EXCEPT ![c] = NoId]
  /\ publishTimer' = TRUE
  /\ expired' = FALSE

\* Mutant: the timer is started until the connection has changed only, as in
\* the code commented out.
notify_AtFirst(c) ==
  /\ m_chatIdsToPublish' =
       [m_chatIdsToPublish EXCEPT ![c] =
          IF m_chatIdsPublished[c] = Nothing THEN NoId ELSE m_chatIdsPublished[c]]
  /\ publishTimer' = (publishTimer \/ isAtFirstLoaded)
  /\ expired' = FALSE

\* notifySummary and notifyPreview: what waited for the chat is replaced.
notify(c) ==
  /\ m_chatIdsToPublish' =
       [m_chatIdsToPublish EXCEPT ![c] =
          IF m_chatIdsPublished[c] = Nothing THEN NoId ELSE m_chatIdsPublished[c]]
  /\ publishTimer' = TRUE
  /\ expired' = FALSE

Waiting == {c \in Chats : m_chatIdsToPublish[c] # Nothing}
WithoutId == {c \in Waiting : m_chatIdsToPublish[c] = NoId}

\* Mutant: the server skips an id.
IdOf_Skips(c) ==
  IF c \in WithoutId
  THEN lastId + Cardinality({d \in WithoutId : d <= c}) + 1
  ELSE m_chatIdsToPublish[c]

\* The server gives new ids in the order of publishing, the order of the keys.
IdOf(c) ==
  IF c \in WithoutId
  THEN lastId + Cardinality({d \in WithoutId : d <= c})
  ELSE m_chatIdsToPublish[c]

\* An id the server does not know, since the user has closed it: it is shown
\* under that id or ignored.
Unknown == {c \in Waiting \ WithoutId : \A n \in screen : n.id # IdOf(c)}

Show ==
  \E ignored \in SUBSET Unknown :
    screen' = {n \in screen : \A c \in Waiting : n.id # IdOf(c)}
                \cup {[id |-> IdOf(c), chat |-> c] : c \in Waiting \ ignored}

publishNotifications(state) ==
  IF state = "Ready"
  THEN /\ Show
       /\ lastId' = lastId + Cardinality(WithoutId)
       /\ m_chatIdsPublished' =
            [c \in Chats |-> IF c \in Waiting THEN IdOf(c) ELSE m_chatIdsPublished[c]]
       /\ m_chatIdsToPublish' = [c \in Chats |-> Nothing]
  ELSE UNCHANGED <<server, m_chatIdsPublished, m_chatIdsToPublish>>

-----------------------------------------------------------------------------
(* The main thread. *)

Received == Head(inbox)

Consume(kind) ==
  /\ running
  /\ inbox # <<>>
  /\ Received.kind = kind
  /\ inbox' = Tail(inbox)
  /\ UNCHANGED <<tdlib, process, events>>

settled == <<m_connectionState, isAtFirstLoaded, mute_for>>

\* The lambda connected to connectionStateChanged.
connectionStateChanged ==
  /\ Consume("connection")
  /\ m_connectionState' = Received.state
  /\ isAtFirstLoaded' = (isAtFirstLoaded /\ Received.state = m_connectionState)
  /\ IF isAtFirstLoaded /\ Received.state # m_connectionState
     THEN publishNotifications(Received.state)
     ELSE UNCHANGED <<server, m_chatIdsPublished, m_chatIdsToPublish>>
  /\ UNCHANGED <<publishTimer, expired, mute_for, lateRead>>

gotNotificationGroup ==
  /\ Consume("group")
  /\ notify(Received.chat)
  /\ UNCHANGED <<settled, m_chatIdsPublished, server, lateRead>>

\* The lambda connected to updateChatReadInbox, before the connection is ready.
\* setItemCount does not publish.
unreadBeforeReady(c) ==
  IF ~mute_for[c] /\ Received.unread_count > 0
  THEN /\ IF m_chatIdsPublished[c] = Nothing THEN notify(c) ELSE UNCHANGED waiting
       /\ UNCHANGED <<m_chatIdsPublished, screen>>
  ELSE removeNotification(c) /\ UNCHANGED waiting

\* Mutant: what waits for the chat goes on waiting.
readWhenReady_Waits(c) ==
  /\ removeNotification(c)
  /\ UNCHANGED waiting

\* The chat was read on another device.
readWhenReady(c) ==
  /\ removeNotification(c)
  /\ m_chatIdsToPublish' = [m_chatIdsToPublish EXCEPT ![c] = Nothing]
  /\ UNCHANGED <<publishTimer, expired>>

updateChatReadInbox ==
  LET c == Received.chat
      heeded == m_connectionState = "Ready" /\ ~mute_for[c] IN
  /\ Consume("readInbox")
  /\ \/ /\ m_connectionState # "Ready"
        /\ unreadBeforeReady(c)
     \/ /\ heeded /\ Received.unread_count = 0
        /\ readWhenReady(c)
     \/ /\ m_connectionState = "Ready"
        /\ mute_for[c] \/ Received.unread_count > 0
        /\ UNCHANGED <<waiting, m_chatIdsPublished, screen>>
  /\ lateRead' = IF Received.unread_count > 0 THEN lateRead
                 ELSE IF heeded THEN lateRead \ {c} ELSE lateRead \cup {c}
  /\ UNCHANGED <<settled, lastId>>

getUpdateChatOutbox ==
  /\ Consume("readOutbox")
  /\ removeNotification(Received.chat)
  /\ UNCHANGED <<settled, waiting, lastId, lateRead>>

\* ChatsModel brings the settings to UsersModel; without a view there is none.
updateChatNotificationSettings ==
  /\ Consume("settings")
  /\ mute_for' = [mute_for EXCEPT ![Received.chat] =
                    IF viewOpen THEN Received.mute ELSE @]
  /\ UNCHANGED <<m_connectionState, isAtFirstLoaded, waiting, m_chatIdsPublished, server,
                 lateRead>>

Handle ==
  \/ connectionStateChanged \/ gotNotificationGroup \/ updateChatReadInbox
  \/ getUpdateChatOutbox \/ updateChatNotificationSettings

\* The timer is a single shot and is not started again here.
PublishTimeout ==
  /\ running
  /\ publishTimer
  /\ publishTimer' = FALSE
  /\ publishNotifications(m_connectionState)
  /\ expired' = (m_connectionState # "Ready")
  /\ UNCHANGED <<tdlib, inbox, settled, process, lateRead, events>>

-----------------------------------------------------------------------------
(* The user. *)

\* MessagingModel::viewMessages: TDLib is told, and then the manager.
onViewMessages(c) ==
  /\ Happens
  /\ viewOpen
  /\ unread[c] > 0
  /\ removeNotification(c)
  /\ unread' = [unread EXCEPT ![c] = 0]
  /\ Push(<<ReadInbox(c, 0)>>)
  /\ UNCHANGED <<connection, muted, settled, waiting, lastId, process, lateRead>>

\* The lambda connected to closed asks for sender(), which is null in a lambda
\* without a context object, and removes nothing.  The objects that have the id
\* may lose it.
UserCloses(n) ==
  LET WithoutIt(ids) == [c \in Chats |-> IF ids[c] = n.id THEN NoId ELSE ids[c]] IN
  /\ Happens
  /\ screen' = screen \ {n}
  /\ \/ UNCHANGED <<m_chatIdsPublished, m_chatIdsToPublish>>
     \/ /\ m_chatIdsPublished' = WithoutIt(m_chatIdsPublished)
        /\ m_chatIdsToPublish' = WithoutIt(m_chatIdsToPublish)
  /\ UNCHANGED <<tdlib, inbox, settled, publishTimer, expired, lastId, process, lateRead>>

OpensOrClosesView ==
  /\ Happens
  /\ viewOpen' = ~viewOpen
  /\ UNCHANGED <<tdlib, inbox, settled, waiting, m_chatIdsPublished, server, running,
                 lateRead>>

\* aboutToQuit is connected to removeAll unless the view's end quits.
Exit ==
  /\ running
  /\ running' = FALSE
  /\ QuitOnCloseUi => ~viewOpen
  /\ IF QuitOnCloseUi THEN UNCHANGED <<screen, m_chatIdsPublished>> ELSE removeAll
  /\ UNCHANGED <<tdlib, inbox, settled, waiting, lastId, viewOpen, lateRead, events>>

-----------------------------------------------------------------------------
Init ==
  /\ connection = "WaitingForNetwork"
  /\ unread = [c \in Chats |-> 0]
  /\ muted \in [Chats -> BOOLEAN]
  /\ inbox = <<>>
  /\ m_connectionState = "Connecting"
  /\ isAtFirstLoaded = TRUE
  /\ m_chatIdsToPublish = [c \in Chats |-> Nothing]
  /\ m_chatIdsPublished = [c \in Chats |-> Nothing]
  /\ publishTimer = FALSE
  /\ mute_for = muted
  /\ viewOpen = QuitOnCloseUi
  /\ screen = {}
  /\ lastId = 0
  /\ running = TRUE
  /\ lateRead = {}
  /\ expired = FALSE
  /\ events = 0

Environment ==
  \/ \E state \in ConnectionStates : ConnectionChanges(state)
  \/ \E c \in Chats :
       \/ \E group \in BOOLEAN : MessageArrives(c, group)
       \/ ReadElsewhere(c) \/ ReadByTheOther(c) \/ MuteChanges(c) \/ onViewMessages(c)
  \/ \E n \in screen : UserCloses(n)
  \/ OpensOrClosesView
  \/ Exit

Next == Handle \/ PublishTimeout \/ Environment

\* The event loop runs: it handles what comes and the timer fires.
Fairness == WF_vars(Handle) /\ WF_vars(PublishTimeout)

Spec == Init /\ [][Next]_vars
FairSpec == Spec /\ Fairness

-----------------------------------------------------------------------------
(* Properties. *)

Entries == {Nothing} \cup Nat

(* Every variable keeps its type. *)
TypeOK ==
  /\ connection \in ConnectionStates \cup {"WaitingForNetwork"}
  /\ unread \in [Chats -> Nat]
  /\ muted \in [Chats -> BOOLEAN]
  /\ inbox \in Seq(Message)
  /\ m_connectionState \in ConnectionStates
  /\ isAtFirstLoaded \in BOOLEAN
  /\ m_chatIdsToPublish \in [Chats -> Entries]
  /\ m_chatIdsPublished \in [Chats -> Entries]
  /\ publishTimer \in BOOLEAN
  /\ mute_for \in [Chats -> BOOLEAN]
  /\ viewOpen \in BOOLEAN
  /\ screen \subseteq [id : 1..lastId, chat : Chats]
  /\ lastId \in Nat
  /\ running \in BOOLEAN
  /\ lateRead \subseteq Chats
  /\ expired \in BOOLEAN
  /\ events \in 0..MaxEvents

(* A chat has one notification on the screen at most: a later one replaces the
   one before, whatever was closed, viewed or read between the two. *)
OnePerChat == \A m, n \in screen : m.chat = n.chat => m = n

(* Whatever is on the screen while the application runs can be found in the map
   of published notifications under its chat, so that reading the chat takes it
   away. *)
NothingLeftBehind == running => \A n \in screen : m_chatIdsPublished[n.chat] = n.id

UnderWay(c) ==
  \E i \in 1..Len(inbox) : inbox[i].kind # "connection" /\ inbox[i].chat = c

(* When nothing is under way for a chat that is read, it has no notification on
   the screen and none that waits, unless the reading came before the
   connection was ready or for a chat UsersModel takes as muted. *)
NoNotificationForReadChat ==
  \A c \in Chats :
    unread[c] = 0 /\ ~UnderWay(c) /\ running /\ c \notin lateRead
    => c \notin Waiting /\ \A n \in screen : n.chat # c

(* A notification that waits is published or withdrawn, if the connection stays
   ready and the timer did not run out before it was. *)
EventuallyPublished ==
  \A c \in Chats :
    c \in Waiting /\ ~expired
      ~> c \notin Waiting \/ m_connectionState # "Ready" \/ ~running
=============================================================================
