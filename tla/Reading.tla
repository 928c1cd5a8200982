-------------------------------- MODULE Reading --------------------------------
(***************************************************************************)
(* Unread messages: how the chat list counts them for the cover, and how   *)
(* the open chat tells TDLib that they were seen.                          *)
(*                                                                         *)
(* ChatsModel keeps the counts of its rows and tells TdlibJsonWrapper the  *)
(* sum at some of the changes.  MessagingModel views the messages of a     *)
(* page when it is loaded, new ones when they come, or, if the page is not *)
(* active then, when it becomes active.  TDLib answers with the count of   *)
(* the chat.  How rows come and go is in ChatList, how the open chat is    *)
(* filled in MessageHistory; here a row is its counts, the open chat is    *)
(* complete once its page is loaded, and a page of the list is any of the  *)
(* chats of the list, as many as fit.                                      *)
(***************************************************************************)
EXTENDS Integers, FiniteSets, SequencesExt

CONSTANTS
  Chats,
  Open,        \* the chat that MessagingModel shows
  PageSize,    \* chats that one getChats answers with
  MaxMessages, \* bound: messages of a chat
  MaxInbox,    \* bound: what TDLib sends of its own accord while the client is behind
  MaxEvents    \* bound: what happens unasked

ASSUME ChatsAssumption == Chats \subseteq Nat /\ IsFiniteSet(Chats) /\ Open \in Chats
ASSUME BoundsAssumption == {PageSize, MaxMessages, MaxInbox, MaxEvents} \subseteq Nat

VARIABLES
  arrived, read,       \* TDLib: the last message, and the last that was read
  mentions, muted, listed,
  requests, inbox,     \* to TDLib, and its updates and answers
  rows,                \* ChatsModel: chat -> counts, or NoRow
  m_totalUnreadCount,  \* TdlibJsonWrapper's, shown by the cover
  stale,               \* the number told last is not the rows' sum (history)
  announced,           \* chats that updates or pages told ChatsModel of, since its
                       \* reset, to be in the list (history)
  m_messages,          \* MessagingModel's, without the pages: ids, or Closed
  unseenMessageIds,
  pageActive, appActive,
  unviewed,            \* messages loaded while the application was not active (history)
  events               \* counts to MaxEvents

tdlib    == <<arrived, read, mentions, muted, listed>>
list     == <<rows, m_totalUnreadCount, stale>>
openChat == <<m_messages, unseenMessageIds, unviewed>>
activity == <<pageActive, appActive>>
vars == <<tdlib, requests, inbox, list, announced, openChat, activity, events>>

NoRow == [counted |-> FALSE]
Row(n, m, mute, last) ==
  [counted |-> TRUE, unread_count |-> n, unread_mention_count |-> m, mute_for |-> mute,
   last_message |-> last]

Closed == {0}
isActive == pageActive /\ appActive

-----------------------------------------------------------------------------
(* TDLib. *)

Happens == events < MaxEvents /\ events' = events + 1

Push(messages) ==
  /\ Len(inbox) + Len(messages) <= MaxInbox
  /\ inbox' = inbox \o messages

Unread(c) == arrived[c] - read[c]

Update(kind, c, value) == [kind |-> kind, chat |-> c, value |-> value]

MessageArrives(c) ==
  /\ Happens
  /\ listed[c]
  /\ arrived[c] < MaxMessages
  /\ arrived' = [arrived EXCEPT ![c] = @ + 1]
  /\ Push(<<Update("newMessage", c, arrived[c] + 1), Update("readInbox", c, Unread(c) + 1),
            Update("lastMessage", c, arrived[c] + 1)>>)
  /\ UNCHANGED <<read, mentions, muted, listed, requests, list, announced, openChat, activity>>

ReadElsewhere(c) ==
  /\ Happens
  /\ Unread(c) > 0
  /\ read' = [read EXCEPT ![c] = arrived[c]]
  /\ Push(<<Update("readInbox", c, 0)>>)
  /\ UNCHANGED <<arrived, mentions, muted, listed, requests, list, announced, openChat, activity>>

MentionsChange(c) ==
  /\ Happens
  /\ mentions' = [mentions EXCEPT ![c] = 1 - @]
  /\ Push(<<Update("mentions", c, 1 - mentions[c])>>)
  /\ UNCHANGED <<arrived, read, muted, listed, requests, list, announced, openChat, activity>>

MuteChanges(c) ==
  /\ Happens
  /\ muted' = [muted EXCEPT ![c] = ~@]
  /\ Push(<<Update("settings", c, ~muted[c])>>)
  /\ UNCHANGED <<arrived, read, mentions, listed, requests, list, announced, openChat, activity>>

ListChanges(c) ==
  /\ Happens
  /\ listed' = [listed EXCEPT ![c] = ~@]
  /\ Push(<<Update("order", c, ~listed[c])>>)
  /\ UNCHANGED <<arrived, read, mentions, muted, requests, list, announced, openChat, activity>>

Request(kind, c, value) == [kind |-> kind, chat |-> c, value |-> value]

Answers ==
  LET request == Head(requests)
      c == request.chat IN
  /\ requests # <<>>
  /\ requests' = Tail(requests)
  /\ \/ /\ request.kind = "viewMessages"
        /\ IF request.value > read[c]
           THEN /\ read' = [read EXCEPT ![c] = request.value]
                /\ inbox' = Append(inbox, Update("readInbox", c, arrived[c] - request.value))
           ELSE UNCHANGED <<read, inbox>>
     \/ /\ request.kind = "getChat"
        /\ inbox' = Append(inbox, Update("chat", c,
                                         Row(Unread(c), mentions[c], muted[c], arrived[c])))
        /\ UNCHANGED read
     \/ /\ request.kind = "getChats"
        /\ \E page \in SUBSET {d \in Chats : listed[d]} :
             /\ Cardinality(page) <= PageSize
             /\ inbox' = Append(inbox, Update("chats", c, page))
        /\ UNCHANGED read
     \/ /\ request.kind = "getChatHistory"
        /\ inbox' = Append(inbox, Update("messages", c, 1..arrived[c]))
        /\ UNCHANGED read
  /\ UNCHANGED <<arrived, mentions, muted, listed, list, announced, openChat, activity, events>>

-----------------------------------------------------------------------------
(* ChatsModel. *)

HasRow(c) == rows[c].counted

\* The sum over the chats: the pairs of a chat and a number up to its own.
Sum(number) == Cardinality(UNION {{c} \X (1..number[c]) : c \in Chats})

\* Mutant: muted chats are counted.
totalUnreadCount_Muted(chats) ==
  Sum([c \in Chats |->
         IF chats[c].counted THEN chats[c].unread_mention_count + chats[c].unread_count ELSE 0])

totalUnreadCount(chats) ==
  Sum([c \in Chats |->
         IF ~chats[c].counted THEN 0
         ELSE chats[c].unread_mention_count
              + IF chats[c].mute_for THEN 0 ELSE chats[c].unread_count])

\* The rows change, and the signal is emitted or not.
Tells(chats) ==
  /\ rows' = chats
  /\ m_totalUnreadCount' = totalUnreadCount(chats)
  /\ stale' = FALSE

KeepsQuiet(chats) ==
  /\ rows' = chats
  /\ stale' = (stale \/ totalUnreadCount(chats) # totalUnreadCount(rows))
  /\ UNCHANGED m_totalUnreadCount

Received == Head(inbox)

\* The chats that an update or a page puts into the list, or out of it.
Enters(u) ==
  {c \in Chats : \/ u.chat = c /\ u.kind = "lastMessage"
                 \/ u.chat = c /\ u.kind = "order" /\ u.value
                 \/ u.kind = "chats" /\ c \in u.value}
Leaving(u) == {c \in Chats : u.chat = c /\ u.kind = "order" /\ ~u.value}

Consume(kind) ==
  /\ inbox # <<>>
  /\ Received.kind = kind
  /\ inbox' = Tail(inbox)
  /\ announced' = (announced \ Leaving(Received)) \cup Enters(Received)
  /\ UNCHANGED <<tdlib, activity, events>>

updateChatMentionCount ==
  LET c == Received.chat IN
  /\ Consume("mentions")
  /\ IF HasRow(c)
     THEN Tells([rows EXCEPT ![c].unread_mention_count = Received.value])
     ELSE UNCHANGED list
  /\ UNCHANGED <<requests, openChat>>

updateChatNotificationSettings ==
  LET c == Received.chat IN
  /\ Consume("settings")
  /\ IF HasRow(c)
     THEN KeepsQuiet([rows EXCEPT ![c].mute_for = Received.value])
     ELSE UNCHANGED list
  /\ UNCHANGED <<requests, openChat>>

\* Mutant: the count is added to the one the row has.
updateChatReadInbox_Adds ==
  LET c == Received.chat IN
  /\ Consume("readInbox")
  /\ IF HasRow(c)
     THEN Tells([rows EXCEPT ![c].unread_count = @ + Received.value])
     ELSE UNCHANGED list
  /\ UNCHANGED <<requests, openChat>>

\* A muted chat is not counted, so that nothing is told.
updateChatReadInbox ==
  LET c == Received.chat
      counted == [rows EXCEPT ![c].unread_count = Received.value] IN
  /\ Consume("readInbox")
  /\ IF ~HasRow(c) THEN UNCHANGED list
     ELSE IF rows[c].mute_for THEN KeepsQuiet(counted) ELSE Tells(counted)
  /\ UNCHANGED <<requests, openChat>>

getChat(c) == requests' = Append(requests, Request("getChat", c, 0))

updateChatLastMessage ==
  LET c == Received.chat IN
  /\ Consume("lastMessage")
  /\ IF HasRow(c)
     THEN KeepsQuiet([rows EXCEPT ![c].last_message = Received.value]) /\ UNCHANGED requests
     ELSE getChat(c) /\ UNCHANGED list
  /\ UNCHANGED openChat

\* A chat that leaves the list loses its row, one that enters it is asked for.
updateChatOrder ==
  LET c == Received.chat IN
  /\ Consume("order")
  /\ \/ /\ Received.value /\ ~HasRow(c)
        /\ getChat(c)
        /\ UNCHANGED list
     \/ /\ ~Received.value /\ HasRow(c)
        /\ KeepsQuiet([rows EXCEPT ![c] = NoRow])
        /\ UNCHANGED requests
     \/ /\ Received.value = HasRow(c)
        /\ UNCHANGED <<requests, list>>
  /\ UNCHANGED openChat

addChat ==
  LET c == Received.chat IN
  /\ Consume("chat")
  /\ IF HasRow(c) THEN UNCHANGED list ELSE KeepsQuiet([rows EXCEPT ![c] = Received.value])
  /\ UNCHANGED <<requests, openChat>>

addChats ==
  LET chat_ids == SetToSeq(Received.value) IN
  /\ Consume("chats")
  /\ requests' = requests \o [i \in 1..Len(chat_ids) |-> Request("getChat", chat_ids[i], 0)]
  /\ UNCHANGED <<list, openChat>>

getChats == requests' = Append(requests, Request("getChats", Open, 0))

\* The view scrolls to the last row, of ChatsPage or of SelectChatDialog: the
\* answer carries no @extra, so that every ChatsModel takes it.  That a model
\* asks for no page while fetchPending is left open: this asks more often.
fetchMore ==
  /\ Happens
  /\ getChats
  /\ UNCHANGED <<tdlib, inbox, list, announced, openChat, activity>>

\* reset asks for the first page only.
reset ==
  /\ Happens
  /\ Tells([c \in Chats |-> NoRow])
  /\ announced' = {}
  /\ getChats
  /\ UNCHANGED <<tdlib, inbox, openChat, activity>>

\* What TDLib would count.
Counted(c) == IF listed[c] THEN mentions[c] + IF muted[c] THEN 0 ELSE Unread(c) ELSE 0
SumOver(chats) == Sum([c \in Chats |-> IF c \in chats THEN Counted(c) ELSE 0])

\* The ChatsModel of SelectChatDialog tells the sum over the rows it has.
otherModelTells ==
  /\ Happens
  /\ \E chats \in SUBSET Chats : m_totalUnreadCount' = SumOver(chats)
  /\ stale' = TRUE
  /\ UNCHANGED <<tdlib, requests, inbox, rows, announced, openChat, activity>>

\* "Mark as read" of the menu of a chat; the other branch marks it as unread,
\* which changes no count.
markAsUnread(c) ==
  /\ Happens
  /\ HasRow(c)
  /\ rows[c].unread_count > 0
  /\ requests' = Append(requests, Request("viewMessages", c, rows[c].last_message))
  /\ UNCHANGED <<tdlib, inbox, list, announced, openChat, activity>>

-----------------------------------------------------------------------------
(* MessagingModel. *)

Highest(ids) == CHOOSE m \in ids : \A n \in ids : n <= m

\* Dropped, and not kept for later, unless the application is active.
viewMessages(ids, active) ==
  IF active /\ ids # {}
  THEN requests' = Append(requests, Request("viewMessages", Open, Highest(ids)))
  ELSE UNCHANGED requests

\* The page is opened; later pages bring older messages.
setPeerId ==
  /\ Happens
  /\ m_messages = Closed
  /\ m_messages' = {}
  /\ requests' = Append(requests, Request("getChatHistory", Open, 0))
  /\ UNCHANGED <<tdlib, inbox, list, announced, unseenMessageIds, unviewed, activity>>

addMessages ==
  /\ Consume("messages")
  /\ m_messages' = Received.value
  /\ viewMessages(Received.value, appActive)
  /\ unviewed' = unviewed \cup IF appActive THEN {} ELSE Received.value
  /\ UNCHANGED <<list, unseenMessageIds>>

\* The model listens to updates when the page is there.
Listening(c) ==
  /\ c = Open
  /\ m_messages # Closed
  /\ \A i \in 1..Len(requests) : requests[i].kind # "getChatHistory"
  /\ \A i \in 1..Len(inbox) : inbox[i].kind # "messages"

addMessageFromUpdate ==
  LET id == Received.value IN
  /\ Consume("newMessage")
  /\ IF Listening(Received.chat)
     THEN /\ m_messages' = m_messages \cup {id}
          /\ viewMessages({id}, isActive)
          /\ unseenMessageIds' = unseenMessageIds \cup IF isActive THEN {} ELSE {id}
     ELSE UNCHANGED <<m_messages, requests, unseenMessageIds>>
  /\ UNCHANGED <<list, unviewed>>

\* Mutant: the messages are forgotten before they are viewed.
onActiveChanged_ClearsFirst(active) ==
  /\ viewMessages({}, appActive')
  /\ unseenMessageIds' = IF active THEN {} ELSE unseenMessageIds

onActiveChanged(active) ==
  /\ viewMessages(IF active THEN unseenMessageIds ELSE {}, appActive')
  /\ unseenMessageIds' = IF active THEN {} ELSE unseenMessageIds

\* Another page, or another application, covers the page or makes way for it.
ActivityChanges ==
  /\ Happens
  /\ m_messages # Closed
  /\ \/ pageActive' = ~pageActive /\ UNCHANGED appActive
     \/ appActive' = ~appActive /\ UNCHANGED pageActive
  /\ IF isActive' # isActive THEN onActiveChanged(isActive')
     ELSE UNCHANGED <<requests, unseenMessageIds>>
  /\ UNCHANGED <<tdlib, inbox, list, announced, m_messages, unviewed>>

Handle ==
  \/ updateChatMentionCount \/ updateChatNotificationSettings \/ updateChatReadInbox
  \/ updateChatLastMessage \/ updateChatOrder \/ addChat \/ addChats
  \/ addMessages \/ addMessageFromUpdate

-----------------------------------------------------------------------------
Init ==
  /\ arrived = [c \in Chats |-> 0]
  /\ read = [c \in Chats |-> 0]
  /\ mentions = [c \in Chats |-> 0]
  /\ muted \in [Chats -> BOOLEAN]
  /\ listed = [c \in Chats |-> TRUE]
  /\ requests = <<>>
  /\ inbox = <<>>
  /\ announced \in SUBSET Chats
  /\ rows = [c \in Chats |-> IF c \in announced THEN Row(0, 0, muted[c], 0) ELSE NoRow]
  /\ m_totalUnreadCount = 0
  /\ stale = FALSE
  /\ m_messages = Closed
  /\ unseenMessageIds = {}
  /\ pageActive = TRUE
  /\ appActive = TRUE
  /\ unviewed = {}
  /\ events = 0

User ==
  \/ setPeerId \/ ActivityChanges \/ reset \/ fetchMore \/ otherModelTells
  \/ \E c \in Chats : markAsUnread(c)

Environment ==
  \E c \in Chats :
    \/ MessageArrives(c) \/ ReadElsewhere(c) \/ MentionsChange(c) \/ MuteChanges(c)
    \/ ListChanges(c)

Next == Handle \/ Answers \/ User \/ Environment

\* The event loop runs and TDLib does what it is asked for.
Fairness == WF_vars(Handle) /\ WF_vars(Answers)

Spec == Init /\ [][Next]_vars
FairSpec == Spec /\ Fairness

-----------------------------------------------------------------------------
(* Properties. *)

Counts == 0..MaxMessages

(* Every variable keeps its type. *)
TypeOK ==
  /\ {arrived, read} \subseteq [Chats -> Counts]
  /\ \A c \in Chats : read[c] <= arrived[c]
  /\ mentions \in [Chats -> 0..1]
  /\ {muted, listed} \subseteq [Chats -> BOOLEAN]
  /\ \A i \in 1..Len(requests) : requests[i].chat \in Chats /\ requests[i].value \in Counts
  /\ \A i \in 1..Len(inbox) : inbox[i].chat \in Chats
  /\ \A c \in Chats :
       rows[c] \in {NoRow} \cup {Row(n, m, mute, last) :
                                   n \in Counts, m \in 0..1, mute \in BOOLEAN, last \in Counts}
  /\ m_totalUnreadCount \in Nat
  /\ announced \subseteq Chats
  /\ m_messages = Closed \/ m_messages \subseteq 1..MaxMessages
  /\ unseenMessageIds \subseteq m_messages
  /\ unviewed \subseteq 1..MaxMessages
  /\ {stale, pageActive, appActive} \subseteq BOOLEAN
  /\ events \in 0..MaxEvents

Quiet == inbox = <<>> /\ requests = <<>>

(* When nothing is under way the cover shows the unread messages of the chats
   that are not muted, and the mentions of all, over the chats of the list that
   have a row and those that ChatsModel was told of since its reset: none of
   these is lost.  Chats of pages that the view has not scrolled to
   (ChatsModel.cpp:356-363) are not in the sum.  Excluded too: a row came, went
   or was muted after the sum was told for the last time, or the ChatsModel of
   SelectChatDialog told its own (stale), and a chat that has left the list got
   a row (AddedRowsHaveOrder of ChatList). *)
BadgeCurrent ==
  Quiet /\ ~stale /\ (\A c \in Chats : HasRow(c) => listed[c]) =>
    m_totalUnreadCount = SumOver({c \in Chats : HasRow(c)} \cup announced)

(* A message in the open chat is read on the server in the end while the page
   stays active, whether it came before the page was active or after, unless
   it was loaded when the application was not active. *)
EventuallyRead ==
  \A m \in 1..MaxMessages :
    m \in m_messages /\ isActive ~> read[Open] >= m \/ ~isActive \/ m \in unviewed
=============================================================================
