---------------------------- MODULE MessageHistory ----------------------------
(***************************************************************************)
(* The open chat (tdlibQt/models/MessagingModel.cpp): rows come from pages *)
(* of getChatHistory and, once the list has reached the chat's last        *)
(* message, from updateNewMessage.  The hand-over from pages to updates is *)
(* what this module is about: isUpdateConnected becomes true inside the    *)
(* handler that appends the message m_lastMessage names, and from then on  *)
(* no page is needed at the new end.                                       *)
(*                                                                         *)
(* As in ChatList, TDLib's updates and answers reach the main thread in    *)
(* one FIFO stream and each handler is one action; TDLib answers requests  *)
(* in any order.  Message ids grow: a message being sent has an id above   *)
(* all others and gets a new one when the server has taken it.             *)
(*                                                                         *)
(* A row keeps its id_ and whether it is the "new message separator",      *)
(* which carries the id of the message above it.                           *)
(***************************************************************************)
EXTENDS Integers, FiniteSets, Sequences, SequencesExt, FiniteSetsExt

CONSTANTS
  Stored,        \* messages in the chat at the start: ids 1..Stored
  Replies,       \* ids of the messages that answer another message
  MESSAGE_LIMIT, \* size of a page (50 in the code)
  Newer,         \* messages after the first unread one in the first page (10)
  MaxEvents,     \* bound: messages that arrive, are sent or deleted, searches
  MaxInbox       \* bound: messages in inbox when TDLib sends an update

ASSUME SizesAssumption ==
  /\ Stored \in Nat
  /\ Replies \subseteq Nat
  /\ MESSAGE_LIMIT \in Nat \ {0}
  /\ Newer \in 0..(MESSAGE_LIMIT - 1)
  /\ MaxEvents \in Nat
  /\ MaxInbox \in Nat

VARIABLES
  \* TDLib
  chat,           \* ids of the chat's messages
  sending,        \* those the server has not taken yet
  newest,         \* highest id ever given
  requests,       \* getChatHistory requests not answered yet
  others,         \* requests not answered yet whose answer holds no rows:
                  \* getReplies, searches, forwards
  inbox,          \* updates and answers not handled yet, oldest first
  \* UsersModel
  lastMessageId,  \* last_message_ of the chat
  \* MessagingModel
  m_peerId,       \* the chat has been opened
  m_messages,
  m_lastMessage,
  m_lastMessageInbox,
  m_lastOutboxId,
  m_fetching,
  m_reachedHistoryEnd,
  isUpdateConnected,
  crashed,        \* last() was called on an empty list
  \* history, read by no action
  trouble,        \* what has happened that the list does not recover from
  dropped,        \* messages whose update came too early for the open chat
  misled,         \* another chat's end was taken for this one's
  events          \* counts towards MaxEvents

server == <<chat, sending, newest>>
peer   == <<m_peerId, m_lastMessageInbox, m_lastOutboxId>>
view   == <<m_messages, m_lastMessage, isUpdateConnected>>
flags  == <<m_fetching, m_reachedHistoryEnd, misled>>
past   == <<trouble, dropped>>
vars   == <<server, requests, others, inbox, lastMessageId, peer, view, flags,
            crashed, past, events>>

Troubles == {
  "overlap",    \* a page was asked for before the one asked for came
  "early",      \* an own message was appended before the list was at its end
  "disorder",   \* a page was asked for, or came, while an own message was out
                \* of order
  "emptied",    \* a first page was asked for again, with updates connected
  "renamed",    \* a row was deleted by an id TDLib had replaced already
  "sendFailed", \* an own message was refused: updateMessageSendFailed is lost
  "error"}      \* a page was answered with an error

Row(id) == [id |-> id, separator |-> FALSE]
Separator(id) == [id |-> id, separator |-> TRUE]

RowIds == {m_messages[i].id : i \in 1..Len(m_messages)}
FirstRow(id) == SelectInSeq(m_messages, LAMBDA row : row.id = id)

\* The numbers of S, the smallest first.
InOrder(S) ==
  [k \in 1..Cardinality(S) |-> CHOOSE x \in S : Cardinality({y \in S : y < x}) = k - 1]

\* What s has at the positions of P, in the order of s.
At(s, P) == [k \in 1..Cardinality(P) |-> s[InOrder(P)[k]]]

Ascending ==
  \A i, j \in 1..Len(m_messages) :
    i < j => \/ m_messages[i].id < m_messages[j].id
             \/ m_messages[j].separator /\ m_messages[i].id = m_messages[j].id

-----------------------------------------------------------------------------
(* TDLib. *)

Message(id) == [id |-> id, sending |-> id \in sending]
NewMessage(id, own) ==
  [kind |-> "updateNewMessage", message |-> [id |-> id, sending |-> own]]
LastMessage(id) == [kind |-> "updateChatLastMessage", id |-> id]

Backlog == Len(inbox) >= MaxInbox
HappensOnce ==
  /\ events < MaxEvents
  /\ events' = events + 1

MessageArrives ==
  /\ ~Backlog
  /\ HappensOnce
  /\ newest' = newest + 1
  /\ chat' = chat \cup {newest'}
  /\ inbox' = inbox \o <<NewMessage(newest', FALSE), LastMessage(newest')>>
  /\ UNCHANGED <<sending, requests, others, lastMessageId, peer, view, flags,
                 crashed, past>>

\* sendTextMessage and its like: TDLib announces the message, then answers
\* the request with it.
sendMessage ==
  /\ m_peerId
  /\ ~Backlog
  /\ HappensOnce
  /\ newest' = newest + 1
  /\ chat' = chat \cup {newest'}
  /\ sending' = sending \cup {newest'}
  /\ inbox' = inbox \o <<NewMessage(newest', TRUE), LastMessage(newest'),
                         [kind |-> "message",
                          message |-> [id |-> newest', sending |-> TRUE]]>>
  /\ UNCHANGED <<requests, others, lastMessageId, peer, view, flags, crashed, past>>

\* The message gets its final id, or the id of a message that was not sent.
Settle(id) ==
  /\ id \in sending
  /\ newest' = newest + 1
  /\ sending' = sending \ {id}
  /\ chat' = (chat \ {id}) \cup {newest'}
  /\ UNCHANGED <<requests, others, lastMessageId, peer, view, flags, crashed, dropped, events>>

SendSucceeds(id) ==
  /\ Settle(id)
  /\ inbox' = Append(inbox, [kind |-> "updateMessageSendSucceeded",
                             old_message_id |-> id, id |-> newest'])
  /\ UNCHANGED trouble

\* ParseObject signals updateMessageSendFailed, TdlibJsonWrapper does not.
SendFails(id) ==
  /\ Settle(id)
  /\ trouble' = trouble \cup {"sendFailed"}
  /\ UNCHANGED inbox

\* What TDLib does and sends when a message goes.
Delete(id) ==
  LET left == chat \ {id}
  IN  /\ chat' = left
      /\ sending' = sending \ {id}
      /\ inbox' = inbox \o <<[kind |-> "updateDeleteMessages", id |-> id],
                             LastMessage(IF left = {} THEN 0 ELSE Max(left))>>

MessageDeleted(id) ==
  /\ id \in chat
  /\ ~Backlog
  /\ HappensOnce
  /\ Delete(id)
  /\ UNCHANGED <<newest, requests, others, lastMessageId, peer, view, flags,
                 crashed, past>>

Lowest(S, n)  == {id \in S : Cardinality({x \in S : x < id}) < n}
Highest(S, n) == {id \in S : Cardinality({x \in S : x > id}) < n}

\* A page around a message; from 0 it is the end of the chat.
Around(from, newer) ==
  LET above == IF from = 0 THEN {} ELSE Lowest({id \in chat : id > from}, newer)
      rest  == {id \in chat : from = 0 \/ id <= from}
  IN  above \cup Highest(rest, MESSAGE_LIMIT - Cardinality(above))

\* TDLib may answer with fewer messages than asked for: it leaves out old ones,
\* but none that is newer than the one asked about.
Answers(r) ==
  LET full ==
        CASE r.extra = "prepend" -> Highest({id \in chat : id < r.from}, MESSAGE_LIMIT)
          [] r.extra = "append"  -> Around(r.from, MESSAGE_LIMIT - 1)
          [] OTHER               -> Around(r.from, Newer)
      newer == IF r.from = 0 THEN {} ELSE {id \in full : id > r.from}
  IN  {Highest(full, n) : n \in {m \in 0..Cardinality(full) :
                                   m >= Cardinality(newer) /\ (m = 0 => full = {})}}

\* Newest first, as TDLib sends them.
PageOf(S) == [i \in 1..Cardinality(S) |-> Message(InOrder(S)[Cardinality(S) - i + 1])]

Messages(extra, S) == [kind |-> "messages", extra |-> extra, messages |-> PageOf(S)]

AnswerHistory(i) ==
  /\ \E S \in Answers(requests[i]) :
       inbox' = Append(inbox, Messages(requests[i].extra, S))
  /\ requests' = RemoveAt(requests, i)
  /\ UNCHANGED <<server, others, lastMessageId, peer, view, flags, crashed, past, events>>

\* The model has no handler for the error.
FailHistory(i) ==
  /\ requests' = RemoveAt(requests, i)
  /\ trouble' = trouble \cup {"error"}
  /\ UNCHANGED <<server, others, inbox, lastMessageId, peer, view, flags, crashed, dropped, events>>

AnswerOther ==
  /\ others > 0
  /\ others' = others - 1
  /\ inbox' = Append(inbox, Messages("other", Highest(chat, 1)))
  /\ UNCHANGED <<server, requests, lastMessageId, peer, view, flags, crashed, past, events>>

\* The empty older page of a chat that was left before it came: the @extra of
\* its request is every MessagingModel's.
AnswerElsewhere ==
  /\ ~Backlog
  /\ HappensOnce
  /\ inbox' = Append(inbox, [kind |-> "messages", extra |-> "elsewhere", messages |-> <<>>])
  /\ UNCHANGED <<server, requests, others, lastMessageId, peer, view, flags, crashed, past>>

-----------------------------------------------------------------------------
(* Requests. *)

\* Answers to what was not asked for the list's rows.
Foreign == {"other", "elsewhere"}

\* A page is on its way.
Outstanding ==
  \/ requests # <<>>
  \/ \E i \in 1..Len(inbox) : inbox[i].kind = "messages" /\ inbox[i].extra \notin Foreign

\* Mutant: the offset is sent for the message id.
getChatHistory_Swapped(extra, from) ==
  /\ requests' = Append(requests, [extra |-> extra, from |-> 1 - MESSAGE_LIMIT])
  /\ m_fetching' = TRUE
  /\ UNCHANGED trouble

getChatHistory(extra, from) ==
  /\ requests' = Append(requests, [extra |-> extra, from |-> from])
  /\ m_fetching' = TRUE
  /\ trouble' = trouble \cup (IF Outstanding THEN {"overlap"} ELSE {})
                        \cup (IF Ascending THEN {} ELSE {"disorder"})
                        \cup (IF extra = "first" /\ isUpdateConnected THEN {"emptied"} ELSE {})

canFetchMore == ~m_fetching /\ (m_messages # <<>> => m_lastMessage # Last(m_messages).id)

\* The view asks when it shows the last row.
fetchMore ==
  /\ ~crashed
  /\ m_peerId
  /\ canFetchMore
  /\ IF m_messages = <<>>
     THEN getChatHistory("first", IF m_lastOutboxId = m_lastMessage THEN m_lastOutboxId
                                                                   ELSE m_lastMessageInbox)
     ELSE getChatHistory("append", Last(m_messages).id)
  /\ UNCHANGED <<server, others, inbox, lastMessageId, peer, view, m_reachedHistoryEnd,
                 misled, crashed, dropped, events>>

\* The page calls it at the upper end of the list unless fetching is set.
fetchOlder ==
  /\ ~crashed
  /\ m_messages # <<>>
  /\ ~m_fetching
  /\ ~m_reachedHistoryEnd
  /\ getChatHistory("prepend", Head(m_messages).id)
  /\ UNCHANGED <<server, others, inbox, lastMessageId, peer, view, m_reachedHistoryEnd,
                 misled, crashed, dropped, events>>

\* A search in the chat, or a forward of its messages to itself.
searchChatMessages ==
  /\ m_peerId
  /\ HappensOnce
  /\ others' = others + 1
  /\ UNCHANGED <<server, requests, inbox, lastMessageId, peer, view, flags, crashed, past>>

setPeerId ==
  /\ ~m_peerId
  /\ m_peerId' = TRUE
  /\ m_lastMessage' = lastMessageId
  /\ m_lastMessageInbox' \in {id \in chat \cup {0} : id <= lastMessageId}
  /\ m_lastOutboxId' \in {0, lastMessageId}
  /\ dropped' = {id \in dropped : id > lastMessageId}
  /\ UNCHANGED <<server, requests, others, inbox, lastMessageId, m_messages, flags,
                 isUpdateConnected, crashed, trouble, events>>

-----------------------------------------------------------------------------
(* The handlers. *)

Received == Head(inbox)

Consume(kind) ==
  /\ ~crashed
  /\ inbox # <<>>
  /\ Received.kind = kind
  /\ inbox' = Tail(inbox)

\* The messages appendMessage adds to the end; one that is being sent and has
\* its row already takes that row.
Added(messages) ==
  At(messages, {i \in 1..Len(messages) : ~(messages[i].sending /\ messages[i].id \in RowIds)})

RowsOf(messages) == [i \in 1..Len(messages) |-> Row(messages[i].id)]

IdsOf(messages) == {messages[i].id : i \in 1..Len(messages)}

\* The last row, each time a message of a page emits firstIdChanged: the message
\* itself, or the old last row if the first ones only replaced rows.
LastRows(messages) ==
  IdsOf(Added(messages))
  \cup (IF messages # <<>> /\ Added(<<Head(messages)>>) = <<>>
        THEN {Last(m_messages).id} ELSE {})

\* The model listens to updates from the moment its last row is the chat's last
\* message.
appendMessage(messages, lastMessage) ==
  /\ m_messages' = m_messages \o RowsOf(Added(messages))
  /\ isUpdateConnected' = (isUpdateConnected \/ lastMessage \in LastRows(messages))

\* getMessages for the messages that were answered: one per row appended, and
\* extra ones for the page.
getReplies(appended, page, extra) ==
  others' = others + Cardinality(IdsOf(appended) \cap Replies)
                   + IF IdsOf(page) \cap Replies = {} THEN 0 ELSE extra

\* The "new message separator" goes below the last message read.
InsertSeparator(rows) ==
  LET read == {i \in 1..Len(rows) : rows[i].id = m_lastMessageInbox}
  IN  IF m_lastMessageInbox = m_lastMessage \/ read = {}
      THEN rows
      ELSE InsertAt(rows, Max(read) + 1, Separator(m_lastMessageInbox))

\* Mutant: the first page connects the model whatever its last message.
addFirst_Connects(page) ==
  LET messages == Reverse(page)
  IN  /\ m_messages' = InsertSeparator(m_messages \o RowsOf(Added(messages)))
      /\ isUpdateConnected' = TRUE
      /\ getReplies(Added(messages), page, 2)
      /\ m_fetching' = FALSE
      /\ UNCHANGED <<m_reachedHistoryEnd, crashed>>

\* Mutant: the first page does not emit firstIdChanged.
addFirst_Silent(page) ==
  LET messages == Reverse(page)
  IN  /\ m_messages' = InsertSeparator(m_messages \o RowsOf(Added(messages)))
      /\ getReplies(Added(messages), page, 2)
      /\ m_fetching' = FALSE
      /\ UNCHANGED <<isUpdateConnected, m_reachedHistoryEnd, crashed>>

addFirst(page) ==
  LET messages == Reverse(page)
  IN  /\ m_messages' = IF page = <<>> THEN m_messages
                       ELSE InsertSeparator(m_messages \o RowsOf(Added(messages)))
      /\ isUpdateConnected' = (isUpdateConnected \/ m_lastMessage \in LastRows(messages))
      /\ getReplies(Added(messages), page, 2)
      /\ m_fetching' = FALSE
      /\ UNCHANGED <<m_reachedHistoryEnd, crashed>>

\* Mutant: a page that is not full is taken for the last one.
prependMessages_ShortPage(page) ==
  /\ m_messages' = RowsOf(Reverse(page)) \o m_messages
  /\ getReplies(<<>>, page, 1)
  /\ m_reachedHistoryEnd' = (m_reachedHistoryEnd \/ Len(page) < MESSAGE_LIMIT)
  /\ m_fetching' = FALSE
  /\ UNCHANGED <<isUpdateConnected, crashed>>

prependMessages(page) ==
  /\ m_messages' = RowsOf(Reverse(page)) \o m_messages
  /\ getReplies(<<>>, page, 1)
  /\ m_reachedHistoryEnd' = (m_reachedHistoryEnd \/ page = <<>>)
  /\ m_fetching' = FALSE
  /\ UNCHANGED <<isUpdateConnected, crashed>>

\* Mutant: the page is appended as it comes.
appendNewer_All(page) ==
  /\ appendMessage(Reverse(page), m_lastMessage)
  /\ getReplies(Added(page), page, 1)
  /\ m_fetching' = FALSE
  /\ UNCHANGED <<m_reachedHistoryEnd, crashed>>

\* The messages of a page that are newer than the last row, the oldest first.
NewerOf(page) ==
  LET messages == Reverse(page)
  IN  At(messages, {i \in 1..Len(messages) : messages[i].id > Last(m_messages).id})

\* Only these are appended.
appendNewer(page) ==
  IF page = <<>>
  THEN UNCHANGED <<view, flags, others, crashed>>
  ELSE IF m_messages = <<>>
  THEN /\ crashed' = TRUE
       /\ UNCHANGED <<view, flags, others>>
  ELSE /\ appendMessage(NewerOf(page), m_lastMessage)
       /\ IF NewerOf(page) = <<>> THEN UNCHANGED others
                                  ELSE getReplies(Added(NewerOf(page)), page, 1)
       /\ m_fetching' = FALSE
       /\ UNCHANGED <<m_reachedHistoryEnd, crashed>>

\* Any page of the chat ends the fetching, whoever asked for it.
ignoreOther(page) ==
  /\ m_fetching' = (m_fetching /\ page = <<>>)
  /\ UNCHANGED <<m_messages, isUpdateConnected, m_reachedHistoryEnd, others, crashed>>

\* An empty older page is heeded before the chat is looked at.
addMessages ==
  /\ Consume("messages")
  /\ LET page == Received.messages
     IN  CASE Received.extra = "first"  -> addFirst(page)
           [] Received.extra \in {"prepend", "elsewhere"} -> prependMessages(page)
           [] Received.extra = "append" -> appendNewer(page)
           [] Received.extra = "other"  -> ignoreOther(page)
  /\ misled' = (misled \/ Received.extra = "elsewhere")
  /\ trouble' = IF Ascending \/ Received.extra \in Foreign THEN trouble
                ELSE trouble \cup {"disorder"}
  /\ UNCHANGED <<server, requests, lastMessageId, peer, m_lastMessage, dropped, events>>

addMessageFromUpdate ==
  /\ Consume("updateNewMessage")
  /\ IF isUpdateConnected
     THEN /\ appendMessage(<<Received.message>>, m_lastMessage)
          /\ m_lastMessage' = Last(m_messages').id
          /\ getReplies(Added(<<Received.message>>), <<>>, 0)
          /\ UNCHANGED dropped
     ELSE /\ dropped' = dropped \cup {Received.message.id}
          /\ UNCHANGED <<view, others>>
  /\ UNCHANGED <<server, requests, lastMessageId, peer, flags, crashed, trouble, events>>

\* The answer to sendMessage.  In a chat without messages it makes the list
\* reach its end.
onMessageReceived ==
  /\ Consume("message")
  /\ LET appended == Added(<<Received.message>>)
     IN  /\ m_lastMessage' = IF m_lastMessage = 0 /\ appended # <<>>
                             THEN Received.message.id ELSE m_lastMessage
         /\ appendMessage(<<Received.message>>, m_lastMessage')
         /\ getReplies(appended, <<>>, 0)
         /\ trouble' = IF appended # <<>> /\ (Outstanding \/ ~isUpdateConnected')
                       THEN trouble \cup {"early"} ELSE trouble
  /\ UNCHANGED <<server, requests, lastMessageId, peer, flags, crashed, dropped, events>>

updateMessageSend ==
  /\ Consume("updateMessageSendSucceeded")
  /\ m_messages' =
       IF Received.old_message_id \in RowIds
       THEN [m_messages EXCEPT ![FirstRow(Received.old_message_id)] = Row(Received.id)]
       ELSE m_messages
  /\ UNCHANGED <<server, requests, others, lastMessageId, peer, m_lastMessage,
                 isUpdateConnected, flags, crashed, past, events>>

\* TDLib's own removals from memory (from_cache) are not sent here: the handler
\* ignores them.
onMessageDeleted ==
  /\ Consume("updateDeleteMessages")
  /\ m_messages' = IF Received.id \in RowIds
                   THEN RemoveAt(m_messages, FirstRow(Received.id)) ELSE m_messages
  /\ UNCHANGED <<server, requests, others, lastMessageId, peer, m_lastMessage,
                 isUpdateConnected, flags, crashed, past, events>>

\* The user deletes a row; the separator belongs to no chat.
deleteMessage(i) ==
  /\ ~crashed
  /\ ~Backlog
  /\ HappensOnce
  /\ m_messages' = RemoveAt(m_messages, i)
  /\ IF ~m_messages[i].separator /\ m_messages[i].id \in chat
     THEN Delete(m_messages[i].id) /\ UNCHANGED trouble
     ELSE /\ trouble' = IF m_messages[i].separator THEN trouble ELSE trouble \cup {"renamed"}
          /\ UNCHANGED <<chat, sending, inbox>>
  /\ UNCHANGED <<newest, requests, others, lastMessageId, peer, m_lastMessage,
                 isUpdateConnected, flags, crashed, dropped>>

\* UsersModel; the open chat does not listen.
updateChatLastMessage ==
  /\ Consume("updateChatLastMessage")
  /\ lastMessageId' = Received.id
  /\ UNCHANGED <<server, requests, others, peer, view, flags, crashed, past, events>>

-----------------------------------------------------------------------------
Init ==
  /\ chat = 1..Stored
  /\ sending = {}
  /\ newest = Stored
  /\ requests = <<>>
  /\ others = 0
  /\ inbox = <<>>
  /\ lastMessageId = Stored
  /\ m_peerId = FALSE
  /\ m_messages = <<>>
  /\ m_lastMessage = 0
  /\ m_lastMessageInbox = 0
  /\ m_lastOutboxId = 0
  /\ m_fetching = FALSE
  /\ m_reachedHistoryEnd = FALSE
  /\ isUpdateConnected = FALSE
  /\ crashed = FALSE
  /\ trouble = {}
  /\ dropped = {}
  /\ misled = FALSE
  /\ events = 0

Answer ==
  \/ \E i \in 1..Len(requests) : AnswerHistory(i) \/ FailHistory(i)
  \/ AnswerOther

TDLibStep ==
  \/ MessageArrives \/ sendMessage \/ AnswerElsewhere
  \/ \E id \in sending : SendSucceeds(id) \/ SendFails(id)
  \/ \E id \in chat : MessageDeleted(id)

Handle ==
  \/ addMessages \/ addMessageFromUpdate \/ onMessageReceived \/ updateMessageSend
  \/ onMessageDeleted \/ updateChatLastMessage

User ==
  \/ setPeerId \/ fetchOlder \/ searchChatMessages
  \/ \E i \in 1..Len(m_messages) : deleteMessage(i)

Next == Answer \/ TDLibStep \/ Handle \/ User \/ fetchMore

(* TDLib answers every request, one way or the other, the event loop goes on,
   and the reader scrolls down as long as there is more. *)
Fairness == WF_vars(Answer) /\ WF_vars(Handle) /\ WF_vars(fetchMore)

Spec == Init /\ [][Next]_vars
FairSpec == Spec /\ Fairness

-----------------------------------------------------------------------------
(* Properties. *)

IdsGiven == 1..newest

(* Every variable keeps its type. *)
TypeOK ==
  /\ chat \subseteq IdsGiven
  /\ sending \subseteq chat
  /\ newest \in Nat
  /\ requests \in Seq([extra : {"first", "prepend", "append"}, from : IdsGiven \cup {0}])
  /\ others \in Nat
  /\ lastMessageId \in IdsGiven \cup {0}
  /\ m_peerId \in BOOLEAN
  /\ m_messages \in Seq([id : IdsGiven, separator : BOOLEAN])
  /\ {m_lastMessage, m_lastMessageInbox, m_lastOutboxId} \subseteq IdsGiven \cup {0}
  /\ {m_fetching, m_reachedHistoryEnd, isUpdateConnected, crashed, misled} \subseteq BOOLEAN
  /\ trouble \subseteq Troubles
  /\ dropped \subseteq IdsGiven

(* No message has two rows, although pages, updates and the answers to
   sendMessage bring the same message several times. *)
NoDoubleRow ==
  trouble = {} =>
    \A i, j \in 1..Len(m_messages) :
      m_messages[i] = m_messages[j] => i = j

\* No update or answer is under way.
Quiet == inbox = <<>>

(* The hand-over from pages to updates loses nothing but a message whose update
   came between the opening of the chat and the hand-over: when nothing is under
   way, any other message between two rows has a row, and any other below the
   last row once updates are connected.  No row is left of a deleted message. *)
NoGap ==
  Quiet /\ trouble = {} =>
    /\ \A id \in chat \ (RowIds \cup dropped) :
         /\ isUpdateConnected => \A row \in RowIds : id < row
         /\ \A row \in RowIds : row < id => id > Max(RowIds)
    /\ \A i \in 1..Len(m_messages) : ~m_messages[i].separator => m_messages[i].id \in chat

\* New messages came before the first page did, and the page ends above the
\* message the list waits for.
Overtaken == m_messages # <<>> /\ m_lastMessage < Last(m_messages).id

(* A chat that has been opened gets connected to updates, if its last message is
   not deleted meanwhile and the reader scrolls down. *)
EventuallyConnected ==
  <>(m_peerId /\ m_lastMessage # 0) =>
    <>(\/ isUpdateConnected
       \/ m_peerId /\ m_lastMessage \notin chat
       \/ Overtaken \/ trouble # {} \/ crashed)

(* The end of the history is not announced while the chat has messages without
   a row older than the first row, but for those whose update came too early:
   when all rows above one of them are deleted it is older than the first.
   Excluded by name ("misled") is the end of another chat, left before its empty
   older page came: MessagingModel.cpp:821-825 takes it for the open chat's. *)
HistoryEndIsEnd ==
  m_reachedHistoryEnd /\ ~misled /\ trouble = {} /\ m_messages # <<>> =>
    \A id \in chat \ (RowIds \cup dropped) : id >= Head(m_messages).id

=============================================================================
