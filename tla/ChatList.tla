------------------------------- MODULE ChatList -------------------------------
(***************************************************************************)
(* The chat list (tdlibQt/models/ChatsModel.cpp) and the TDLib stream that *)
(* feeds it.                                                               *)
(*                                                                         *)
(* TDLib is asynchronous in one direction only: requests go out and their  *)
(* answers come back, in one FIFO stream with the updates, through         *)
(* ListenObject::listen (its own thread) and a queued connection into the  *)
(* main thread, where one message is handled to completion before the      *)
(* next.  Each handler below is therefore one action that consumes the     *)
(* head of inbox.  What is not atomic is a request and its answer: the     *)
(* chat a getChat was sent for may have moved, left the list or come back  *)
(* by the time the answer is handled.                                      *)
(*                                                                         *)
(* A row keeps the fields this protocol moves: id_, order_ and             *)
(* last_message_ (a version number: TDLib's n-th value of the field).      *)
(***************************************************************************)
EXTENDS Integers, FiniteSets, Sequences, RowList

CONSTANTS
  Chats,        \* chat ids
  Orders,       \* values of chat.order; 0 means "not in the chat list"
  PageSize,     \* limit of one getChats (100 in the code)
  MaxChanges,   \* bound: changes of chats inside TDLib
  MaxResets,    \* bound: resets asked for by the user (pull-down menu)
  MaxPages,     \* bound: getChats requests in flight
  MaxAsked,     \* bound: getChat requests that may be waiting for one chat,
  MaxInbox      \* and messages in inbox, when TDLib sends an update or a page

ASSUME ChatsAssumption  == Chats \subseteq Nat /\ IsFiniteSet(Chats)
ASSUME OrdersAssumption == Orders \subseteq Nat /\ 0 \in Orders
ASSUME BoundsAssumption ==
  /\ PageSize \in Nat \ {0}
  /\ MaxChanges \in Nat
  /\ MaxResets \in Nat
  /\ MaxPages \in Nat
  /\ MaxAsked \in Nat
  /\ MaxInbox \in Nat

VARIABLES
  \* TDLib
  order,        \* order of each chat
  last,         \* last_message of each chat, as a version number
  asked,        \* getChat requests not answered yet, per chat
  pages,        \* getChats requests not answered yet: offsets, oldest first
  inbox,        \* messages not handled yet: updates and answers, oldest first
  \* ChatsModel
  m_chats,
  fetchPending,
  ready,        \* authorizationState() == AuthorizationStateReady
  \* what TDLib has told (history, read by no action)
  told,         \* chats whose last announced order is positive, since a reset
  silent,       \* chats whose order moved in an update nobody handles
  changes,      \* counts towards MaxChanges
  resets        \* counts towards MaxResets

tdlib   == <<order, last, asked, pages>>
model   == <<m_chats, fetchPending, ready>>
history == <<told, silent, changes, resets>>
vars    == <<order, last, asked, pages, inbox, m_chats, fetchPending, ready,
             told, silent, changes, resets>>

Top == [id |-> 0, order |-> 0, top |-> TRUE]   \* getChats() with no offset

Row     == [id : Chats, order : Orders, last : Nat]
Offset  == [id : Chats \cup {0}, order : Orders, top : BOOLEAN]
OrderMsg == [kind : {"updateChatOrder"}, chat : Chats, order : Orders]
LastMsg  == [kind : {"updateChatLastMessage"}, chat : Chats, order : Orders, last : Nat]
ChatMsg  == [kind : {"chat"}, chat : Chats, order : Orders, last : Nat]
ChatsMsg == [kind : {"chats"}, chat_ids : SUBSET Chats]
Message  == OrderMsg \cup LastMsg \cup ChatMsg \cup ChatsMsg

-----------------------------------------------------------------------------
(* The row list (operations in RowList) and the requests. *)

RowIds == Ids(m_chats)

RowOf(c) == m_chats[getIndex(m_chats, c)]

\* Mutant: an answer is counted where a request is sent.
getChat_CountsDown(c) == asked' = [asked EXCEPT ![c] = @ - 1]

getChat(c) == asked' = [asked EXCEPT ![c] = @ + 1]

getChats(offset) == pages' = Append(pages, offset)

\* Mutant: the row changes where it is, without sortByOrder.
changeChatOrderOrAdd_NoSort(c, row) ==
  IF c \in RowIds
  THEN /\ m_chats' = [m_chats EXCEPT ![getIndex(m_chats, c)] = row]
       /\ UNCHANGED asked
  ELSE /\ getChat(c)
       /\ UNCHANGED m_chats

\* Mutant: a chat without a row is not asked for.
changeChatOrderOrAdd_NoAdd(c, row) ==
  /\ IF c \in RowIds
     THEN m_chats' \in sortByOrder([m_chats EXCEPT ![getIndex(m_chats, c)] = row])
     ELSE UNCHANGED m_chats
  /\ UNCHANGED asked

\* The row of c takes the new order (and message) and the list is sorted;
\* a chat without a row is asked for.
changeChatOrderOrAdd(c, row) ==
  IF c \in RowIds
  THEN /\ m_chats' \in sortByOrder([m_chats EXCEPT ![getIndex(m_chats, c)] = row])
       /\ UNCHANGED asked
  ELSE /\ getChat(c)
       /\ UNCHANGED m_chats

-----------------------------------------------------------------------------
(* TDLib: the part of it this component depends on. *)

Push(m) == inbox' = Append(inbox, m)

\* TDLib waits (a bound of the model) while the client is this far behind.
Backlog == Len(inbox) >= MaxInbox \/ \E c \in Chats : asked[c] >= MaxAsked

\* The client is told about an order: positive orders are remembered in told.
Announce(c, o) ==
  /\ told' = IF o > 0 THEN told \cup {c} ELSE told \ {c}
  /\ silent' = silent \ {c}
  /\ changes < MaxChanges
  /\ ~Backlog
  /\ changes' = changes + 1

OrderChanges(c, o) ==
  /\ o # order[c]
  /\ order' = [order EXCEPT ![c] = o]
  /\ Push([kind |-> "updateChatOrder", chat |-> c, order |-> o])
  /\ Announce(c, o)
  /\ UNCHANGED <<last, asked, pages, model, resets>>

LastMessageChanges(c, o) ==
  /\ order' = [order EXCEPT ![c] = o]
  /\ last' = [last EXCEPT ![c] = @ + 1]
  /\ Push([kind |-> "updateChatLastMessage", chat |-> c, order |-> o,
           last |-> last[c] + 1])
  /\ Announce(c, o)
  /\ UNCHANGED <<asked, pages, model, resets>>

\* updateChatIsPinned, updateChatDraftMessage and updateChatIsSponsored carry
\* an order too; ParseObject drops all three.
OrderChangesUnheard(c, o) ==
  /\ o # order[c]
  /\ changes < MaxChanges
  /\ changes' = changes + 1
  /\ order' = [order EXCEPT ![c] = o]
  /\ silent' = silent \cup {c}
  /\ UNCHANGED <<last, asked, pages, inbox, model, told, resets>>

AnswerGetChat(c) ==
  /\ asked[c] > 0
  /\ asked' = [asked EXCEPT ![c] = @ - 1]
  /\ Push([kind |-> "chat", chat |-> c, order |-> order[c], last |-> last[c]])
  /\ UNCHANGED <<order, last, pages, model, history>>

\* TDLib orders chats by order, then by id.
Above(c, d) == order[c] > order[d] \/ (order[c] = order[d] /\ c > d)

Below(c, offset) ==
  \/ offset.top
  \/ order[c] < offset.order
  \/ order[c] = offset.order /\ c < offset.id

\* The next chats of the list after the offset, at most PageSize of them.
PageAfter(offset) ==
  LET rest == {c \in Chats : order[c] > 0 /\ Below(c, offset)}
  IN  {c \in rest : Cardinality({d \in rest : Above(d, c)}) < PageSize}

AnswerGetChats ==
  /\ pages # <<>>
  /\ ~Backlog
  /\ pages' = Tail(pages)
  /\ Push([kind |-> "chats", chat_ids |-> PageAfter(Head(pages))])
  /\ UNCHANGED <<order, last, asked, model, history>>

\* getChats may fail (not authorized, no network): the error carries no
\* @extra and no handler of the model is connected to it.
FailGetChats ==
  /\ pages # <<>>
  /\ pages' = Tail(pages)
  /\ UNCHANGED <<order, last, asked, inbox, model, history>>

-----------------------------------------------------------------------------
(* ChatsModel: one action per handler. *)

Received == Head(inbox)

\* Messages are handled in the order TDLib sent them.
Consume(kind) ==
  /\ inbox # <<>>
  /\ Received.kind = kind
  /\ inbox' = Tail(inbox)

\* Mutant: the row is built anew, without the last message it had.
updateChatOrder_ForgetsMessage ==
  /\ Consume("updateChatOrder")
  /\ LET c == Received.chat
         o == Received.order
     IN  IF o = 0
         THEN /\ m_chats' = IF c \in RowIds THEN RemoveAt(m_chats, getIndex(m_chats, c)) ELSE m_chats
              /\ UNCHANGED asked
         ELSE changeChatOrderOrAdd(c, [id |-> c, order |-> o, last |-> 0])
  /\ UNCHANGED <<order, last, pages, fetchPending, ready, history>>

updateChatOrder ==
  /\ Consume("updateChatOrder")
  /\ LET c == Received.chat
         o == Received.order
     IN  IF o = 0
         THEN /\ m_chats' = IF c \in RowIds THEN RemoveAt(m_chats, getIndex(m_chats, c)) ELSE m_chats
              /\ UNCHANGED asked
         ELSE changeChatOrderOrAdd(c, [RowOf(c) EXCEPT !.order = o])
  /\ UNCHANGED <<order, last, pages, fetchPending, ready, history>>

\* Mutant: a listed chat takes the message and keeps its old order.
updateChatLastMessage_OldOrder ==
  /\ Consume("updateChatLastMessage")
  /\ LET m == Received
     IN  IF m.chat \in RowIds
         THEN changeChatOrderOrAdd(m.chat, [RowOf(m.chat) EXCEPT !.last = m.last])
         ELSE IF m.order > 0
         THEN changeChatOrderOrAdd(m.chat, [id |-> m.chat, order |-> m.order, last |-> m.last])
         ELSE UNCHANGED <<m_chats, asked>>
  /\ UNCHANGED <<order, last, pages, fetchPending, ready, history>>

\* A listed chat takes the message and the order, 0 included; an unlisted one
\* is asked for when its order is positive.
updateChatLastMessage ==
  /\ Consume("updateChatLastMessage")
  /\ LET m == Received
     IN  IF m.chat \in RowIds \/ m.order > 0
         THEN changeChatOrderOrAdd(m.chat, [id |-> m.chat, order |-> m.order, last |-> m.last])
         ELSE UNCHANGED <<m_chats, asked>>
  /\ UNCHANGED <<order, last, pages, fetchPending, ready, history>>

\* Mutant: the row is looked for when the chat is asked for, not here.
addChat_NoCheck ==
  /\ Consume("chat")
  /\ fetchPending' = FALSE
  /\ m_chats' = addItem(m_chats, [id |-> Received.chat, order |-> Received.order,
                                 last |-> Received.last])
  /\ UNCHANGED <<order, last, asked, pages, ready, history>>

addChat ==
  /\ Consume("chat")
  /\ fetchPending' = FALSE
  /\ LET m == Received
     IN  IF m.chat \in RowIds
         THEN UNCHANGED m_chats
         ELSE m_chats' = addItem(m_chats, [id |-> m.chat, order |-> m.order, last |-> m.last])
  /\ UNCHANGED <<order, last, asked, pages, ready, history>>

addChats ==
  /\ Consume("chats")
  /\ asked' = [c \in Chats |-> asked[c] + IF c \in Received.chat_ids THEN 1 ELSE 0]
  /\ UNCHANGED <<order, last, pages, model, history>>

canFetchMore == ready /\ ~fetchPending

LastRowOffset == [id |-> m_chats[Len(m_chats)].id,
                  order |-> m_chats[Len(m_chats)].order, top |-> FALSE]

\* The view asks for more rows when it shows the last one.
fetchMore ==
  /\ canFetchMore
  /\ Len(pages) < MaxPages
  /\ fetchPending' = TRUE
  /\ getChats(IF m_chats = <<>> THEN Top ELSE LastRowOffset)
  /\ UNCHANGED <<order, last, asked, inbox, m_chats, ready, history>>

\* Clears the list and fetches its first page, whatever was pending.
ResetList ==
  /\ m_chats' = <<>>
  /\ fetchPending' = TRUE
  /\ getChats(Top)
  /\ told' = {}

reset ==
  /\ resets < MaxResets
  /\ resets' = resets + 1
  /\ ResetList
  /\ UNCHANGED <<order, last, asked, inbox, ready, silent, changes>>

onAuthorizationStateChanged ==
  /\ Len(pages) < MaxPages
  /\ ready' = ~ready
  /\ IF ready' /\ m_chats = <<>>
     THEN ResetList
     ELSE UNCHANGED <<m_chats, fetchPending, pages, told>>
  /\ UNCHANGED <<order, last, asked, inbox, silent, changes, resets>>

-----------------------------------------------------------------------------
(* The model is created before, or long after, TDLib loaded its chats. *)
Init ==
  /\ order \in [Chats -> Orders]
  /\ last = [c \in Chats |-> 0]
  /\ asked = [c \in Chats |-> 0]
  /\ pages = <<>>
  /\ inbox = <<>>
  /\ m_chats = <<>>
  /\ fetchPending = FALSE
  /\ ready = FALSE
  /\ told = {}
  /\ silent = {}
  /\ changes = 0
  /\ resets = 0

TDLibStep ==
  \/ \E c \in Chats, o \in Orders :
       OrderChanges(c, o) \/ LastMessageChanges(c, o) \/ OrderChangesUnheard(c, o)
  \/ \E c \in Chats : AnswerGetChat(c)
  \/ AnswerGetChats
  \/ FailGetChats

Handle == updateChatOrder \/ updateChatLastMessage \/ addChat \/ addChats

Next == TDLibStep \/ Handle \/ fetchMore \/ reset \/ onAuthorizationStateChanged

(* The event loop goes on, and TDLib answers getChat from its memory.  Nothing
   is assumed of getChats, of the user or of the view. *)
Fairness == WF_vars(Handle) /\ \A c \in Chats : WF_vars(AnswerGetChat(c))

Spec == Init /\ [][Next]_vars
FairSpec == Spec /\ Fairness

-----------------------------------------------------------------------------
(* Properties. *)

(* Every variable keeps its type. *)
TypeOK ==
  /\ order \in [Chats -> Orders]
  /\ last \in [Chats -> Nat]
  /\ asked \in [Chats -> Nat]
  /\ pages \in Seq(Offset)
  /\ inbox \in Seq(Message)
  /\ m_chats \in Seq(Row)
  /\ fetchPending \in BOOLEAN
  /\ ready \in BOOLEAN
  /\ told \subseteq Chats
  /\ silent \subseteq Chats
  /\ changes \in Nat
  /\ resets \in Nat

(* No chat has two rows, although the same chat may be asked for by several
   updates and pages before the first answer comes: addChat looks for the row
   when the answer is handled, not when the request is sent. *)
NoDuplicateRows == UniqueIds(m_chats)

(* The rows stay in the descending order that sortByOrder promises, through
   insertions found by indexByOrder, removals and moves. *)
RowsSorted == isDescending(m_chats)

\* Nothing about a chat is under way between TDLib and the model.
Quiet == inbox = <<>> /\ \A c \in Chats : asked[c] = 0

(* When nothing is under way every row shows its chat's last message, and its
   order too unless the order moved in an update ParseObject drops: no answer
   that was overtaken by an update leaves its older content behind. *)
RowsCurrent ==
  Quiet => \A i \in 1..Len(m_chats) :
             LET row == m_chats[i]
             IN  /\ row.last = last[row.id]
                 /\ row.id \in silent \/ row.order = order[row.id]

(* When nothing is under way every chat TDLib announced in the list has its
   row: no announcement falls between a removal, an answer and a reset. *)
NoLostChat == Quiet => \A c \in told : c \in RowIds

(* Once TDLib's last word on a chat is that it is in the list, its row appears
   and stays, however the answers, the updates and the pages interleave. *)
EventuallyListed ==
  \A c \in Chats : <>[](c \in told) => <>[](c \in RowIds)

\* The number of the last message a chat's row shows.
ShownLast == [c \in Chats |-> IF c \in RowIds THEN RowOf(c).last ELSE -1]

Mirror == INSTANCE ChatMirror WITH newest <- last, shown <- ShownLast

(* The list implements ChatMirror: a row never goes back to an older last
   message, neither when an answer meets an update nor when rows move. *)
MirrorsChats == Mirror!Spec

(* "add new chat only for order > 0" (ChatsModel.cpp:538): no row is added for
   a chat that is not in the list. *)
AddedRowsHaveOrder ==
  [][\A i \in 1..Len(m_chats') :
       m_chats'[i].id \notin RowIds => m_chats'[i].order > 0]_vars
=============================================================================
