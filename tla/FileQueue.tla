------------------------------- MODULE FileQueue -------------------------------
(***************************************************************************)
(* Files in the open chat (tdlibQt/models/MessagingModel.cpp): the view    *)
(* asks for the file of a row it shows, messagePhotoQueue remembers the    *)
(* row for the file, and when TDLib's updateFile comes the file is put     *)
(* into the message of that row.  Rows move while files are on their way.  *)
(* Requests go through TdlibJsonWrapper::downloadFile, which refuses a     *)
(* file it was asked for three times.                                      *)
(*                                                                         *)
(* As in MessageHistory, what comes from TDLib is handled in the order it  *)
(* was sent.  Which pages come is not the matter here: the older messages  *)
(* come one at a time, and so do the new ones.  A message has one file or  *)
(* none; all files have been uploaded.  Rows are counted from 1.           *)
(***************************************************************************)
EXTENDS Naturals, Sequences, SequencesExt, FiniteSetsExt, Functions

CONSTANTS
  Files,      \* file ids
  NoFile,     \* what FileOf gives for a message without a file
  FileOf,     \* the chat's messages, oldest first: the file of each
  First,      \* <<from, to>>: the messages of the first page
  MaxEvents,  \* bound: downloads stopped, messages deleted
  MaxInbox    \* bound: messages in inbox when TDLib sends of its own accord

ASSUME FilesAssumption ==
  /\ Files \subseteq Nat
  /\ NoFile \notin Files
  /\ FileOf \in Seq(Files \cup {NoFile})
ASSUME FirstAssumption ==
  /\ First \in (1..Len(FileOf)) \X (1..Len(FileOf))
  /\ First[1] <= First[2]
ASSUME BoundsAssumption == MaxEvents \in Nat /\ MaxInbox \in Nat

VARIABLES
  \* TDLib
  local,        \* what is on the disk: "absent", "active" (being downloaded)
                \* or "complete"
  requests,     \* downloadFile requests not handled yet, per file
  low, high,    \* the messages sent so far
  deleted,      \* the messages deleted since
  inbox,        \* what is not handled yet, oldest first
  \* TdlibJsonWrapper
  downloadMap,  \* how often a file was asked for
  timers,       \* files with a timer running
  \* MessagingModel
  m_messages,
  messagePhotoQueue,
  crashed,      \* a row that does not exist was read
  \* history
  trouble,      \* row numbers in the queue have been left behind
  events        \* counts towards MaxEvents

tdlib   == <<local, requests, low, high, deleted>>
limiter == <<downloadMap, timers>>
model   == <<m_messages, messagePhotoQueue, crashed>>
vars    == <<tdlib, inbox, limiter, model, trouble, events>>

Ids == 1..Len(FileOf)

Troubles == {
  "separator",  \* the "new message separator" came above a file waited for
  "deleted",    \* TDLib deleted a message at or above a file waited for
  "kept"}       \* deleteMessage did not move every file below the row

\* The separator carries the id of the message above it, and no file.
Separator(id) == [id |-> id, separator |-> TRUE, file |-> NoFile, completed |-> FALSE]
Row(m) == [id |-> m.id, separator |-> FALSE, file |-> m.file,
           completed |-> m.local = "complete"]

-----------------------------------------------------------------------------
(* TDLib. *)

Backlog == Len(inbox) >= MaxInbox
HappensOnce ==
  /\ events < MaxEvents
  /\ events' = events + 1

Message(id) ==
  [id |-> id, file |-> FileOf[id],
   local |-> IF FileOf[id] = NoFile THEN "absent" ELSE local[FileOf[id]]]

\* updateFile, or the answer to downloadFile: one slot handles both.
FileMessage(f, s) == [kind |-> "file", file |-> f, local |-> s]

\* A request is handled: the download starts, or there is nothing to do.
Download(f) ==
  /\ requests[f] > 0
  /\ requests' = [requests EXCEPT ![f] = @ - 1]
  /\ local' = [local EXCEPT ![f] = IF @ = "absent" THEN "active" ELSE @]
  /\ inbox' = Append(inbox, FileMessage(f, local'[f]))
  /\ UNCHANGED <<low, high, deleted, limiter, model, trouble, events>>

Completes(f) ==
  /\ local[f] = "active"
  /\ local' = [local EXCEPT ![f] = "complete"]
  /\ inbox' = Append(inbox, FileMessage(f, "complete"))
  /\ UNCHANGED <<requests, low, high, deleted, limiter, model, trouble, events>>

\* The download fails, or the user cancels it (cancelDownload).
Stops(f) ==
  /\ local[f] = "active"
  /\ HappensOnce
  /\ local' = [local EXCEPT ![f] = "absent"]
  /\ inbox' = Append(inbox, FileMessage(f, "absent"))
  /\ UNCHANGED <<requests, low, high, deleted, limiter, model, trouble>>

\* The first page has been handled.
Opened == ~\E i \in 1..Len(inbox) : inbox[i].kind = "messages"

OlderMessage ==
  /\ ~Backlog
  /\ Opened
  /\ m_messages # <<>>
  /\ low > 1
  /\ low' = low - 1
  /\ inbox' = Append(inbox, [kind |-> "prepend", message |-> Message(low')])
  /\ UNCHANGED <<local, requests, high, deleted, limiter, model, trouble, events>>

NewMessage ==
  /\ ~Backlog
  /\ Opened
  /\ high < Len(FileOf)
  /\ high' = high + 1
  /\ inbox' = Append(inbox, [kind |-> "updateNewMessage", message |-> Message(high')])
  /\ UNCHANGED <<local, requests, low, deleted, limiter, model, trouble, events>>

\* A message is deleted, here (deleteMessage) or elsewhere.
MessageDeleted(id) ==
  /\ ~Backlog
  /\ id \in (low..high) \ deleted
  /\ HappensOnce
  /\ deleted' = deleted \cup {id}
  /\ inbox' = Append(inbox, [kind |-> "updateDeleteMessages", id |-> id])
  /\ UNCHANGED <<local, requests, low, high, limiter, model, trouble>>

-----------------------------------------------------------------------------
(* Requests. *)

\* The third request for a file is refused, and every later one.  After the
\* second a timer is started.
downloadFile(f) ==
  LET downloadCnt == downloadMap[f] + 1
  IN  IF downloadCnt >= 3
      THEN /\ downloadMap' = [downloadMap EXCEPT ![f] = 3]
           /\ UNCHANGED <<requests, timers>>
      ELSE /\ downloadMap' = [downloadMap EXCEPT ![f] = downloadCnt]
           /\ timers' = IF downloadCnt = 2 THEN timers \cup {f} ELSE timers
           /\ requests' = [requests EXCEPT ![f] = @ + 1]

\* Four seconds after the second request.
Timeout(f) ==
  /\ f \in timers
  /\ timers' = timers \ {f}
  /\ downloadMap' = [downloadMap EXCEPT ![f] = IF @ = 2 THEN 0 ELSE @]
  /\ UNCHANGED <<tdlib, inbox, model, trouble, events>>

Waiting == DOMAIN messagePhotoQueue

\* The queue with f waiting at row i.
Put(queue, f, i) == [g \in (DOMAIN queue) \cup {f} |-> IF g = f THEN i ELSE queue[g]]

Without(queue, S) == Restrict(queue, (DOMAIN queue) \ S)

getFile(f, i) ==
  IF f \in Waiting
  THEN UNCHANGED <<requests, limiter, messagePhotoQueue>>
  ELSE /\ downloadFile(f)
       /\ messagePhotoQueue' = Put(messagePhotoQueue, f, i)

\* The view asks for the content of a row; the user asks for a document.
data(i) ==
  /\ ~crashed
  /\ m_messages[i].file # NoFile
  /\ ~m_messages[i].completed
  /\ getFile(m_messages[i].file, i)
  /\ UNCHANGED <<local, low, high, deleted, inbox, m_messages, crashed, trouble, events>>

-----------------------------------------------------------------------------
(* The handlers. *)

Received == Head(inbox)

Consume(kind) ==
  /\ ~crashed
  /\ inbox # <<>>
  /\ Received.kind = kind
  /\ inbox' = Tail(inbox)

\* Mutant: the file is put into the row, whatever file its message has.
PutIntoRow_AnyFile(i, f, s) ==
  m_messages' = [m_messages EXCEPT ![i].completed = s = "complete"]

\* The file goes into the row's message if it is the message's file.
PutIntoRow(i, f, s) ==
  m_messages' = IF m_messages[i].file = f
                THEN [m_messages EXCEPT ![i].completed = s = "complete"]
                ELSE m_messages

\* Mutant: only a complete file leaves the queue.
Done_Complete(s) == s = "complete"

\* The file will not change any more, or its download was stopped.
Done(s) == s # "active"

\* Beyond the last row the list is read out of its bounds.
processFile ==
  /\ Consume("file")
  /\ LET f == Received.file
         s == Received.local
     IN  IF f \notin Waiting
         THEN UNCHANGED model
         ELSE /\ IF messagePhotoQueue[f] <= Len(m_messages)
                 THEN PutIntoRow(messagePhotoQueue[f], f, s) /\ UNCHANGED crashed
                 ELSE crashed' \in BOOLEAN /\ UNCHANGED m_messages
              /\ messagePhotoQueue' =
                   IF Done(s) THEN Without(messagePhotoQueue, {f}) ELSE messagePhotoQueue
  /\ UNCHANGED <<tdlib, limiter, trouble, events>>

\* Mutant: the row above it.
LastOf_Above(is, n) == n + Max(is) - 1

\* The row of the last of some messages appended to n rows.
LastOf(is, n) == n + Max(is)

\* The queue after messages are appended to n rows: a file that is being
\* downloaded is waited for at the row of its last message.
queueAfter(messages, n) ==
  LET downloading(f) == {i \in 1..Len(messages) :
                           messages[i].file = f /\ messages[i].local = "active"}
      files == {f \in Files : downloading(f) # {}}
  IN  [f \in Waiting \cup files |->
         IF f \in files THEN LastOf(downloading(f), n) ELSE messagePhotoQueue[f]]

appendMessage ==
  /\ Consume("updateNewMessage")
  /\ m_messages' = Append(m_messages, Row(Received.message))
  /\ messagePhotoQueue' = queueAfter(<<Received.message>>, Len(m_messages))
  /\ UNCHANGED <<tdlib, limiter, crashed, trouble, events>>

\* The first page.  The separator goes below the last message read, if the
\* page holds it; the queue stays.
addMessages ==
  /\ Consume("messages")
  /\ LET page == Received.messages
         rows == [i \in 1..Len(page) |-> Row(page[i])]
         read == {i \in 1..Len(page) : page[i].id = Received.read}
     IN  /\ messagePhotoQueue' = queueAfter(page, 0)
         /\ \/ /\ read = {}
               /\ m_messages' = rows
               /\ UNCHANGED trouble
            \/ \E i \in read :
                 /\ m_messages' = InsertAt(rows, i + 1, Separator(Received.read))
                 /\ trouble' = IF \E f \in DOMAIN messagePhotoQueue' : messagePhotoQueue'[f] > i
                               THEN trouble \cup {"separator"}
                               ELSE trouble
  /\ UNCHANGED <<tdlib, limiter, crashed, events>>

\* Mutant: the files waited for stay where they were.
Moved_Not == messagePhotoQueue

\* Every file waited for moves down a row.
Moved == [f \in Waiting |-> messagePhotoQueue[f] + 1]

\* The row looked at for a download is the dummy row above the first message,
\* so that the file of an older message is never waited for here.
prependMessage ==
  /\ Consume("prepend")
  /\ m_messages' = <<Row(Received.message)>> \o m_messages
  /\ messagePhotoQueue' = Moved
  /\ UNCHANGED <<tdlib, limiter, crashed, trouble, events>>

\* The first row with the id goes.  The queue is not looked at.
onMessageDeleted ==
  /\ Consume("updateDeleteMessages")
  /\ LET row == SelectInSeq(m_messages, LAMBDA r : r.id = Received.id)
     IN  \/ row = 0 /\ UNCHANGED <<m_messages, trouble>>
         \/ /\ row > 0
            /\ m_messages' = RemoveAt(m_messages, row)
            /\ trouble' = IF \E f \in Waiting : messagePhotoQueue[f] >= row
                          THEN trouble \cup {"deleted"}
                          ELSE trouble
  /\ UNCHANGED <<tdlib, limiter, messagePhotoQueue, crashed, events>>

\* What the comment in deleteMessage says becomes of the queue.
queueWithout(row) ==
  [f \in {g \in Waiting : messagePhotoQueue[g] # row} |->
     IF messagePhotoQueue[f] > row THEN messagePhotoQueue[f] - 1 ELSE messagePhotoQueue[f]]

\* What becomes of it: the loop over the files, in ascending order, ends with
\* the first one that is moved up.
deletedFromQueue(row) ==
  LET below == {f \in Waiting : messagePhotoQueue[f] > row}
      seen == IF below = {} THEN Waiting ELSE {f \in Waiting : f <= Min(below)}
      gone == {f \in seen : messagePhotoQueue[f] = row}
  IN  [f \in Waiting \ gone |->
         IF f \in below \cap seen THEN messagePhotoQueue[f] - 1 ELSE messagePhotoQueue[f]]

\* The user deletes a message; TDLib will tell of it later (MessageDeleted).
deleteMessage(row) ==
  /\ ~crashed
  /\ ~m_messages[row].separator
  /\ HappensOnce
  /\ m_messages' = RemoveAt(m_messages, row)
  /\ messagePhotoQueue' = deletedFromQueue(row)
  /\ trouble' = IF messagePhotoQueue' = queueWithout(row)
                THEN trouble ELSE trouble \cup {"kept"}
  /\ UNCHANGED <<tdlib, inbox, limiter, crashed>>

-----------------------------------------------------------------------------
\* Everything is as when the chat has been opened and the first page is on its
\* way, with some files there and some being downloaded already.
Init ==
  /\ local \in [Files -> {"absent", "active"}]
  /\ requests = [f \in Files |-> 0]
  /\ low = First[1]
  /\ high = First[2]
  /\ deleted = {}
  /\ \E read \in {0} \cup First[1]..First[2] :
       inbox = <<[kind |-> "messages", read |-> read,
                  messages |-> [i \in 1..(high - low + 1) |-> Message(low + i - 1)]]>>
  /\ downloadMap = [f \in Files |-> 0]
  /\ timers = {}
  /\ m_messages = <<>>
  /\ messagePhotoQueue = [f \in {} |-> 0]
  /\ crashed = FALSE
  /\ trouble = {}
  /\ events = 0

Handle ==
  \/ addMessages
  \/ appendMessage
  \/ prependMessage
  \/ onMessageDeleted
  \/ processFile

Next ==
  \/ \E f \in Files : Download(f) \/ Completes(f) \/ Stops(f) \/ Timeout(f)
  \/ OlderMessage
  \/ NewMessage
  \/ \E id \in Ids : MessageDeleted(id)
  \/ \E i \in 1..Len(m_messages) : data(i) \/ deleteMessage(i)
  \/ Handle

Spec == Init /\ [][Next]_vars

\* TDLib handles requests and ends downloads; the event loop runs.
Fairness ==
  /\ WF_vars(Handle)
  /\ \A f \in Files : WF_vars(Download(f)) /\ WF_vars(Completes(f))

FairSpec == Spec /\ Fairness

-----------------------------------------------------------------------------
(* Properties. *)

Content == [id : Ids, file : Files \cup {NoFile}, local : {"absent", "active", "complete"}]

\* Every variable keeps the type it has in the code; the row numbers kept in
\* messagePhotoQueue are positive whatever has moved the rows.
TypeOK ==
  /\ local \in [Files -> {"absent", "active", "complete"}]
  /\ requests \in [Files -> Nat]
  /\ low \in Ids /\ high \in Ids
  /\ deleted \subseteq Ids
  /\ \A i \in 1..Len(inbox) :
       \/ inbox[i].kind \in {"updateNewMessage", "prepend"} /\ inbox[i].message \in Content
       \/ inbox[i].kind = "messages" /\ inbox[i].messages \in Seq(Content)
       \/ inbox[i].kind = "file" /\ inbox[i].file \in Files
       \/ inbox[i].kind = "updateDeleteMessages" /\ inbox[i].id \in Ids
  /\ downloadMap \in [Files -> 0..3]
  /\ timers \subseteq Files
  /\ m_messages \in Seq([id : Ids, separator : BOOLEAN, file : Files \cup {NoFile},
                         completed : BOOLEAN])
  /\ Waiting \subseteq Files
  /\ \A f \in Waiting : messagePhotoQueue[f] \in Nat \ {0}
  /\ crashed \in BOOLEAN
  /\ trouble \subseteq Troubles
  /\ events \in 0..MaxEvents

\* However rows have been added above, below and between requests and file
\* updates, a file is waited for at a row that holds it, unless one of the
\* three handlers that leave row numbers behind has done so.
FilesOnTheirRows ==
  trouble = {} => /\ ~crashed
                  /\ \A f \in Waiting : /\ messagePhotoQueue[f] <= Len(m_messages)
                                        /\ m_messages[messagePhotoQueue[f]].file = f

\* Also with row numbers left behind, a row is shown as downloaded only when
\* its own file is on the disk: processFile compares the file ids.
NoFalseCompleted ==
  \A i \in 1..Len(m_messages) :
    m_messages[i].completed => /\ m_messages[i].file # NoFile
                               /\ local[m_messages[i].file] = "complete"

\* A file waited for does not stay in the queue, where it would keep getFile
\* from asking for it again: it comes or its download is stopped.  Two things
\* leave it there: the limiter refused the request, or the application
\* crashed over a row number left behind.
EventuallyLeavesQueue ==
  \A f \in Files :
    f \in Waiting ~> f \notin Waiting \/ downloadMap[f] = 3 \/ crashed
=============================================================================
