---------------------------- MODULE FileGeneration ----------------------------
(***************************************************************************)
(* Copying a file for TDLib (depecher/src/fileGeneratedHandlers):          *)
(* FileGeneratedHandler in the main thread, one CopyFileConversion and one *)
(* Worker with a thread of its own per generation, and TDLib on the other  *)
(* side, which may stop a generation at any time.                          *)
(*                                                                         *)
(* Everything that reaches the main thread, from TDLib and from the        *)
(* workers, is an event in its queue and is handled in the order it was    *)
(* posted.  Two things do not go through the queue: the lambda connected   *)
(* to Worker::copied has no context object and runs in the worker, and the *)
(* deletion of an object waits in the queue like an event.  Worker::stop   *)
(* is a slot of an object whose thread is busy in process(), so it never   *)
(* runs before process() returns and is left out.                          *)
(***************************************************************************)
EXTENDS Integers, Sequences

CONSTANTS
  Generations,   \* generation ids
  Size           \* chunks in each source file when its generation starts

ASSUME SizeAssumption == Size \in [Generations -> Nat]

VARIABLES
  tdlib,         \* TDLib's view of a generation
  replies,       \* what TDLib was sent about it, oldest first
  events,        \* event queue of the main thread
  m_conversionMap,
  alive,         \* conversions not deleted yet
  quitting,      \* threads asked to quit
  worker,        \* where a worker is
  size,          \* chunks in the source file
  read,          \* chunks the worker has read (totalRead)
  m_generatedSize,
  silent,        \* generations that failed without an error signal (history)
  crashed        \* the process is gone

vars == <<tdlib, replies, events, m_conversionMap, alive, quitting, worker, size,
          read, m_generatedSize, silent, crashed>>

\* The parts one side owns, for UNCHANGED.
objects == <<m_conversionMap, alive, quitting>>
copying == <<read, m_generatedSize, size, silent>>

Progress(n) == [kind |-> "progress", size |-> n]
OK    == [kind |-> "ok", size |-> 0]
Error == [kind |-> "error", size |-> 0]

\* Mutant: the two numbers of an event change places.
EventOf_Swapped(kind, g, n) == [kind |-> kind, gen |-> n, size |-> g]

\* size is what a progress event carries, 0 in the others.
EventOf(kind, g, n) == [kind |-> kind, gen |-> g, size |-> n]

Post(kinds, g) == events' = events \o [i \in 1..Len(kinds) |-> EventOf(kinds[i], g, 0)]

\* A message TDLib takes as it is sent.
Reply(g, r) == replies' = [replies EXCEPT ![g] = Append(@, r)]

\* An answer ends the generation, unless TDLib has stopped it before.
Answer(g, r) ==
  /\ Reply(g, r)
  /\ tdlib' = [tdlib EXCEPT ![g] = IF @ = "generating" THEN "answered" ELSE @]

-----------------------------------------------------------------------------
(* TDLib: starts a generation once; may stop it while it runs, when the file is
   no longer needed, or after the answer. *)

updateFileGenerationStart(g) ==
  /\ tdlib[g] = "idle"
  /\ tdlib' = [tdlib EXCEPT ![g] = "generating"]
  /\ Post(<<"start">>, g)
  /\ UNCHANGED <<replies, objects, worker, copying, crashed>>

updateFileGenerationStop(g) ==
  /\ tdlib[g] \in {"generating", "answered"}
  /\ tdlib' = [tdlib EXCEPT ![g] = "stopped"]
  /\ Post(<<"stop">>, g)
  /\ UNCHANGED <<replies, objects, worker, copying, crashed>>

\* The user's file loses its last chunk while it is copied.
SourceShrinks(g) ==
  /\ size[g] > 0
  /\ size' = [size EXCEPT ![g] = @ - 1]
  /\ UNCHANGED <<tdlib, replies, events, objects, worker, read, m_generatedSize,
                 silent, crashed>>

-----------------------------------------------------------------------------
(* The main thread. *)

Event == Head(events)

Take(kind, g) ==
  /\ events # <<>>
  /\ Event.kind = kind
  /\ Event.gen = g

TakeOnly(kind, g) == Take(kind, g) /\ events' = Tail(events)

initGeneration(g) ==
  /\ TakeOnly("start", g)
  /\ m_conversionMap' = m_conversionMap \cup {g}
  /\ alive' = alive \cup {g}
  /\ worker' = [worker EXCEPT ![g] = "starting"]
  /\ UNCHANGED <<tdlib, replies, quitting, copying, crashed>>

\* Mutant: the conversion is deleted and stays in the map.
Forget_KeepsInMap(g) ==
  /\ events' = Append(Tail(events), EventOf("delete", g, 0))
  /\ UNCHANGED m_conversionMap

\* The conversion leaves the map and is deleted when the loop comes to it.
Forget(g) ==
  /\ m_conversionMap' = m_conversionMap \ {g}
  /\ events' = Append(Tail(events), EventOf("delete", g, 0))

stopGeneration(g) ==
  /\ Take("stop", g)
  /\ IF g \in m_conversionMap
     THEN Forget(g)
     ELSE events' = Tail(events) /\ UNCHANGED m_conversionMap
  /\ UNCHANGED <<tdlib, replies, alive, quitting, worker, copying, crashed>>

updateGeneration(g) ==
  /\ TakeOnly("progress", g)
  /\ Reply(g, Progress(Event.size))
  /\ UNCHANGED <<tdlib, objects, worker, copying, crashed>>

\* Mutant: the handler answers for a conversion that is gone.
finishGeneration_Dead(g) ==
  /\ TakeOnly("finished", g)
  /\ Answer(g, OK)
  /\ UNCHANGED <<objects, worker, copying, crashed>>

finishGeneration(g) ==
  /\ TakeOnly("finished", g)
  /\ IF g \in alive
     THEN Answer(g, OK)
     ELSE UNCHANGED <<replies, tdlib>>
  /\ UNCHANGED <<objects, worker, copying, crashed>>

\* Worker::error reaches CopyFileConversion::stop and from there the lambda
\* connected to generationStopped.
stop(g) ==
  /\ Take("error", g)
  /\ IF g \in alive /\ g \in m_conversionMap
     THEN /\ Answer(g, Error)
          /\ Forget(g)
     ELSE /\ events' = Tail(events)
          /\ UNCHANGED <<replies, tdlib, m_conversionMap>>
  /\ UNCHANGED <<alive, quitting, worker, copying, crashed>>

deleteLater(g) ==
  /\ TakeOnly("delete", g)
  /\ alive' = alive \ {g}
  /\ UNCHANGED <<tdlib, replies, m_conversionMap, quitting, worker, copying, crashed>>

quit(g) ==
  /\ TakeOnly("quit", g)
  /\ quitting' = quitting \cup {g}
  /\ UNCHANGED <<tdlib, replies, m_conversionMap, alive, worker, copying, crashed>>

\* The slot QThread::deleteLater posts the deletion behind what is queued.
deleteThreadLater(g) ==
  /\ Take("deleteThreadLater", g)
  /\ events' = Append(Tail(events), EventOf("deleteThread", g, 0))
  /\ UNCHANGED <<tdlib, replies, objects, worker, copying, crashed>>

\* Qt aborts the process when a QThread is destroyed while it runs.
deleteThread(g) ==
  /\ TakeOnly("deleteThread", g)
  /\ crashed' = (worker[g] # "exited")
  /\ UNCHANGED <<tdlib, replies, objects, worker, copying>>

MainLoop ==
  /\ ~crashed
  /\ \E g \in Generations :
       \/ initGeneration(g) \/ stopGeneration(g) \/ updateGeneration(g)
       \/ finishGeneration(g) \/ stop(g) \/ deleteLater(g) \/ quit(g)
       \/ deleteThreadLater(g) \/ deleteThread(g)

-----------------------------------------------------------------------------
(* The worker of g. *)

Open(g) ==
  /\ worker[g] = "starting"
  /\ worker' = [worker EXCEPT ![g] = "copying"]
  /\ UNCHANGED <<tdlib, replies, events, objects, copying, crashed>>

\* No such file, or one of the error codes that has a message.
OpenFails(g) ==
  /\ worker[g] = "starting"
  /\ worker' = [worker EXCEPT ![g] = "returned"]
  /\ Post(<<"error">>, g)
  /\ UNCHANGED <<tdlib, replies, objects, copying, crashed>>

\* One of the error codes left to "default".
OpenFailsSilently(g) ==
  /\ worker[g] = "starting"
  /\ worker' = [worker EXCEPT ![g] = "returned"]
  /\ silent' = silent \cup {g}
  /\ UNCHANGED <<tdlib, replies, events, objects, read, m_generatedSize, size, crashed>>

\* The lambda connected to Worker::copied runs here.  On a deleted conversion
\* it is undefined: nothing happens or the process crashes.
copied(g, bytes) ==
  IF g \in alive
  THEN /\ m_generatedSize' = [m_generatedSize EXCEPT ![g] = @ + bytes]
       /\ events' = Append(events, EventOf("progress", g, m_generatedSize[g] + bytes))
       /\ UNCHANGED crashed
  ELSE /\ crashed' \in BOOLEAN
       /\ UNCHANGED <<m_generatedSize, events>>

\* Mutant: copied() carries the bytes read so far.
CopyChunk_Total(g) ==
  /\ worker[g] = "copying"
  /\ read[g] < size[g]
  /\ read' = [read EXCEPT ![g] = @ + 1]
  /\ copied(g, read[g] + 1)
  /\ UNCHANGED <<tdlib, replies, objects, worker, size, silent>>

\* A chunk is written, not written, or refused with -1; nobody looks.
CopyChunk(g) ==
  /\ worker[g] = "copying"
  /\ read[g] < size[g]
  /\ read' = [read EXCEPT ![g] = @ + 1]
  /\ \E writeSize \in {1, 0, -1} : copied(g, writeSize)
  /\ UNCHANGED <<tdlib, replies, objects, worker, size, silent>>

\* Mutant: the worker answers TDLib itself, past the event queue.
EndOfFile_Direct(g) ==
  /\ worker[g] = "copying"
  /\ read[g] >= size[g]
  /\ worker' = [worker EXCEPT ![g] = "returned"]
  /\ Answer(g, OK)
  /\ Post(<<"quit", "deleteThreadLater">>, g)
  /\ UNCHANGED <<objects, copying, crashed>>

\* Mutant: the connection of finished() to the conversion is missing.
EndOfFile_Unheard(g) ==
  /\ worker[g] = "copying"
  /\ read[g] >= size[g]
  /\ worker' = [worker EXCEPT ![g] = "returned"]
  /\ Post(<<"quit", "deleteThreadLater">>, g)
  /\ UNCHANGED <<tdlib, replies, objects, copying, crashed>>

\* src.atEnd(), or read() found nothing more.
EndOfFile(g) ==
  /\ worker[g] = "copying"
  /\ read[g] >= size[g]
  /\ worker' = [worker EXCEPT ![g] = "returned"]
  /\ Post(<<"finished", "quit", "deleteThreadLater">>, g)
  /\ UNCHANGED <<tdlib, replies, objects, copying, crashed>>

\* Mutant: finished() follows a failed read too.
ReadFails_Finished(g) ==
  /\ worker[g] = "copying"
  /\ read[g] < size[g]
  /\ worker' = [worker EXCEPT ![g] = "returned"]
  /\ silent' = silent \cup {g}
  /\ Post(<<"finished", "quit", "deleteThreadLater">>, g)
  /\ UNCHANGED <<tdlib, replies, objects, read, m_generatedSize, size, crashed>>

\* aborted() ends the thread; stopGeneration of the conversion only logs.
ReadFails(g) ==
  /\ worker[g] = "copying"
  /\ read[g] < size[g]
  /\ worker' = [worker EXCEPT ![g] = "returned"]
  /\ silent' = silent \cup {g}
  /\ Post(<<"quit", "deleteThreadLater">>, g)
  /\ UNCHANGED <<tdlib, replies, objects, read, m_generatedSize, size, crashed>>

\* The thread's own event loop ends after quit().
ThreadExits(g) ==
  /\ worker[g] = "returned"
  /\ g \in quitting
  /\ worker' = [worker EXCEPT ![g] = "exited"]
  /\ UNCHANGED <<tdlib, replies, events, objects, copying, crashed>>

WorkerStep(g) ==
  /\ ~crashed
  /\ \/ Open(g) \/ OpenFails(g) \/ OpenFailsSilently(g)
     \/ CopyChunk(g) \/ EndOfFile(g) \/ ReadFails(g)
     \/ ThreadExits(g)

-----------------------------------------------------------------------------
Init ==
  /\ tdlib = [g \in Generations |-> "idle"]
  /\ replies = [g \in Generations |-> <<>>]
  /\ events = <<>>
  /\ m_conversionMap = {}
  /\ alive = {}
  /\ quitting = {}
  /\ worker = [g \in Generations |-> "none"]
  /\ size = Size
  /\ read = [g \in Generations |-> 0]
  /\ m_generatedSize = [g \in Generations |-> 0]
  /\ silent = {}
  /\ crashed = FALSE

Environment ==
  /\ ~crashed
  /\ \E g \in Generations :
       \/ updateFileGenerationStart(g) \/ updateFileGenerationStop(g)
       \/ SourceShrinks(g)

Next == Environment \/ MainLoop \/ \E g \in Generations : WorkerStep(g)

\* The event loop runs and the system schedules every thread.
Fairness == WF_vars(MainLoop) /\ \A g \in Generations : WF_vars(WorkerStep(g))

Spec == Init /\ [][Next]_vars
FairSpec == Spec /\ Fairness

-----------------------------------------------------------------------------
(* Properties. *)

EventKinds == {"start", "stop", "progress", "finished", "error", "delete", "quit",
               "deleteThreadLater", "deleteThread"}

(* Every variable keeps its type. *)
TypeOK ==
  /\ tdlib \in [Generations -> {"idle", "generating", "answered", "stopped"}]
  /\ replies \in [Generations -> Seq([kind : {"progress", "ok", "error"}, size : Int])]
  /\ events \in Seq([kind : EventKinds, gen : Generations, size : Int])
  /\ m_conversionMap \subseteq Generations
  /\ alive \subseteq Generations
  /\ quitting \subseteq Generations
  /\ worker \in [Generations -> {"none", "starting", "copying", "returned", "exited"}]
  /\ size \in [Generations -> Nat]
  /\ read \in [Generations -> Nat]
  /\ m_generatedSize \in [Generations -> Int]
  /\ silent \subseteq Generations
  /\ crashed \in BOOLEAN

IsAnswer(r) == r.kind \in {"ok", "error"}

Answered(g) == \E i \in 1..Len(replies[g]) : IsAnswer(replies[g][i])

(* TDLib gets one answer for a generation at most, and it is the last thing it
   hears about it: no progress told by the worker arrives after the answer, no
   error after a success. *)
OneAnswerLast ==
  \A g \in Generations : \A i \in 1..Len(replies[g]) :
    IsAnswer(replies[g][i]) => i = Len(replies[g])

(* TDLib is told of success only when the worker has read the whole file as it
   is, never after a read that failed or a stop. *)
NoFalseSuccess ==
  \A g \in Generations : \A i \in 1..Len(replies[g]) :
    replies[g][i] = OK => read[g] >= size[g] /\ g \notin silent

(* The map the handler looks conversions up in never holds a deleted one:
   stop, error and the late deletion agree on who forgets it. *)
NoDanglingConversion == m_conversionMap \subseteq alive

Delivery ==
  INSTANCE FileDelivery
  WITH phase <- tdlib, source <- size, taken <- read, broken <- silent, told <- replies

(* The copying implements FileDelivery: what reaches TDLib through workers and
   queue is what one that copies and tells at once would have told. *)
DeliversFiles == Delivery!Spec

(* Once its conversion is deleted TDLib gets no answer for a generation, even
   if its worker goes on to the end of the file. *)
DeletedStaysSilent ==
  [][\A g \in Generations :
       worker[g] # "none" /\ g \notin alive => (Answered(g)' <=> Answered(g))]_vars

(* Every generation TDLib starts is answered or stopped by TDLib itself, if
   the process lives and the copy does not fail without a signal. *)
EventuallyAnswered ==
  \A g \in Generations :
    tdlib[g] = "generating"
      ~> tdlib[g] # "generating" \/ g \in silent \/ crashed
=============================================================================
