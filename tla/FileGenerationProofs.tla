------------------------- MODULE FileGenerationProofs -------------------------
(***************************************************************************)
(* Theorems about FileGeneration for all its constants, checked by TLAPS.  *)
(*                                                                         *)
(* The invariant says of every event in the queue of the main thread what  *)
(* it vouches for while it waits, of every two which may follow which, and *)
(* of every generation what its replies stand upon.                        *)
(***************************************************************************)
EXTENDS FileGeneration, SequenceTheorems, TLAPS

EventType == [kind : EventKinds, gen : Generations, size : Int]
ReplyType == [kind : {"progress", "ok", "error"}, size : Int]

Done == {"returned", "exited"}
Terminal == {"finished", "error"}
Speaking == Terminal \cup {"progress"}

\* What a waiting event vouches for.
Vouches(e) ==
  /\ e.kind = "start"    => worker[e.gen] = "none" /\ tdlib[e.gen] # "idle"
  /\ e.kind = "progress" => /\ e.size \in (-read[e.gen])..read[e.gen]
                            /\ read[e.gen] > 0
  /\ e.kind = "finished" => read[e.gen] >= size[e.gen]
  /\ e.kind = "error" => read[e.gen] = 0
  /\ e.kind \in Terminal => worker[e.gen] \in Done /\ e.gen \notin silent
  /\ e.kind = "delete"   => worker[e.gen] # "none" /\ e.gen \notin m_conversionMap
  /\ e.kind \in Speaking => ~Answered(e.gen) /\ tdlib[e.gen] # "idle"

\* e may come after d.
Follows(d, e) ==
  d.gen = e.gen =>
    /\ ~(d.kind = "start" /\ e.kind = "start")
    /\ ~(d.kind \in Terminal /\ e.kind \in Speaking)

EventsInv ==
  /\ \A i \in 1..Len(events) : Vouches(events[i])
  /\ \A i, j \in 1..Len(events) : i < j => Follows(events[i], events[j])

\* What the replies about g, and its place in the map, stand upon.
GenerationInv(g) ==
  /\ tdlib[g] = "idle" => worker[g] = "none"
  /\ g \in m_conversionMap => g \in alive /\ worker[g] # "none"
  /\ worker[g] \in {"none", "starting"} => read[g] = 0
  /\ m_generatedSize[g] \in (-read[g])..read[g]
  /\ g \in silent => worker[g] \in Done
  /\ \A i \in 1..Len(replies[g]) :
       /\ replies[g][i].kind = "progress" => read[g] > 0
       /\ replies[g][i] = OK => read[g] >= size[g] /\ g \notin silent
       /\ IsAnswer(replies[g][i]) => i = Len(replies[g]) /\ worker[g] \in Done

Inv == TypeOK /\ EventsInv /\ \A g \in Generations : GenerationInv(g)

-----------------------------------------------------------------------------
(* The queue. *)

\* The first d events go and new ones come behind the others.
Moves(d, new) ==
  /\ events' \in Seq(EventType)
  /\ new \in Seq(EventType)
  /\ Len(events') = Len(events) - d + Len(new)
  /\ \A i \in 1..Len(events') :
       events'[i] = IF i <= Len(events) - d THEN events[i + d] ELSE new[i - (Len(events) - d)]

LEMMA Types == TypeOK => /\ events \in Seq(EventType)
                         /\ replies \in [Generations -> Seq(ReplyType)]
BY DEF TypeOK, EventType, ReplyType

(* The shapes a step gives the queue. *)
LEMMA ConcatMoves ==
  ASSUME events \in Seq(EventType), NEW new \in Seq(EventType), events' = events \o new
  PROVE  Moves(0, new)
BY ConcatProperties, LenProperties DEF Moves

LEMMA TailMoves ==
  ASSUME events \in Seq(EventType), events # <<>>, events' = Tail(events)
  PROVE  Moves(1, <<>>)
BY HeadTailProperties, LenProperties, EmptySeq DEF Moves

LEMMA RequeueMoves ==
  ASSUME events \in Seq(EventType), events # <<>>, NEW e \in EventType,
         events' = Append(Tail(events), e)
  PROVE  Moves(1, <<e>>)
<1> DEFINE rest == Tail(events)
<1>1. /\ rest \in Seq(EventType)
      /\ Len(rest) = Len(events) - 1
      /\ \A i \in 1..Len(rest) : rest[i] = events[i + 1]
      /\ Len(events) \in Nat \ {0}
  BY HeadTailProperties, LenProperties, EmptySeq
<1>2. events' = Append(rest, e)
  OBVIOUS
<1> HIDE DEF rest
<1>3. /\ events' \in Seq(EventType)
      /\ Len(events') = Len(rest) + 1
      /\ \A i \in 1..Len(rest) : events'[i] = rest[i]
      /\ events'[Len(rest) + 1] = e
  BY <1>1, <1>2, AppendProperties
<1>4. <<e>> \in Seq(EventType) /\ Len(<<e>>) = 1 /\ <<e>>[1] = e
  OBVIOUS
<1>5. ASSUME NEW i \in 1..Len(events')
      PROVE  events'[i] =
               IF i <= Len(events) - 1 THEN events[i + 1] ELSE <<e>>[i - (Len(events) - 1)]
  <2>1. CASE i <= Len(events) - 1
    BY <1>1, <1>3, <2>1
  <2>2. CASE i = Len(events)
    BY <1>1, <1>3, <1>4, <2>2
  <2> QED BY <1>1, <1>3, <2>1, <2>2
<1> QED BY <1>1, <1>3, <1>4, <1>5 DEF Moves

(* A step keeps the queue in order if what stays and what comes does. *)
LEMMA QueueStep ==
  ASSUME events \in Seq(EventType), EventsInv,
         NEW d \in 0..1, d <= Len(events), NEW new, Moves(d, new),
         \A i \in 1..Len(events) : i > d => \A e : e = events[i] => Vouches(e)',
         \A n \in 1..Len(new) : \A e : e = new[n] => Vouches(e)',
         \A i \in 1..Len(events), n \in 1..Len(new) : i > d => Follows(events[i], new[n]),
         \A m, n \in 1..Len(new) : m < n => Follows(new[m], new[n])
  PROVE  EventsInv'
<1> DEFINE k == Len(events) - d
<1>1. Len(events) \in Nat /\ Len(new) \in Nat /\ k \in Nat
  BY LenProperties DEF Moves
<1>2. ASSUME NEW i \in 1..Len(events')
      PROVE  \/ /\ i <= k /\ i + d \in 1..Len(events) /\ i + d > d
                /\ events'[i] = events[i + d]
             \/ /\ i > k /\ i - k \in 1..Len(new)
                /\ events'[i] = new[i - k]
  BY <1>1 DEF Moves
<1> HIDE DEF k
<1>3. ASSUME NEW i \in 1..Len(events')
      PROVE  Vouches(events[i])'
  <2>1. PICK e : e = events'[i]
    OBVIOUS
  <2>2. Vouches(e)'
    BY <1>2, <2>1
  <2> QED BY <2>1, <2>2 DEF Vouches, Answered
<1>4. ASSUME NEW i \in 1..Len(events'), NEW j \in 1..Len(events'), i < j
      PROVE  Follows(events'[i], events'[j])
  <2>1. CASE j <= k
    <3>1. i <= k
      BY <1>1, <1>4, <2>1
    <3>2. i + d < j + d
      BY <1>1, <1>4
    <3> QED BY <1>1, <1>2, <2>1, <3>1, <3>2 DEF EventsInv
  <2>2. CASE i <= k /\ j > k
    BY <1>1, <1>2, <2>2
  <2>3. CASE i > k
    <3>1. j > k /\ i - k < j - k
      BY <1>1, <1>4, <2>3
    <3> QED BY <1>1, <1>2, <2>3, <3>1
  <2> QED BY <1>1, <2>1, <2>2, <2>3
<1> QED BY <1>3, <1>4 DEF EventsInv, Follows

-----------------------------------------------------------------------------
(* A step is about one generation. *)

Untouched(h) ==
  /\ tdlib'[h] = tdlib[h]
  /\ replies'[h] = replies[h]
  /\ worker'[h] = worker[h]
  /\ size'[h] = size[h]
  /\ read'[h] = read[h]
  /\ m_generatedSize'[h] = m_generatedSize[h]
  /\ h \in m_conversionMap' <=> h \in m_conversionMap
  /\ h \in alive' <=> h \in alive
  /\ h \in silent' <=> h \in silent

LEMMA UntouchedKeeps ==
  ASSUME NEW h, Untouched(h)
  PROVE  /\ GenerationInv(h) => GenerationInv(h)'
         /\ \A e : e.gen = h /\ Vouches(e) => Vouches(e)'
BY DEF Untouched, GenerationInv, Vouches, Answered, IsAnswer

(* What a step of g has to show. *)
LEMMA StepKeeps ==
  ASSUME Inv, TypeOK', NEW g \in Generations,
         \A h \in Generations : h # g => Untouched(h),
         GenerationInv(g)',
         NEW d \in 0..1, d <= Len(events), NEW new, Moves(d, new),
         \A i \in 1..Len(events) :
           i > d => \A e : e = events[i] /\ e.gen = g => Vouches(e)',
         \A n \in 1..Len(new) : \A e : e = new[n] => Vouches(e)',
         \A i \in 1..Len(events), n \in 1..Len(new) : i > d => Follows(events[i], new[n]),
         \A m, n \in 1..Len(new) : m < n => Follows(new[m], new[n])
  PROVE  Inv'
<1>1. events \in Seq(EventType)
  BY Types DEF Inv
<1>2. ASSUME NEW i \in 1..Len(events), i > d, NEW e, e = events[i]
      PROVE  Vouches(e)'
  <2>1. e \in EventType /\ e.gen \in Generations
    <3>1. events[i] \in EventType
      BY <1>1, ElementOfSeq
    <3> QED BY <1>2, <3>1 DEF EventType
  <2>2. Vouches(e)
    BY <1>2 DEF Inv, EventsInv
  <2>3. CASE e.gen = g
    BY <1>2, <2>3
  <2>4. CASE e.gen # g
    BY <2>1, <2>2, <2>4, UntouchedKeeps
  <2> QED BY <2>3, <2>4
<1>3. EventsInv'
  BY <1>1, <1>2, QueueStep DEF Inv
<1>4. \A h \in Generations : GenerationInv(h)'
  BY UntouchedKeeps DEF Inv
<1> QED BY <1>3, <1>4 DEF Inv

(* What is known of g while its worker is not done: it is not answered, and no
   waiting event is the last word about it. *)
LEMMA NotDone ==
  ASSUME Inv, NEW g \in Generations, worker[g] \notin Done
  PROVE  /\ ~Answered(g)
         /\ g \notin silent
         /\ \A i \in 1..Len(events) : events[i].gen = g => events[i].kind \notin Terminal
         /\ \A i \in 1..Len(replies[g]) : replies[g][i] # OK
<1>1. GenerationInv(g) /\ EventsInv
  BY DEF Inv
<1>2. \A i \in 1..Len(replies[g]) : ~IsAnswer(replies[g][i])
  BY <1>1 DEF GenerationInv
<1>3. \A i \in 1..Len(replies[g]) : replies[g][i] # OK
  BY <1>2 DEF IsAnswer, OK
<1> QED BY <1>1, <1>2, <1>3 DEF GenerationInv, EventsInv, Vouches, Answered

(* The event a handler takes. *)
LEMMA TakeFacts ==
  ASSUME Inv, NEW kind, NEW g, Take(kind, g)
  PROVE  /\ events \in Seq(EventType)
         /\ Len(events) \in Nat /\ 1 \in 1..Len(events) /\ 1 <= Len(events)
         /\ Event = events[1] /\ Event \in EventType
         /\ Event.kind = kind /\ Event.gen = g
         /\ Vouches(Event)
         /\ \A i \in 1..Len(events) : i > 1 => Follows(Event, events[i])
<1>1. /\ events \in Seq(EventType) /\ events # <<>>
      /\ Len(events) \in Nat \ {0}
      /\ Event = events[1]
  BY Types, EmptySeq, LenProperties DEF Inv, Take, Event
<1>2. Event \in EventType
  BY <1>1, ElementOfSeq
<1> QED BY <1>1, <1>2 DEF Inv, EventsInv, Take

LEMMA EventTypes ==
  /\ \A kind \in EventKinds, g \in Generations, n \in Int : EventOf(kind, g, n) \in EventType
  /\ \A kind, g, n : /\ EventOf(kind, g, n).kind = kind
                     /\ EventOf(kind, g, n).gen = g
                     /\ EventOf(kind, g, n).size = n
BY DEF EventOf, EventType

LEMMA ReplyTypes ==
  /\ OK \in ReplyType /\ Error \in ReplyType
  /\ \A n \in Int : Progress(n) \in ReplyType
BY DEF OK, Error, Progress, ReplyType

(* A reply goes behind the others. *)
LEMMA ReplyFacts ==
  ASSUME TypeOK, NEW g \in Generations, NEW r \in ReplyType, Reply(g, r)
  PROVE  /\ replies' \in [Generations -> Seq(ReplyType)]
         /\ \A h \in Generations : h # g => replies'[h] = replies[h]
         /\ Len(replies[g]) \in Nat
         /\ Len(replies'[g]) = Len(replies[g]) + 1
         /\ \A i \in 1..Len(replies'[g]) :
              replies'[g][i] = IF i <= Len(replies[g]) THEN replies[g][i] ELSE r
<1> DEFINE old == replies[g]
<1>1. /\ replies \in [Generations -> Seq(ReplyType)]
      /\ old \in Seq(ReplyType)
  BY Types
<1>2. /\ replies' = [replies EXCEPT ![g] = Append(old, r)]
      /\ replies'[g] = Append(old, r)
  BY <1>1 DEF Reply
<1> HIDE DEF old
<1>3. /\ Append(old, r) \in Seq(ReplyType)
      /\ Len(old) \in Nat
      /\ Len(Append(old, r)) = Len(old) + 1
      /\ \A i \in 1..Len(old) : Append(old, r)[i] = old[i]
      /\ Append(old, r)[Len(old) + 1] = r
  BY <1>1, AppendProperties, LenProperties
<1>4. \A i \in 1..(Len(old) + 1) :
        Append(old, r)[i] = IF i <= Len(old) THEN old[i] ELSE r
  BY <1>3
<1>5. replies' \in [Generations -> Seq(ReplyType)]
  BY <1>1, <1>2, <1>3
<1>6. \A h \in Generations : h # g => replies'[h] = replies[h]
  BY <1>1, <1>2
<1> QED BY <1>2, <1>3, <1>4, <1>5, <1>6 DEF old

-----------------------------------------------------------------------------
(* TDLib's steps. *)

(* An event posted behind the others. *)
LEMMA PostMoves ==
  ASSUME TypeOK, NEW kind \in EventKinds, NEW g \in Generations, Post(<<kind>>, g)
  PROVE  Moves(0, <<EventOf(kind, g, 0)>>)
<1>1. [i \in 1..Len(<<kind>>) |-> EventOf(<<kind>>[i], g, 0)] = <<EventOf(kind, g, 0)>>
  OBVIOUS
<1>2. <<EventOf(kind, g, 0)>> \in Seq(EventType)
  BY EventTypes
<1> QED BY <1>1, <1>2, ConcatMoves, Types DEF Post

LEMMA StartKeeps ==
  ASSUME Inv, NEW g \in Generations, updateFileGenerationStart(g)
  PROVE  Inv'
<1> DEFINE e0 == EventOf("start", g, 0)
<1>1. Moves(0, <<e0>>)
  BY PostMoves DEF updateFileGenerationStart, Inv, EventKinds
<1>2. /\ TypeOK /\ EventsInv /\ GenerationInv(g)
      /\ tdlib[g] = "idle" /\ worker[g] = "none"
      /\ tdlib'[g] = "generating"
      /\ UNCHANGED <<replies, objects, worker, copying, crashed>>
  BY DEF Inv, GenerationInv, updateFileGenerationStart, TypeOK
<1>3. TypeOK'
  <2>1. tdlib' \in [Generations -> {"idle", "generating", "answered", "stopped"}]
    BY <1>2 DEF updateFileGenerationStart, TypeOK
  <2> QED BY <1>1, <1>2, <2>1 DEF Moves, TypeOK, EventType, objects, copying
<1>4. \A h \in Generations : h # g => Untouched(h)
  BY <1>2 DEF updateFileGenerationStart, TypeOK, Untouched, objects, copying
<1>5. GenerationInv(g)'
  BY <1>2 DEF GenerationInv, IsAnswer, objects, copying
<1>6. e0.kind = "start" /\ e0.gen = g
  BY EventTypes
<1>7. \A i \in 1..Len(events) :
        Vouches(events[i]) /\ (events[i].gen = g => events[i].kind # "start")
  BY <1>2 DEF EventsInv, Vouches
<1>8. \A i \in 1..Len(events) : \A e : e = events[i] /\ e.gen = g => Vouches(e)'
  BY <1>2, <1>7 DEF Vouches, Answered, IsAnswer, objects, copying
<1>9. Vouches(e0)'
  BY <1>2, <1>6 DEF Vouches, Terminal, Speaking
<1>10. \A i \in 1..Len(events) : Follows(events[i], e0)
  BY <1>6, <1>7 DEF Follows, Terminal, Speaking
<1> HIDE DEF e0
<1>11. Len(events) \in Nat /\ Len(<<e0>>) = 1 /\ <<e0>>[1] = e0
  BY <1>2, Types, LenProperties
<1> QED BY <1>1, <1>3, <1>4, <1>5, <1>8, <1>9, <1>10, <1>11, StepKeeps

LEMMA StopKeeps ==
  ASSUME Inv, NEW g \in Generations, updateFileGenerationStop(g)
  PROVE  Inv'
<1> DEFINE e0 == EventOf("stop", g, 0)
<1>1. Moves(0, <<e0>>)
  BY PostMoves DEF updateFileGenerationStop, Inv, EventKinds
<1>2. /\ TypeOK /\ EventsInv /\ GenerationInv(g)
      /\ tdlib'[g] = "stopped"
      /\ UNCHANGED <<replies, objects, worker, copying, crashed>>
  BY DEF Inv, updateFileGenerationStop, TypeOK
<1>3. TypeOK'
  <2>1. tdlib' \in [Generations -> {"idle", "generating", "answered", "stopped"}]
    BY <1>2 DEF updateFileGenerationStop, TypeOK
  <2> QED BY <1>1, <1>2, <2>1 DEF Moves, TypeOK, EventType, objects, copying
<1>4. \A h \in Generations : h # g => Untouched(h)
  BY <1>2 DEF updateFileGenerationStop, TypeOK, Untouched, objects, copying
<1>5. GenerationInv(g)'
  BY <1>2 DEF GenerationInv, IsAnswer, objects, copying
<1>6. e0.kind = "stop" /\ e0.gen = g
  BY EventTypes
<1>7. \A i \in 1..Len(events) : \A e : e = events[i] /\ e.gen = g => Vouches(e)'
  BY <1>2 DEF EventsInv, Vouches, Answered, IsAnswer, objects, copying
<1>8. Vouches(e0)' /\ \A i \in 1..Len(events) : Follows(events[i], e0)
  BY <1>6 DEF Vouches, Follows, Terminal, Speaking
<1> HIDE DEF e0
<1>9. Len(events) \in Nat /\ Len(<<e0>>) = 1 /\ <<e0>>[1] = e0
  BY <1>2, Types, LenProperties
<1> QED BY <1>1, <1>3, <1>4, <1>5, <1>7, <1>8, <1>9, StepKeeps

(* The queue when nobody touches it. *)
LEMMA SameQueue ==
  ASSUME TypeOK, UNCHANGED events
  PROVE  Moves(0, <<>>) /\ Len(events) \in Nat /\ Len(<<>>) = 0
<1>1. events \in Seq(EventType) /\ Len(events) \in Nat
  BY Types, LenProperties
<1> QED BY <1>1, EmptySeq DEF Moves

LEMMA ShrinksKeeps ==
  ASSUME Inv, NEW g \in Generations, SourceShrinks(g)
  PROVE  Inv'
<1>1. /\ TypeOK /\ EventsInv /\ GenerationInv(g)
      /\ size[g] \in Nat /\ size[g] > 0 /\ read[g] \in Nat
      /\ size' = [size EXCEPT ![g] = @ - 1]
      /\ size'[g] = size[g] - 1
      /\ UNCHANGED <<tdlib, replies, events, objects, worker, read, m_generatedSize, silent,
                     crashed>>
  BY DEF Inv, SourceShrinks, TypeOK
<1>2. Moves(0, <<>>) /\ Len(events) \in Nat /\ Len(<<>>) = 0
  BY <1>1, SameQueue
<1>3. TypeOK'
  <2>1. size' \in [Generations -> Nat]
    BY <1>1 DEF TypeOK
  <2> QED BY <1>1, <2>1 DEF TypeOK, objects
<1>4. \A h \in Generations : h # g => Untouched(h)
  BY <1>1 DEF TypeOK, Untouched, objects
<1>5. read[g] >= size[g] => read'[g] >= size'[g]
  BY <1>1
<1>6. GenerationInv(g)'
  BY <1>1, <1>5 DEF GenerationInv, IsAnswer, OK, objects
<1>7. \A i \in 1..Len(events) : \A e : e = events[i] /\ e.gen = g => Vouches(e)'
  BY <1>1, <1>5 DEF EventsInv, Vouches, Answered, IsAnswer, objects
<1> QED BY <1>2, <1>3, <1>4, <1>6, <1>7, StepKeeps

-----------------------------------------------------------------------------
(* The main thread's steps. *)

(* The queue after a handler that posts nothing. *)
LEMMA TakeOnlyFacts ==
  ASSUME Inv, NEW kind, NEW g, TakeOnly(kind, g)
  PROVE  Take(kind, g) /\ Moves(1, <<>>) /\ Len(<<>>) = 0
<1>1. Take(kind, g) /\ events # <<>> /\ events' = Tail(events)
  BY DEF TakeOnly, Take
<1> QED BY <1>1, TailMoves, Types DEF Inv

LEMMA InitGenerationKeeps ==
  ASSUME Inv, NEW g \in Generations, initGeneration(g)
  PROVE  Inv'
<1>1. Take("start", g) /\ Moves(1, <<>>) /\ Len(<<>>) = 0
  BY TakeOnlyFacts DEF initGeneration
<1>2. /\ TypeOK /\ EventsInv /\ GenerationInv(g)
      /\ m_conversionMap' = m_conversionMap \cup {g}
      /\ alive' = alive \cup {g}
      /\ worker' = [worker EXCEPT ![g] = "starting"]
      /\ worker'[g] = "starting"
      /\ UNCHANGED <<tdlib, replies, quitting, copying, crashed>>
  BY DEF Inv, initGeneration, TypeOK
<1>3. worker[g] = "none" /\ tdlib[g] # "idle"
  BY <1>1, TakeFacts DEF Vouches
<1>4. TypeOK'
  <2>1. worker' \in [Generations -> {"none", "starting", "copying", "returned", "exited"}]
    BY <1>2 DEF TypeOK
  <2> QED BY <1>1, <1>2, <2>1 DEF Moves, TypeOK, EventType, copying
<1>5. \A h \in Generations : h # g => Untouched(h)
  BY <1>2 DEF TypeOK, Untouched, copying
<1>6. GenerationInv(g)'
  BY <1>2, <1>3 DEF GenerationInv, IsAnswer, Done, copying
<1>7. \A i \in 1..Len(events) : i > 1 => \A e : e = events[i] /\ e.gen = g => Vouches(e)'
  <2> SUFFICES ASSUME NEW i \in 1..Len(events), i > 1, NEW e, e = events[i], e.gen = g
               PROVE  Vouches(e)'
    OBVIOUS
  <2>1. Vouches(e)
    BY <1>2 DEF EventsInv
  <2>2. e.kind \notin Terminal \cup {"start", "delete"}
    BY <1>1, <1>3, <2>1, TakeFacts DEF Vouches, Follows, Done
  <2> QED BY <1>2, <2>1, <2>2 DEF Vouches, Answered, IsAnswer, Terminal, copying
<1> QED BY <1>1, <1>4, <1>5, <1>6, <1>7, TakeFacts, StepKeeps

(* A conversion that is forgotten: its deletion goes to the end of the queue. *)
LEMMA ForgetFacts ==
  ASSUME Inv, NEW kind, NEW g \in Generations, Take(kind, g), Forget(g)
  PROVE  /\ Moves(1, <<EventOf("delete", g, 0)>>)
         /\ m_conversionMap' = m_conversionMap \ {g}
<1>1. EventOf("delete", g, 0) \in EventType
  BY EventTypes DEF EventKinds
<1>2. events # <<>> /\ events \in Seq(EventType)
  BY Types DEF Take, Inv
<1> QED BY <1>1, <1>2, RequeueMoves DEF Forget

LEMMA StopGenerationKeeps ==
  ASSUME Inv, NEW g \in Generations, stopGeneration(g)
  PROVE  Inv'
<1> DEFINE e0 == EventOf("delete", g, 0)
<1>1. /\ TypeOK /\ EventsInv /\ GenerationInv(g)
      /\ Take("stop", g)
      /\ UNCHANGED <<tdlib, replies, alive, quitting, worker, copying, crashed>>
  BY DEF Inv, stopGeneration
<1>2. CASE g \in m_conversionMap
  <2>1. Moves(1, <<e0>>) /\ m_conversionMap' = m_conversionMap \ {g}
    BY <1>1, <1>2, ForgetFacts DEF stopGeneration
  <2>2. TypeOK'
    BY <1>1, <2>1 DEF Moves, TypeOK, EventType, copying
  <2>3. \A h \in Generations : h # g => Untouched(h)
    BY <1>1, <2>1 DEF Untouched, copying
  <2>4. GenerationInv(g)' /\ worker'[g] # "none"
    BY <1>1, <1>2, <2>1 DEF GenerationInv, IsAnswer, copying
  <2>5. \A i \in 1..Len(events) : \A e : e = events[i] /\ e.gen = g => Vouches(e)'
    BY <1>1, <2>1 DEF EventsInv, Vouches, Answered, IsAnswer, copying
  <2>6. Vouches(e0)' /\ \A i \in 1..Len(events) : Follows(events[i], e0)
    BY <2>1, <2>4, EventTypes DEF Vouches, Follows, Terminal, Speaking
  <2> HIDE DEF e0
  <2>7. Len(<<e0>>) = 1 /\ <<e0>>[1] = e0
    OBVIOUS
  <2> QED BY <1>1, <2>1, <2>2, <2>3, <2>4, <2>5, <2>6, <2>7, TakeFacts, StepKeeps
<1>3. CASE g \notin m_conversionMap
  <2>1. TakeOnly("stop", g) /\ UNCHANGED m_conversionMap
    BY <1>1, <1>3 DEF stopGeneration, TakeOnly
  <2>2. Moves(1, <<>>) /\ Len(<<>>) = 0
    BY <2>1, TakeOnlyFacts
  <2>3. TypeOK'
    BY <1>1, <2>1, <2>2 DEF Moves, TypeOK, EventType, copying
  <2>4. \A h \in Generations : Untouched(h)
    BY <1>1, <2>1 DEF Untouched, copying
  <2>5. GenerationInv(g)'
    BY <1>1, <2>4, UntouchedKeeps
  <2>6. \A i \in 1..Len(events) : \A e : e = events[i] /\ e.gen = g => Vouches(e)'
    BY <1>1, <2>4, UntouchedKeeps DEF EventsInv
  <2> QED BY <1>1, <2>2, <2>3, <2>4, <2>5, <2>6, TakeFacts, StepKeeps
<1> QED BY <1>2, <1>3

(* A reply that is no answer leaves a generation not answered, and keeps the
   answer last because there is none. *)
LEMMA UpdateGenerationKeeps ==
  ASSUME Inv, NEW g \in Generations, updateGeneration(g)
  PROVE  Inv'
<1> DEFINE r0 == Progress(Event.size)
<1>1. Take("progress", g) /\ Moves(1, <<>>) /\ Len(<<>>) = 0
  BY TakeOnlyFacts DEF updateGeneration
<1>2. /\ TypeOK /\ EventsInv /\ GenerationInv(g)
      /\ Reply(g, r0)
      /\ UNCHANGED <<tdlib, objects, worker, copying, crashed>>
  BY DEF Inv, updateGeneration
<1>3. /\ Event.size \in Int /\ read[g] > 0 /\ tdlib[g] # "idle"
      /\ ~Answered(g)
  BY <1>1, TakeFacts DEF Vouches, EventType, Speaking
<1>4. r0 \in ReplyType /\ ~IsAnswer(r0) /\ r0 # OK
  BY <1>3, ReplyTypes DEF Progress, IsAnswer, OK
<1> HIDE DEF r0
<1>5. /\ replies' \in [Generations -> Seq(ReplyType)]
      /\ \A h \in Generations : h # g => replies'[h] = replies[h]
      /\ Len(replies[g]) \in Nat
      /\ Len(replies'[g]) = Len(replies[g]) + 1
      /\ \A i \in 1..Len(replies'[g]) :
           replies'[g][i] = IF i <= Len(replies[g]) THEN replies[g][i] ELSE r0
  BY <1>2, <1>4, ReplyFacts
<1>6. TypeOK'
  BY <1>1, <1>2, <1>5 DEF Moves, TypeOK, EventType, ReplyType, objects, copying
<1>7. \A h \in Generations : h # g => Untouched(h)
  BY <1>2, <1>5 DEF Untouched, objects, copying
<1>8. ASSUME NEW i \in 1..Len(replies'[g])
      PROVE  /\ replies'[g][i].kind = "progress" => read[g] > 0
             /\ replies'[g][i] = OK => read[g] >= size[g] /\ g \notin silent
             /\ ~IsAnswer(replies'[g][i])
  <2>1. CASE i <= Len(replies[g])
    <3>1. i \in 1..Len(replies[g]) /\ replies'[g][i] = replies[g][i]
      BY <1>5, <2>1
    <3> QED BY <1>2, <1>3, <3>1 DEF GenerationInv, Answered
  <2>2. CASE ~(i <= Len(replies[g]))
    BY <1>3, <1>4, <1>5, <2>2
  <2> QED BY <2>1, <2>2
<1>9. GenerationInv(g)' /\ ~Answered(g)'
  BY <1>2, <1>8 DEF GenerationInv, Answered, IsAnswer, objects, copying
<1>10. \A i \in 1..Len(events) : \A e : e = events[i] /\ e.gen = g => Vouches(e)'
  BY <1>2, <1>9 DEF EventsInv, Vouches, objects, copying
<1> QED BY <1>1, <1>6, <1>7, <1>9, <1>10, TakeFacts, StepKeeps

(* What answering does, given that there is no answer yet. *)
LEMMA AnswerFacts ==
  ASSUME TypeOK, NEW g \in Generations, NEW r \in {OK, Error}, Answer(g, r),
         GenerationInv(g), ~Answered(g), worker[g] \in Done,
         r = OK => read[g] >= size[g] /\ g \notin silent
  PROVE  /\ replies' \in [Generations -> Seq(ReplyType)]
         /\ tdlib' \in [Generations -> {"idle", "generating", "answered", "stopped"}]
         /\ \A h \in Generations : h # g => replies'[h] = replies[h] /\ tdlib'[h] = tdlib[h]
         /\ tdlib'[g] = "idle" <=> tdlib[g] = "idle"
         /\ \A i \in 1..Len(replies'[g]) :
              /\ replies'[g][i].kind = "progress" => read[g] > 0
              /\ replies'[g][i] = OK => read[g] >= size[g] /\ g \notin silent
              /\ IsAnswer(replies'[g][i]) => i = Len(replies'[g])
<1>1. Reply(g, r) /\ r \in ReplyType /\ r.kind # "progress"
  BY ReplyTypes DEF Answer, OK, Error
<1>2. read[g] \in Nat
  BY DEF TypeOK
<1>3. /\ replies' \in [Generations -> Seq(ReplyType)]
      /\ \A h \in Generations : h # g => replies'[h] = replies[h]
      /\ Len(replies[g]) \in Nat
      /\ Len(replies'[g]) = Len(replies[g]) + 1
      /\ \A i \in 1..Len(replies'[g]) :
           replies'[g][i] = IF i <= Len(replies[g]) THEN replies[g][i] ELSE r
  BY <1>1, ReplyFacts
<1>4. /\ tdlib' \in [Generations -> {"idle", "generating", "answered", "stopped"}]
      /\ \A h \in Generations : h # g => tdlib'[h] = tdlib[h]
      /\ tdlib'[g] = "idle" <=> tdlib[g] = "idle"
  BY DEF Answer, TypeOK
<1>5. ASSUME NEW i \in 1..Len(replies'[g])
      PROVE  /\ replies'[g][i].kind = "progress" => read[g] > 0
             /\ replies'[g][i] = OK => read[g] >= size[g] /\ g \notin silent
             /\ IsAnswer(replies'[g][i]) => i = Len(replies'[g])
  <2>1. CASE i <= Len(replies[g])
    <3>1. i \in 1..Len(replies[g]) /\ replies'[g][i] = replies[g][i]
      BY <1>3, <2>1
    <3> QED BY <3>1 DEF GenerationInv, Answered
  <2>2. CASE ~(i <= Len(replies[g]))
    <3>1. i = Len(replies'[g]) /\ replies'[g][i] = r
      BY <1>3, <2>2
    <3> QED BY <1>1, <1>2, <3>1
  <2> QED BY <2>1, <2>2
<1> QED BY <1>3, <1>4, <1>5

LEMMA FinishGenerationKeeps ==
  ASSUME Inv, NEW g \in Generations, finishGeneration(g)
  PROVE  Inv'
<1>1. Take("finished", g) /\ Moves(1, <<>>) /\ Len(<<>>) = 0
  BY TakeOnlyFacts DEF finishGeneration
<1>2. /\ TypeOK /\ EventsInv /\ GenerationInv(g)
      /\ UNCHANGED <<objects, worker, copying, crashed>>
  BY DEF Inv, finishGeneration
<1>3. /\ worker[g] \in Done /\ ~Answered(g)
      /\ read[g] >= size[g] /\ g \notin silent
      /\ \A i \in 1..Len(events) :
           i > 1 => (events[i].gen = g => events[i].kind \notin Speaking)
  BY <1>1, TakeFacts DEF Vouches, Follows, Terminal, Speaking
<1>4. CASE g \in alive
  <2>1. /\ replies' \in [Generations -> Seq(ReplyType)]
        /\ tdlib' \in [Generations -> {"idle", "generating", "answered", "stopped"}]
        /\ \A h \in Generations : h # g => replies'[h] = replies[h] /\ tdlib'[h] = tdlib[h]
        /\ tdlib'[g] = "idle" <=> tdlib[g] = "idle"
        /\ \A i \in 1..Len(replies'[g]) :
             /\ replies'[g][i].kind = "progress" => read[g] > 0
             /\ replies'[g][i] = OK => read[g] >= size[g] /\ g \notin silent
             /\ IsAnswer(replies'[g][i]) => i = Len(replies'[g])
    BY <1>2, <1>3, <1>4, AnswerFacts DEF finishGeneration
  <2>2. TypeOK'
    BY <1>1, <1>2, <2>1 DEF Moves, TypeOK, EventType, ReplyType, objects, copying
  <2>3. \A h \in Generations : h # g => Untouched(h)
    BY <1>2, <2>1 DEF Untouched, objects, copying
  <2>4. GenerationInv(g)'
    BY <1>2, <1>3, <2>1 DEF GenerationInv, IsAnswer, objects, copying
  <2>5. \A i \in 1..Len(events) : i > 1 => \A e : e = events[i] /\ e.gen = g => Vouches(e)'
    BY <1>2, <1>3, <2>1 DEF EventsInv, Vouches, Terminal, Speaking, objects, copying
  <2> QED BY <1>1, <2>2, <2>3, <2>4, <2>5, TakeFacts, StepKeeps
<1>5. CASE g \notin alive
  <2>1. UNCHANGED <<replies, tdlib>>
    BY <1>5 DEF finishGeneration
  <2>2. TypeOK'
    BY <1>1, <1>2, <2>1 DEF Moves, TypeOK, EventType, objects, copying
  <2>3. \A h \in Generations : Untouched(h)
    BY <1>2, <2>1 DEF Untouched, objects, copying
  <2>4. /\ GenerationInv(g)'
        /\ \A i \in 1..Len(events) : \A e : e = events[i] /\ e.gen = g => Vouches(e)'
    BY <1>2, <2>3, UntouchedKeeps DEF EventsInv
  <2> QED BY <1>1, <2>2, <2>3, <2>4, TakeFacts, StepKeeps
<1> QED BY <1>4, <1>5

LEMMA StopWorkerKeeps ==
  ASSUME Inv, NEW g \in Generations, stop(g)
  PROVE  Inv'
<1> DEFINE e0 == EventOf("delete", g, 0)
<1>1. /\ TypeOK /\ EventsInv /\ GenerationInv(g)
      /\ Take("error", g)
      /\ UNCHANGED <<alive, quitting, worker, copying, crashed>>
  BY DEF Inv, stop
<1>2. /\ worker[g] \in Done /\ ~Answered(g)
      /\ \A i \in 1..Len(events) :
           i > 1 => (events[i].gen = g => events[i].kind \notin Speaking)
  BY <1>1, TakeFacts DEF Vouches, Follows, Terminal, Speaking
<1>3. CASE g \in alive /\ g \in m_conversionMap
  <2>1. Answer(g, Error) /\ Moves(1, <<e0>>) /\ m_conversionMap' = m_conversionMap \ {g}
    BY <1>1, <1>3, ForgetFacts DEF stop
  <2>2. /\ replies' \in [Generations -> Seq(ReplyType)]
        /\ tdlib' \in [Generations -> {"idle", "generating", "answered", "stopped"}]
        /\ \A h \in Generations : h # g => replies'[h] = replies[h] /\ tdlib'[h] = tdlib[h]
        /\ tdlib'[g] = "idle" <=> tdlib[g] = "idle"
        /\ \A i \in 1..Len(replies'[g]) :
             /\ replies'[g][i].kind = "progress" => read[g] > 0
             /\ replies'[g][i] = OK => read[g] >= size[g] /\ g \notin silent
             /\ IsAnswer(replies'[g][i]) => i = Len(replies'[g])
    <3>1. Error # OK
      BY DEF Error, OK
    <3> QED BY <1>1, <1>2, <2>1, <3>1, AnswerFacts
  <2>3. TypeOK'
    BY <1>1, <2>1, <2>2 DEF Moves, TypeOK, EventType, ReplyType, copying
  <2>4. \A h \in Generations : h # g => Untouched(h)
    BY <1>1, <2>1, <2>2 DEF Untouched, copying
  <2>5. GenerationInv(g)'
    BY <1>1, <1>2, <2>1, <2>2 DEF GenerationInv, IsAnswer, copying
  <2>6. \A i \in 1..Len(events) : i > 1 => \A e : e = events[i] /\ e.gen = g => Vouches(e)'
    BY <1>1, <1>2, <2>1, <2>2 DEF EventsInv, Vouches, Terminal, Speaking, copying
  <2>7. Vouches(e0)' /\ \A i \in 1..Len(events) : Follows(events[i], e0)
    BY <1>1, <1>2, <2>1, EventTypes DEF Vouches, Follows, Terminal, Speaking, Done
  <2> HIDE DEF e0
  <2>8. Len(<<e0>>) = 1 /\ <<e0>>[1] = e0
    OBVIOUS
  <2> QED BY <1>1, <2>1, <2>3, <2>4, <2>5, <2>6, <2>7, <2>8, TakeFacts, StepKeeps
<1>4. CASE ~(g \in alive /\ g \in m_conversionMap)
  <2>1. TakeOnly("error", g) /\ UNCHANGED <<replies, tdlib, m_conversionMap>>
    BY <1>1, <1>4 DEF stop, TakeOnly
  <2>2. Moves(1, <<>>) /\ Len(<<>>) = 0
    BY <2>1, TakeOnlyFacts
  <2>3. TypeOK'
    BY <1>1, <2>1, <2>2 DEF Moves, TypeOK, EventType, copying
  <2>4. \A h \in Generations : Untouched(h)
    BY <1>1, <2>1 DEF Untouched, copying
  <2>5. /\ GenerationInv(g)'
        /\ \A i \in 1..Len(events) : \A e : e = events[i] /\ e.gen = g => Vouches(e)'
    BY <1>1, <2>4, UntouchedKeeps DEF EventsInv
  <2> QED BY <1>1, <2>2, <2>3, <2>4, <2>5, TakeFacts, StepKeeps
<1> QED BY <1>3, <1>4

(* A deletion comes after the map has forgotten the conversion. *)
LEMMA DeleteLaterKeeps ==
  ASSUME Inv, NEW g \in Generations, deleteLater(g)
  PROVE  Inv'
<1>1. Take("delete", g) /\ Moves(1, <<>>) /\ Len(<<>>) = 0
  BY TakeOnlyFacts DEF deleteLater
<1>2. /\ TypeOK /\ EventsInv /\ GenerationInv(g)
      /\ alive' = alive \ {g}
      /\ UNCHANGED <<tdlib, replies, m_conversionMap, quitting, worker, copying, crashed>>
  BY DEF Inv, deleteLater
<1>3. g \notin m_conversionMap
  BY <1>1, TakeFacts DEF Vouches
<1>4. TypeOK'
  BY <1>1, <1>2 DEF Moves, TypeOK, EventType, copying
<1>5. \A h \in Generations : h # g => Untouched(h)
  BY <1>2 DEF Untouched, copying
<1>6. GenerationInv(g)'
  BY <1>2, <1>3 DEF GenerationInv, IsAnswer, copying
<1>7. \A i \in 1..Len(events) : \A e : e = events[i] /\ e.gen = g => Vouches(e)'
  BY <1>2 DEF EventsInv, Vouches, Answered, IsAnswer, copying
<1> QED BY <1>1, <1>4, <1>5, <1>6, <1>7, TakeFacts, StepKeeps

(* The thread's own events touch no generation. *)
LEMMA ThreadEventKeeps ==
  ASSUME Inv, NEW g \in Generations, quit(g) \/ deleteThreadLater(g) \/ deleteThread(g)
  PROVE  Inv'
<1> DEFINE e0 == EventOf("deleteThread", g, 0)
<1>1. /\ TypeOK /\ EventsInv /\ GenerationInv(g)
      /\ UNCHANGED <<tdlib, replies, m_conversionMap, alive, worker, copying>>
      /\ quitting' \subseteq Generations
      /\ crashed' \in BOOLEAN
  BY DEF Inv, TypeOK, quit, deleteThreadLater, deleteThread, objects
<1>2. \A h \in Generations : Untouched(h)
  BY <1>1 DEF Untouched, copying
<1>3. /\ GenerationInv(g)'
      /\ \A i \in 1..Len(events) : \A e : e = events[i] /\ e.gen = g => Vouches(e)'
  BY <1>1, <1>2, UntouchedKeeps DEF EventsInv
<1>4. ASSUME events' \in Seq(EventType) PROVE TypeOK'
  BY <1>1, <1>4 DEF TypeOK, EventType, copying
<1>5. CASE quit(g) \/ deleteThread(g)
  <2>1. PICK kind : TakeOnly(kind, g)
    BY <1>5 DEF quit, deleteThread
  <2>2. Take(kind, g) /\ Moves(1, <<>>) /\ Len(<<>>) = 0
    BY <2>1, TakeOnlyFacts
  <2>3. TypeOK'
    BY <1>4, <2>2 DEF Moves
  <2> QED BY <1>2, <1>3, <2>2, <2>3, TakeFacts, StepKeeps
<1>6. CASE deleteThreadLater(g)
  <2>1. Take("deleteThreadLater", g)
    BY <1>6 DEF deleteThreadLater
  <2>2. Moves(1, <<e0>>)
    <3>1. e0 \in EventType
      BY EventTypes DEF EventKinds
    <3>2. events # <<>> /\ events \in Seq(EventType) /\ events' = Append(Tail(events), e0)
      BY <1>1, <1>6, <2>1, Types DEF Take, deleteThreadLater
    <3> HIDE DEF e0
    <3> QED BY <3>1, <3>2, RequeueMoves
  <2>3. Vouches(e0)' /\ \A i \in 1..Len(events) : Follows(events[i], e0)
    BY EventTypes DEF Vouches, Follows, Terminal, Speaking
  <2> HIDE DEF e0
  <2>4. Len(<<e0>>) = 1 /\ <<e0>>[1] = e0
    OBVIOUS
  <2>5. TypeOK'
    BY <1>4, <2>2 DEF Moves
  <2> QED BY <1>2, <1>3, <2>1, <2>2, <2>3, <2>4, <2>5, TakeFacts, StepKeeps
<1> QED BY <1>5, <1>6

-----------------------------------------------------------------------------
(* The worker's steps. *)

\* Nothing of g changes except that its worker goes on and, perhaps, that the
\* generation counts as failed without a signal.
WorkerMoves(g, state) ==
  /\ worker[g] \in {"starting", "copying", "returned"}
  /\ state \in {"copying", "returned", "exited"}
  /\ worker[g] = "returned" => state = "exited"
  /\ worker' = [worker EXCEPT ![g] = state]
  /\ UNCHANGED <<tdlib, replies, objects, read, m_generatedSize, size, crashed>>
  /\ \/ silent' = silent
     \/ silent' = silent \cup {g} /\ state \in Done /\ worker[g] \notin Done

(* A worker that goes on, posts what it may and leaves the rest. *)
LEMMA WorkerMovesKeeps ==
  ASSUME Inv, NEW g \in Generations, NEW state, WorkerMoves(g, state),
         NEW new, Moves(0, new),
         \A n \in 1..Len(new) :
           /\ new[n].gen = g
           /\ new[n].kind \in Terminal \cup {"quit", "deleteThreadLater"}
           /\ new[n].kind \in Terminal =>
                state \in Done /\ worker[g] \notin Done /\ g \notin silent'
           /\ new[n].kind = "finished" => read[g] >= size[g]
           /\ new[n].kind = "error" => read[g] = 0,
         \A m, n \in 1..Len(new) : m < n => new[n].kind \notin Terminal
  PROVE  Inv'
<1>1. /\ TypeOK /\ EventsInv /\ GenerationInv(g)
      /\ worker[g] \in {"starting", "copying", "returned"} /\ tdlib[g] # "idle"
      /\ state \in {"copying", "returned", "exited"}
      /\ worker[g] \in Done => state \in Done
      /\ worker' = [worker EXCEPT ![g] = state] /\ worker'[g] = state
      /\ UNCHANGED <<tdlib, replies, objects, read, m_generatedSize, size, crashed>>
      /\ \/ silent' = silent
         \/ silent' = silent \cup {g} /\ state \in Done /\ worker[g] \notin Done
  BY DEF Inv, GenerationInv, WorkerMoves, TypeOK, Done
<1>2. TypeOK'
  <2>1. worker' \in [Generations -> {"none", "starting", "copying", "returned", "exited"}]
    BY <1>1 DEF TypeOK
  <2>2. silent' \subseteq Generations
    BY <1>1 DEF TypeOK
  <2> QED BY <1>1, <2>1, <2>2 DEF Moves, TypeOK, EventType, objects
<1>3. \A h \in Generations : h # g => Untouched(h)
  BY <1>1 DEF TypeOK, Untouched, objects
<1>4. (Answered(g)' <=> Answered(g)) /\ (state \notin Done => ~Answered(g))
  BY <1>1, NotDone DEF Answered, IsAnswer
<1>5. GenerationInv(g)'
  <2>1. /\ tdlib'[g] = "idle" => worker'[g] = "none"
        /\ g \in m_conversionMap' => g \in alive' /\ worker'[g] # "none"
        /\ worker'[g] \in {"none", "starting"} => read'[g] = 0
        /\ m_generatedSize'[g] \in (-read'[g])..read'[g]
        /\ g \in silent' => worker'[g] \in Done
    BY <1>1 DEF GenerationInv, Done, objects
  <2>2. ASSUME NEW i \in 1..Len(replies'[g])
        PROVE  /\ replies'[g][i].kind = "progress" => read'[g] > 0
               /\ replies'[g][i] = OK => read'[g] >= size'[g] /\ g \notin silent'
               /\ IsAnswer(replies'[g][i]) => i = Len(replies'[g]) /\ worker'[g] \in Done
    <3>1. CASE worker[g] \in Done
      BY <1>1, <2>2, <3>1 DEF GenerationInv
    <3>2. CASE worker[g] \notin Done
      <4>1. replies'[g][i] # OK /\ ~IsAnswer(replies'[g][i])
        BY <1>1, <2>2, <3>2, NotDone DEF Answered
      <4> QED BY <1>1, <2>2, <4>1 DEF GenerationInv
    <3> QED BY <3>1, <3>2
  <2> QED BY <2>1, <2>2 DEF GenerationInv, IsAnswer
<1>6. ASSUME NEW i \in 1..Len(events), NEW e, e = events[i], e.gen = g
      PROVE  Vouches(e)'
  <2>1. Vouches(e) /\ e.kind # "start"
    BY <1>1, <1>6 DEF EventsInv, Vouches
  <2>2. CASE worker[g] \in Done
    BY <1>1, <1>4, <1>6, <2>1, <2>2 DEF Vouches, objects
  <2>3. CASE worker[g] \notin Done
    <3>1. e.kind \notin Terminal
      BY <1>6, <2>3, NotDone
    <3> QED BY <1>1, <1>4, <1>6, <2>1, <3>1 DEF Vouches, Terminal, objects
  <2> QED BY <2>2, <2>3
<1>7. ASSUME NEW n \in 1..Len(new), NEW e, e = new[n]
      PROVE  Vouches(e)'
  <2>1. CASE e.kind \in Terminal
    <3>1. ~Answered(g) /\ state \in Done
      BY <1>7, <2>1, NotDone
    <3> QED BY <1>1, <1>4, <1>7, <2>1, <3>1 DEF Vouches, Terminal, Speaking
  <2>2. CASE e.kind \notin Terminal
    BY <1>7, <2>2 DEF Vouches, Terminal, Speaking
  <2> QED BY <2>1, <2>2
<1>8. \A i \in 1..Len(events), n \in 1..Len(new) : Follows(events[i], new[n])
  BY NotDone DEF Follows, Terminal, Speaking
<1>9. \A m, n \in 1..Len(new) : m < n => Follows(new[m], new[n])
  BY DEF Follows, Terminal, Speaking
<1>10. Len(events) \in Nat
  BY <1>1, Types, LenProperties
<1> QED BY <1>2, <1>3, <1>5, <1>6, <1>7, <1>8, <1>9, <1>10, StepKeeps

(* What the end of a thread posts. *)
LEMMA EndMoves ==
  ASSUME TypeOK, NEW g \in Generations
  PROVE  /\ Post(<<"quit", "deleteThreadLater">>, g) =>
              Moves(0, <<EventOf("quit", g, 0), EventOf("deleteThreadLater", g, 0)>>)
         /\ Post(<<"finished", "quit", "deleteThreadLater">>, g) =>
              Moves(0, <<EventOf("finished", g, 0), EventOf("quit", g, 0),
                         EventOf("deleteThreadLater", g, 0)>>)
<1> DEFINE f == EventOf("finished", g, 0)
           q == EventOf("quit", g, 0)
           t == EventOf("deleteThreadLater", g, 0)
<1>1. f \in EventType /\ q \in EventType /\ t \in EventType
  BY EventTypes DEF EventKinds
<1>2. ASSUME Post(<<"quit", "deleteThreadLater">>, g)
      PROVE  events' = events \o <<q, t>>
  <2> DEFINE kinds == <<"quit", "deleteThreadLater">>
  <2>1. [i \in 1..Len(kinds) |-> EventOf(kinds[i], g, 0)] = <<q, t>>
    OBVIOUS
  <2> QED BY <1>2, <2>1 DEF Post
<1>3. ASSUME Post(<<"finished", "quit", "deleteThreadLater">>, g)
      PROVE  events' = events \o <<f, q, t>>
  <2> DEFINE kinds == <<"finished", "quit", "deleteThreadLater">>
  <2>1. [i \in 1..Len(kinds) |-> EventOf(kinds[i], g, 0)] = <<f, q, t>>
    OBVIOUS
  <2> QED BY <1>3, <2>1 DEF Post
<1> HIDE DEF f, q, t
<1>4. <<q, t>> \in Seq(EventType) /\ <<f, q, t>> \in Seq(EventType)
  BY <1>1
<1>5. /\ Post(<<"quit", "deleteThreadLater">>, g) => Moves(0, <<q, t>>)
      /\ Post(<<"finished", "quit", "deleteThreadLater">>, g) => Moves(0, <<f, q, t>>)
  BY <1>2, <1>3, <1>4, ConcatMoves, Types
<1> QED BY <1>5 DEF f, q, t

LEMMA WorkerGoesOnKeeps ==
  ASSUME Inv, NEW g \in Generations,
         \/ Open(g) \/ OpenFails(g) \/ OpenFailsSilently(g)
         \/ EndOfFile(g) \/ ReadFails(g) \/ ThreadExits(g)
  PROVE  Inv'
<1>1. TypeOK /\ (g \in silent => worker[g] \in Done)
  BY DEF Inv, GenerationInv
<1> DEFINE f == EventOf("finished", g, 0)
           q == EventOf("quit", g, 0)
           t == EventOf("deleteThreadLater", g, 0)
           x == EventOf("error", g, 0)
<1>2. /\ f.kind = "finished" /\ f.gen = g /\ q.kind = "quit" /\ q.gen = g
      /\ t.kind = "deleteThreadLater" /\ t.gen = g /\ x.kind = "error" /\ x.gen = g
  BY EventTypes
<1>3. CASE Open(g) \/ OpenFailsSilently(g) \/ ThreadExits(g)
  <2>1. PICK state : WorkerMoves(g, state)
    BY <1>3 DEF Open, OpenFailsSilently, ThreadExits, WorkerMoves, Done, copying
  <2>2. Moves(0, <<>>) /\ Len(<<>>) = 0
    BY <1>1, <1>3, SameQueue DEF Open, OpenFailsSilently, ThreadExits
  <2> QED BY <2>1, <2>2, WorkerMovesKeeps
<1>4. CASE OpenFails(g)
  <2>1. /\ WorkerMoves(g, "returned") /\ worker[g] \notin Done
        /\ read[g] = 0 /\ g \notin silent'
    BY <1>4 DEF OpenFails, WorkerMoves, Done, copying, Inv, GenerationInv
  <2>2. Moves(0, <<x>>)
    BY <1>1, <1>4, PostMoves DEF OpenFails, EventKinds
  <2> DEFINE new == <<x>>
  <2>3. Len(new) = 1 /\ new[1] = x
    OBVIOUS
  <2> HIDE DEF new, x
  <2>4. \A n \in 1..Len(new) : new[n] = x
    BY <2>3
  <2> QED BY <1>2, <2>1, <2>2, <2>3, <2>4, WorkerMovesKeeps DEF new, Terminal, Done
<1>5. CASE ReadFails(g)
  <2>1. WorkerMoves(g, "returned") /\ worker[g] \notin Done
    BY <1>5 DEF ReadFails, WorkerMoves, Done
  <2>2. Moves(0, <<q, t>>)
    BY <1>1, <1>5, EndMoves DEF ReadFails
  <2> DEFINE new == <<q, t>>
  <2>3. Len(new) = 2 /\ new[1] = q /\ new[2] = t /\ Moves(0, new)
    BY <2>2
  <2> HIDE DEF new, q, t
  <2>4. \A n \in 1..Len(new) : new[n].gen = g /\ new[n].kind \in {"quit", "deleteThreadLater"}
    BY <1>2, <2>3
  <2> QED BY <2>1, <2>3, <2>4, WorkerMovesKeeps DEF Terminal
<1>6. CASE EndOfFile(g)
  <2>1. /\ WorkerMoves(g, "returned") /\ worker[g] \notin Done
        /\ read[g] >= size[g] /\ silent' = silent
    BY <1>6 DEF EndOfFile, WorkerMoves, Done, copying
  <2>2. Moves(0, <<f, q, t>>)
    BY <1>1, <1>6, EndMoves DEF EndOfFile
  <2> DEFINE new == <<f, q, t>>
  <2>3. Len(new) = 3 /\ new[1] = f /\ new[2] = q /\ new[3] = t /\ Moves(0, new)
    BY <2>2
  <2> HIDE DEF new, f, q, t
  <2>4. /\ \A n \in 1..Len(new) :
             new[n].gen = g /\ new[n].kind \in {"finished", "quit", "deleteThreadLater"}
        /\ \A n \in 1..Len(new) : n > 1 => new[n].kind \in {"quit", "deleteThreadLater"}
    BY <1>2, <2>3
  <2>5. "returned" \in Done /\ g \notin silent'
    BY <1>1, <2>1 DEF Done
  <2>6. \A m, n \in 1..Len(new) : m < n => new[n].kind \notin Terminal
    BY <2>3, <2>4 DEF Terminal
  <2>7. \A n \in 1..Len(new) :
          /\ new[n].gen = g
          /\ new[n].kind \in Terminal \cup {"quit", "deleteThreadLater"}
          /\ new[n].kind \in Terminal =>
               "returned" \in Done /\ worker[g] \notin Done /\ g \notin silent'
          /\ new[n].kind = "finished" => read[g] >= size[g]
          /\ new[n].kind = "error" => read[g] = 0
    BY <2>1, <2>4, <2>5 DEF Terminal
  <2> QED BY <2>1, <2>3, <2>6, <2>7, WorkerMovesKeeps
<1> QED BY <1>3, <1>4, <1>5, <1>6

(* A chunk read counts at most one, in the conversion and in what is told. *)
LEMMA CopyChunkKeeps ==
  ASSUME Inv, NEW g \in Generations, CopyChunk(g)
  PROVE  Inv'
<1>1. /\ TypeOK /\ EventsInv /\ GenerationInv(g)
      /\ worker[g] = "copying"
      /\ read' = [read EXCEPT ![g] = @ + 1] /\ read'[g] = read[g] + 1
      /\ read[g] \in Nat /\ m_generatedSize[g] \in Int /\ size[g] \in Nat
      /\ UNCHANGED <<tdlib, replies, objects, worker, size, silent>>
  BY DEF Inv, CopyChunk, TypeOK
<1>2. PICK writeSize \in {1, 0, -1} : copied(g, writeSize)
  BY DEF CopyChunk
<1>3. PICK n \in Int : n = m_generatedSize[g] + writeSize /\ n \in (-read'[g])..read'[g]
  BY <1>1, <1>2 DEF GenerationInv
<1> DEFINE e0 == EventOf("progress", g, n)
<1>4. ~Answered(g) /\ g \notin silent /\ worker[g] \notin Done
      /\ \A i \in 1..Len(events) : events[i].gen = g => events[i].kind \notin Terminal
  BY <1>1, NotDone DEF Done
<1>5. /\ read' \in [Generations -> Nat]
      /\ \A h \in Generations : h # g => read'[h] = read[h]
      /\ \A k \in (-read[g])..read[g] : k \in (-read'[g])..read'[g]
      /\ read'[g] > 0 /\ tdlib'[g] # "idle"
  BY <1>1 DEF TypeOK, GenerationInv
<1>6. \A i \in 1..Len(events) : \A e : e = events[i] /\ e.gen = g => Vouches(e)'
  <2> SUFFICES ASSUME NEW i \in 1..Len(events), NEW e, e = events[i], e.gen = g
               PROVE  Vouches(e)'
    OBVIOUS
  <2>1. Vouches(e) /\ e.kind \notin Terminal
    BY <1>1, <1>4 DEF EventsInv
  <2>2. e.size \in Int
    <3>1. events[i] \in EventType
      BY <1>1, Types, ElementOfSeq
    <3> QED BY <3>1 DEF EventType
  <2> QED BY <1>1, <1>5, <2>1, <2>2 DEF Vouches, Answered, IsAnswer, Terminal, objects
<1>7. ASSUME m_generatedSize'[g] \in (-read'[g])..read'[g] PROVE GenerationInv(g)'
  <2>1. \A i \in 1..Len(replies[g]) :
          ~IsAnswer(replies[g][i]) /\ replies[g][i] # OK
    BY <1>4, <1>1, NotDone DEF Answered
  <2> QED BY <1>1, <1>4, <1>5, <1>7, <2>1 DEF GenerationInv, IsAnswer, OK, objects
<1>8. Len(events) \in Nat
  BY <1>1, Types, LenProperties
<1>9. CASE g \in alive
  <2>1. /\ m_generatedSize' = [m_generatedSize EXCEPT ![g] = n] /\ m_generatedSize'[g] = n
        /\ m_generatedSize' \in [Generations -> Int]
        /\ events' = Append(events, e0)
        /\ UNCHANGED crashed
    BY <1>1, <1>2, <1>3, <1>9 DEF copied, TypeOK
  <2>2. e0 \in EventType /\ e0.kind = "progress" /\ e0.gen = g /\ e0.size = n
    BY <1>3, EventTypes DEF EventKinds
  <2>3. \A h \in Generations : h # g => Untouched(h)
    BY <1>1, <1>5, <2>1 DEF TypeOK, Untouched, objects
  <2>4. GenerationInv(g)'
    BY <1>3, <1>7, <2>1
  <2>5. Vouches(e0)'
    BY <1>1, <1>3, <1>4, <1>5, <2>2 DEF Vouches, Answered, IsAnswer, Terminal, Speaking
  <2>6. \A i \in 1..Len(events) : Follows(events[i], e0)
    BY <1>4, <2>2 DEF Follows
  <2> HIDE DEF e0
  <2>7. Moves(0, <<e0>>)
    <3>1. <<e0>> \in Seq(EventType)
      BY <2>2
    <3>2. events' = events \o <<e0>>
      BY <1>1, <2>1, <2>2, Types, AppendIsConcat
    <3> QED BY <1>1, <3>1, <3>2, ConcatMoves, Types
  <2>8. TypeOK'
    BY <1>1, <1>5, <2>1, <2>7 DEF Moves, TypeOK, EventType, objects
  <2>9. Len(<<e0>>) = 1 /\ <<e0>>[1] = e0
    OBVIOUS
  <2> QED BY <1>6, <1>8, <2>3, <2>4, <2>5, <2>6, <2>7, <2>8, <2>9, StepKeeps
<1>10. CASE g \notin alive
  <2>1. crashed' \in BOOLEAN /\ UNCHANGED <<m_generatedSize, events>>
    BY <1>2, <1>10 DEF copied
  <2>2. TypeOK'
    BY <1>1, <1>5, <2>1 DEF TypeOK, objects
  <2>3. \A h \in Generations : h # g => Untouched(h)
    BY <1>1, <1>5, <2>1 DEF Untouched, objects
  <2>4. GenerationInv(g)'
    BY <1>1, <1>5, <1>7, <2>1 DEF GenerationInv
  <2>5. Moves(0, <<>>) /\ Len(<<>>) = 0
    BY <1>1, <2>1, SameQueue
  <2> QED BY <1>6, <1>8, <2>2, <2>3, <2>4, <2>5, StepKeeps
<1> QED BY <1>9, <1>10

-----------------------------------------------------------------------------
(* The theorems. *)

LEMMA InvInit == Init => Inv
<1> SUFFICES ASSUME Init PROVE Inv
  OBVIOUS
<1>1. /\ events = <<>>
      /\ \A g \in Generations : replies[g] = <<>>
  BY DEF Init
<1>2. TypeOK
  <2>1. /\ events \in Seq([kind : EventKinds, gen : Generations, size : Int])
        /\ replies \in [Generations -> Seq([kind : {"progress", "ok", "error"}, size : Int])]
    BY EmptySeq DEF Init
  <2>2. /\ tdlib \in [Generations -> {"idle", "generating", "answered", "stopped"}]
        /\ worker \in [Generations -> {"none", "starting", "copying", "returned", "exited"}]
        /\ size \in [Generations -> Nat]
        /\ read \in [Generations -> Nat]
        /\ m_generatedSize \in [Generations -> Int]
    BY SizeAssumption DEF Init
  <2>3. /\ m_conversionMap \subseteq Generations /\ alive \subseteq Generations
        /\ quitting \subseteq Generations /\ silent \subseteq Generations
        /\ crashed \in BOOLEAN
    BY DEF Init
  <2> QED BY <2>1, <2>2, <2>3 DEF TypeOK
<1>3. EventsInv
  BY <1>1 DEF EventsInv
<1>4. ASSUME NEW g \in Generations PROVE GenerationInv(g)
  <2>1. /\ Len(replies[g]) = 0
        /\ worker[g] = "none" /\ g \notin m_conversionMap /\ g \notin silent
        /\ m_generatedSize[g] = 0 /\ read[g] = 0
    BY <1>1 DEF Init
  <2> QED BY <2>1 DEF GenerationInv
<1> QED BY <1>2, <1>3, <1>4 DEF Inv

LEMMA InvStep == Inv /\ [Next]_vars => Inv'
<1> SUFFICES ASSUME Inv, [Next]_vars PROVE Inv'
  OBVIOUS
<1>1. CASE UNCHANGED vars
  BY <1>1 DEF vars, objects, copying, Inv, TypeOK, EventsInv, GenerationInv, Vouches, Follows,
              Answered, IsAnswer, OK
<1>2. CASE Environment
  BY <1>2, StartKeeps, StopKeeps, ShrinksKeeps DEF Environment
<1>3. CASE MainLoop
  BY <1>3, InitGenerationKeeps, StopGenerationKeeps, UpdateGenerationKeeps,
     FinishGenerationKeeps, StopWorkerKeeps, DeleteLaterKeeps, ThreadEventKeeps DEF MainLoop
<1>4. CASE \E g \in Generations : WorkerStep(g)
  BY <1>4, WorkerGoesOnKeeps, CopyChunkKeeps DEF WorkerStep
<1> QED BY <1>1, <1>2, <1>3, <1>4 DEF Next

LEMMA Invariant == Spec => []Inv
BY InvInit, InvStep, PTL DEF Spec

(* Every variable keeps its type, for any files and any number of generations. *)
THEOREM TypeCorrect == Spec => []TypeOK
<1>1. Inv => TypeOK
  BY DEF Inv
<1> QED BY <1>1, Invariant, PTL

(* TDLib gets one answer for a generation at most, and nothing after it. *)
THEOREM OneAnswer == Spec => []OneAnswerLast
<1>1. Inv => OneAnswerLast
  BY DEF Inv, GenerationInv, OneAnswerLast
<1> QED BY <1>1, Invariant, PTL

(* TDLib is told of success only when the whole file has been read. *)
THEOREM TrueSuccess == Spec => []NoFalseSuccess
<1>1. Inv => NoFalseSuccess
  BY DEF Inv, GenerationInv, NoFalseSuccess
<1> QED BY <1>1, Invariant, PTL

(* The map of conversions never holds a deleted one. *)
THEOREM NoneDangling == Spec => []NoDanglingConversion
<1>1. Inv => NoDanglingConversion
  <2> SUFFICES ASSUME Inv, NEW g \in m_conversionMap PROVE g \in alive
    BY DEF NoDanglingConversion
  <2>1. g \in Generations
    BY DEF Inv, TypeOK
  <2> QED BY <2>1 DEF Inv, GenerationInv
<1> QED BY <1>1, Invariant, PTL

(* No answer is given for a conversion that is deleted. *)
THEOREM DeadAreSilent == Spec => DeletedStaysSilent
<1> DEFINE Silent(g) == worker[g] # "none" /\ g \notin alive => (Answered(g)' <=> Answered(g))
<1>1. ASSUME Inv, Next, NEW g \in Generations
      PROVE  Silent(g)
  <2>1. ASSUME replies'[g] = replies[g] PROVE Silent(g)
    BY <2>1 DEF Answered, IsAnswer
  <2>2. CASE UNCHANGED replies
    BY <2>1, <2>2
  <2>3. ASSUME NEW h \in Generations, updateGeneration(h)
        PROVE  Silent(g)
    <3> DEFINE r0 == Progress(Event.size)
    <3>1. Reply(h, r0) /\ Take("progress", h)
      BY <2>3 DEF updateGeneration, TakeOnly
    <3>2. r0 \in ReplyType /\ ~IsAnswer(r0)
      BY <1>1, <3>1, TakeFacts, ReplyTypes DEF EventType, Progress, IsAnswer
    <3> HIDE DEF r0
    <3>3. /\ h # g => replies'[g] = replies[g]
          /\ Len(replies[h]) \in Nat
          /\ Len(replies'[h]) = Len(replies[h]) + 1
          /\ \A i \in 1..Len(replies'[h]) :
               replies'[h][i] = IF i <= Len(replies[h]) THEN replies[h][i] ELSE r0
      BY <1>1, <3>1, <3>2, ReplyFacts DEF Inv
    <3>4. CASE h = g
      <4>1. ASSUME NEW i \in 1..Len(replies[g])
            PROVE  i \in 1..Len(replies'[g]) /\ replies'[g][i] = replies[g][i]
        BY <3>3, <3>4
      <4>2. ASSUME NEW i \in 1..Len(replies'[g]), IsAnswer(replies'[g][i])
            PROVE  i \in 1..Len(replies[g]) /\ replies'[g][i] = replies[g][i]
        BY <3>2, <3>3, <3>4, <4>2
      <4>3. Answered(g)' => Answered(g)
        <5>1. Answered(g)' <=> \E i \in 1..Len(replies'[g]) : IsAnswer(replies'[g][i])
          BY DEF Answered, IsAnswer
        <5> QED BY <4>2, <5>1 DEF Answered
      <4>4. Answered(g) => Answered(g)'
        BY <4>1 DEF Answered, IsAnswer
      <4> QED BY <4>3, <4>4
    <3> QED BY <2>1, <3>3, <3>4
  <2>4. ASSUME NEW h \in Generations, finishGeneration(h) \/ stop(h)
        PROVE  Silent(g)
    <3>1. CASE h \notin alive
      BY <2>2, <2>4, <3>1 DEF finishGeneration, stop
    <3>2. CASE h # g
      <4>1. UNCHANGED replies \/ \E r : Reply(h, r)
        BY <2>4 DEF finishGeneration, stop, Answer
      <4>2. ASSUME NEW r, Reply(h, r) PROVE replies'[g] = replies[g]
        BY <1>1, <3>2, <4>2 DEF Reply, Inv, TypeOK
      <4> QED BY <2>1, <2>2, <4>1, <4>2
    <3>3. CASE h = g /\ h \in alive
      BY <3>3
    <3> QED BY <3>1, <3>2, <3>3
  <2> QED BY <1>1, <2>2, <2>3, <2>4
          DEF Next, Environment, MainLoop, WorkerStep, updateFileGenerationStart,
              updateFileGenerationStop, SourceShrinks, initGeneration, stopGeneration, deleteLater,
              quit, deleteThreadLater, deleteThread, Open, OpenFails, OpenFailsSilently, CopyChunk,
              EndOfFile, ReadFails, ThreadExits
<1>2. Inv /\ [Next]_vars => [\A g \in Generations : Silent(g)]_vars
  BY <1>1
<1> QED BY <1>2, Invariant, PTL DEF Spec, DeletedStaysSilent

-----------------------------------------------------------------------------
(* FileGeneration implements FileDelivery. *)

(* A generation without an answer has been told nothing but progress. *)
LEMMA Unanswered ==
  ASSUME TypeOK, NEW g \in Generations, ~Answered(g)
  PROVE  replies[g] = <<>> \/ Delivery!Last(replies[g]).kind = "progress"
<1> DEFINE old == replies[g]
<1>1. old \in Seq(ReplyType) /\ \A i \in 1..Len(old) : ~IsAnswer(old[i])
  BY Types DEF Answered
<1> HIDE DEF old
<1>2. CASE old # <<>>
  <2>1. Len(old) \in 1..Len(old)
    BY <1>1, <1>2, LenProperties, EmptySeq
  <2>2. old[Len(old)] \in ReplyType /\ ~IsAnswer(old[Len(old)])
    BY <1>1, <2>1, ElementOfSeq
  <2> QED BY <2>2 DEF Delivery!Last, ReplyType, IsAnswer, old
<1> QED BY <1>2 DEF old

(* While its worker reads nobody has answered a generation. *)
LEMMA ReadingUnderWay ==
  ASSUME Inv, NEW g \in Generations, worker[g] \in {"starting", "copying"}
  PROVE  Delivery!UnderWay(g)
<1>1. tdlib[g] # "idle" /\ TypeOK
  BY DEF Inv, GenerationInv
<1>2. ~Answered(g) /\ g \notin silent
  BY NotDone DEF Done
<1> QED BY <1>1, <1>2, Unanswered DEF Delivery!UnderWay

LEMMA DeliveryInit == Init => Delivery!Init
BY DEF Init, Delivery!Init

(* The steps of the main thread that reach TDLib. *)
LEMMA TellsProgress ==
  ASSUME Inv, NEW g \in Generations, updateGeneration(g)
  PROVE  Delivery!Tell(g)
<1>1. Take("progress", g) /\ TypeOK
  BY DEF updateGeneration, TakeOnly, Inv
<1>2. Event.size \in (-read[g])..read[g] /\ ~Answered(g) /\ tdlib[g] # "idle"
  BY <1>1, TakeFacts DEF Vouches, Speaking
<1>3. replies' = [replies EXCEPT ![g] = Append(@, [kind |-> "progress", size |-> Event.size])]
  BY DEF updateGeneration, Reply, Progress
<1> QED BY <1>1, <1>2, <1>3, Unanswered
        DEF updateGeneration, copying, Delivery!Tell

LEMMA TellsSuccess ==
  ASSUME Inv, NEW g \in Generations, finishGeneration(g), g \in alive
  PROVE  Delivery!Succeed(g)
<1>1. Take("finished", g) /\ TypeOK
  BY DEF finishGeneration, TakeOnly, Inv
<1>2. read[g] >= size[g] /\ g \notin silent /\ ~Answered(g) /\ tdlib[g] # "idle"
  BY <1>1, TakeFacts DEF Vouches, Speaking, Terminal
<1>3. Delivery!UnderWay(g)
  BY <1>1, <1>2, Unanswered DEF Delivery!UnderWay
<1> QED BY <1>2, <1>3
        DEF finishGeneration, Answer, Reply, OK, copying, Delivery!Succeed, Delivery!Answer

(* The error is the first thing TDLib hears: progress would mean that something
   was read. *)
LEMMA TellsError ==
  ASSUME Inv, NEW g \in Generations, stop(g), g \in alive, g \in m_conversionMap
  PROVE  Delivery!Refuse(g)
<1>1. Take("error", g) /\ TypeOK /\ GenerationInv(g)
  BY DEF stop, Inv
<1>2. read[g] = 0 /\ g \notin silent /\ ~Answered(g) /\ tdlib[g] # "idle"
  BY <1>1, TakeFacts DEF Vouches, Speaking, Terminal
<1>3. replies[g] = <<>>
  <2> DEFINE old == replies[g]
  <2>1. /\ old \in Seq(ReplyType)
        /\ \A i \in 1..Len(old) : ~IsAnswer(old[i]) /\ old[i].kind # "progress"
    BY <1>1, <1>2, Types DEF Answered, GenerationInv
  <2> HIDE DEF old
  <2>2. ASSUME NEW i \in 1..Len(old)
        PROVE  FALSE
    <3>1. old[i] \in ReplyType
      BY <2>1, ElementOfSeq
    <3> QED BY <2>1, <3>1 DEF ReplyType, IsAnswer
  <2>3. Len(old) = 0
    BY <2>1, <2>2, LenProperties
  <2>4. old = <<>>
    BY <2>1, <2>3, EmptySeq
  <2> QED BY <2>4 DEF old
<1>4. Delivery!UnderWay(g)
  BY <1>2, <1>3 DEF Delivery!UnderWay
<1> QED BY <1>2, <1>3, <1>4
        DEF stop, Answer, Reply, Error, copying, Delivery!Refuse, Delivery!Answer

LEMMA DeliveryStep ==
  ASSUME Inv, [Next]_vars
  PROVE  [Delivery!Next]_<<tdlib, size, read, silent, replies>>
<1>1. CASE UNCHANGED <<tdlib, size, read, silent, replies>>
  BY <1>1
<1>2. ASSUME NEW g \in Generations,
             \/ updateFileGenerationStart(g) \/ updateFileGenerationStop(g)
             \/ SourceShrinks(g)
      PROVE  Delivery!Next
  BY <1>2 DEF updateFileGenerationStart, updateFileGenerationStop, SourceShrinks, copying,
              Delivery!Next, Delivery!Start, Delivery!Stop, Delivery!Shrink
<1>3. ASSUME NEW g \in Generations, OpenFailsSilently(g) \/ ReadFails(g)
      PROVE  Delivery!Next
  <2>1. Delivery!UnderWay(g)
    BY <1>3, ReadingUnderWay DEF OpenFailsSilently, ReadFails
  <2> QED BY <1>3, <2>1 DEF OpenFailsSilently, ReadFails, Delivery!Next, Delivery!Break
<1>4. ASSUME NEW g \in Generations, CopyChunk(g)
      PROVE  Delivery!Next
  <2>1. Delivery!UnderWay(g)
    BY <1>4, ReadingUnderWay DEF CopyChunk
  <2> QED BY <1>4, <2>1 DEF CopyChunk, Delivery!Next, Delivery!Copy
<1>5. ASSUME NEW g \in Generations, updateGeneration(g)
      PROVE  Delivery!Next
  BY <1>5, TellsProgress DEF Delivery!Next
<1>6. ASSUME NEW g \in Generations, finishGeneration(g)
      PROVE  [Delivery!Next]_<<tdlib, size, read, silent, replies>>
  BY <1>6, TellsSuccess DEF Delivery!Next, finishGeneration, copying
<1>7. ASSUME NEW g \in Generations, stop(g)
      PROVE  [Delivery!Next]_<<tdlib, size, read, silent, replies>>
  BY <1>7, TellsError DEF Delivery!Next, stop, copying
<1>8. CASE MainLoop
  BY <1>1, <1>5, <1>6, <1>7, <1>8
     DEF MainLoop, initGeneration, stopGeneration, deleteLater, quit, deleteThreadLater,
         deleteThread, copying
<1>9. CASE \E g \in Generations : WorkerStep(g)
  BY <1>1, <1>3, <1>4, <1>9
     DEF WorkerStep, Open, OpenFails, EndOfFile, ThreadExits, copying
<1> QED BY <1>1, <1>2, <1>8, <1>9 DEF Next, Environment, vars, copying

(* What TDLib is told is what somebody who copies and tells at once would have
   told: FileGeneration implements FileDelivery. *)
THEOREM Delivers == Spec => DeliversFiles
<1>1. Init => Delivery!Init
  BY DeliveryInit
<1>2. Inv /\ [Next]_vars => [Delivery!Next]_<<tdlib, size, read, silent, replies>>
  BY DeliveryStep
<1>3. Spec => Delivery!Spec
  BY <1>1, <1>2, Invariant, PTL DEF Spec, Delivery!Spec
<1> QED BY <1>3 DEF DeliversFiles
=============================================================================
