----------------------------- MODULE FileDelivery -----------------------------
(***************************************************************************)
(* What TDLib may rely on when it has files taken, without events, maps   *)
(* and threads: progress is true when it is told, there is one answer, it  *)
(* comes last, success is for a file read to its end and an error for one  *)
(* of which nothing was read.  FileGeneration implements this.             *)
(***************************************************************************)
EXTENDS Integers, Sequences

CONSTANTS Generations, Size

VARIABLES
  phase,    \* of a generation, as TDLib sees it
  source,   \* chunks in the file to be copied
  taken,    \* chunks read from it
  broken,   \* generations whose copy has ended without anybody saying so
  told      \* what TDLib was told, oldest first

Init ==
  /\ phase = [g \in Generations |-> "idle"]
  /\ source = Size
  /\ taken = [g \in Generations |-> 0]
  /\ broken = {}
  /\ told = [g \in Generations |-> <<>>]

Last(s) == s[Len(s)]

\* Asked for, and neither answered nor given up.
UnderWay(g) ==
  /\ phase[g] # "idle"
  /\ told[g] = <<>> \/ Last(told[g]).kind = "progress"
  /\ g \notin broken

Start(g) ==
  /\ phase[g] = "idle"
  /\ phase' = [phase EXCEPT ![g] = "generating"]
  /\ UNCHANGED <<source, taken, broken, told>>

Stop(g) ==
  /\ phase[g] \in {"generating", "answered"}
  /\ phase' = [phase EXCEPT ![g] = "stopped"]
  /\ UNCHANGED <<source, taken, broken, told>>

Shrink(g) ==
  /\ source[g] > 0
  /\ source' = [source EXCEPT ![g] = @ - 1]
  /\ UNCHANGED <<phase, taken, broken, told>>

Copy(g) ==
  /\ UnderWay(g)
  /\ taken[g] < source[g]
  /\ taken' = [taken EXCEPT ![g] = @ + 1]
  /\ UNCHANGED <<phase, source, broken, told>>

Break(g) ==
  /\ UnderWay(g)
  /\ broken' = broken \cup {g}
  /\ UNCHANGED <<phase, source, taken, told>>

\* Progress of a copy that broke may be told later.  A chunk that could not be
\* written counts as -1.
Tell(g) ==
  /\ phase[g] # "idle"
  /\ told[g] = <<>> \/ Last(told[g]).kind = "progress"
  /\ \E n \in (-taken[g])..taken[g] :
       told' = [told EXCEPT ![g] = Append(@, [kind |-> "progress", size |-> n])]
  /\ UNCHANGED <<phase, source, taken, broken>>

Answer(g, kind) ==
  /\ UnderWay(g)
  /\ phase' = [phase EXCEPT ![g] = IF @ = "generating" THEN "answered" ELSE @]
  /\ told' = [told EXCEPT ![g] = Append(@, [kind |-> kind, size |-> 0])]
  /\ UNCHANGED <<source, taken, broken>>

Succeed(g) == taken[g] >= source[g] /\ Answer(g, "ok")

Refuse(g) == taken[g] = 0 /\ told[g] = <<>> /\ Answer(g, "error")

Next ==
  \E g \in Generations :
    \/ Start(g) \/ Stop(g) \/ Shrink(g) \/ Copy(g) \/ Break(g) \/ Tell(g)
    \/ Succeed(g) \/ Refuse(g)

Spec == Init /\ [][Next]_<<phase, source, taken, broken, told>>
=============================================================================
