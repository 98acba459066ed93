------------------------------ MODULE MCQueue ------------------------------
(***************************************************************************)
(* The queue as its callers see it, one call after the other, and, with    *)
(* the steps of the calls taken apart, what a song's end and a command     *)
(* that overlaps it make of it.  A behaviour is of one of the two.         *)
(***************************************************************************)
EXTENDS QueueOrder, QueueRace

Symmetry == Permutations(Song)

VARIABLE part
allVars == <<part, vars, raceVars>>

\* Of the part that does not run one initial state is enough.
MCInit ==
  /\ Init /\ RaceInit
  /\ part \in {"calls", "steps"}
  /\ part = "calls" => currentKey = 1 /\ repeat = "Sequential"

Call(A)    == part = "calls" /\ A /\ UNCHANGED <<part, raceVars>>
StepOf(A)  == part = "steps" /\ A /\ UNCHANGED <<part, vars>>

MCNext == Call(Next) \/ StepOf(RaceNext)

MCSpec == MCInit /\ [][MCNext]_allVars
=============================================================================
