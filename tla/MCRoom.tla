------------------------------- MODULE MCRoom -------------------------------
(***************************************************************************)
(* How a room keeps the time of its leader: the estimate of the leader's   *)
(* clock and the corrections of the sink. They meet only in the error of a *)
(* chunk: a behaviour is of one of them, and what the estimate does to the *)
(* sink is among the Jolts.                                                *)
(***************************************************************************)
EXTENDS ClockOffset, SyncSink

VARIABLE part
allVars == <<part, clockVars, sinkVars>>

MCOnsets == {-20, -3, 0, 2, 9}
MCJolts  == {-7, -1, 1, 7}

\* Of the part that does not run one initial state is enough.
RoomInit ==
  /\ ClockInit /\ SinkInit
  /\ part \in {"clock", "sink"}
  /\ part # "sink" => error = 0

ClockPart(A) == part = "clock" /\ A /\ UNCHANGED <<part, sinkVars>>
SinkPart(A)  == part = "sink" /\ A /\ UNCHANGED <<part, clockVars>>

RoomNext == ClockPart(ClockNext) \/ SinkPart(SinkNext)

RoomSpec ==
  /\ RoomInit /\ [][RoomNext]_allVars
  /\ WF_allVars(SinkPart(HandleChunk)) /\ WF_allVars(SinkPart(Callback))

\* Neither the estimate nor a correction goes beyond what it was given cause for.
KeepsTime == ClockInBounds /\ NoOvershoot

\* The sink of RoomSpec comes in time.
SinkSettles == part = "sink" => Settles
=============================================================================
