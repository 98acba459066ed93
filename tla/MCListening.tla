---------------------------- MODULE MCListening ----------------------------
(***************************************************************************)
(* What a listener hears of the queue: the order the random mode and "play *)
(* next" give the songs, and the audio elements of the pages that follow   *)
(* it. A behaviour is of one of the two: the pages see nothing of the      *)
(* queue but the song played next.                                         *)
(***************************************************************************)
EXTENDS QueueListening, BrowserAudio

Symmetry == Permutations(Song)

VARIABLE part
allVars == <<part, listenVars, audioVars>>

\* Of the part that does not run one initial state is enough.
MCInit ==
  /\ ListenInit /\ AudioInit
  /\ part \in {"order", "audio"}
  /\ thread.alive = (part = "audio")

OrderStep(A) == part = "order" /\ A /\ UNCHANGED <<part, audioVars>>
AudioStep(A) == part = "audio" /\ A /\ UNCHANGED <<part, listenVars>>

MCNext == OrderStep(ListenNext) \/ AudioStep(AudioNext)

MCSpec == MCInit /\ [][MCNext]_allVars
=============================================================================
