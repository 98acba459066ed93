--------------------------- MODULE QueueListening ---------------------------
(***************************************************************************)
(* The queue with what a listener remembers: which songs the player went   *)
(* through since random mode last started over, and which song was last    *)
(* asked to play next.                                                     *)
(***************************************************************************)
EXTENDS Queue

CONSTANT None   \* no song asked for

\* Songs are added one by one, which is a batch of one.
ASSUME ListeningAssumption == None \notin Song /\ MaxBatch # 0

VARIABLES
  heard,   \* keys the player went through since random mode started over
  asked,   \* the song last asked to play next and not played yet
  moved,   \* whether that request moved the song
  jumped   \* a song jumped the queue since random mode started over

listenVars == <<vars, heard, asked, moved, jumped>>

ListenInit == Init /\ heard = {} /\ asked = None /\ moved = FALSE /\ jumped = FALSE

Exhausted == Keys \subseteq heard \cup {CurrentOrFirst}
Picked    == historyIndex' > historyIndex
Left      == IF Picked THEN CurrentOrFirst ELSE current

\* A random pick out of an exhausted queue starts over.
Advance ==
  /\ MoveToNext
  /\ heard' = ({Left, current'} \ {NoKey}) \cup (IF Picked /\ Exhausted THEN {} ELSE heard)
  /\ asked' = None /\ moved' = FALSE
  /\ UNCHANGED jumped

Edit ==
  /\ \/ \E s \in Song : AddSongs(<<s>>)
     \/ SettleCurrent
  /\ UNCHANGED <<heard, asked, moved, jumped>>

Delete(s) ==
  /\ RemoveSong(s)
  /\ asked' = IF asked = s THEN None ELSE asked
  /\ UNCHANGED <<heard, moved, jumped>>

StartOver ==
  /\ CycleMode \/ Restart
  /\ heard' = {} /\ jumped' = (LivePriority # {})
  /\ UNCHANGED <<asked, moved>>

PlayNext(s) ==
  /\ MoveAfterCurrent(s)
  /\ asked' = IF KeyOf(s) = Anchor THEN None ELSE s
  /\ moved' = (songs' # songs) /\ jumped' = TRUE
  /\ UNCHANGED heard

AddNext(s) ==
  /\ AddSongsAfterCurrent(<<s>>)
  /\ asked' = s /\ moved' = TRUE /\ jumped' = TRUE
  /\ UNCHANGED heard

ListenNext == Advance \/ Edit \/ StartOver
              \/ \E s \in Song : Delete(s) \/ PlayNext(s) \/ AddNext(s)

ListenSpec == ListenInit /\ [][ListenNext]_listenVars

-----------------------------------------------------------------------------
\* What the next call of move_current_to_next_song makes current, when the
\* listener can know it.
PlaysNext(s) ==
  \/ LivePriority # {} /\ songs[priority[Min(LivePriority)]] = s
  \/ /\ LivePriority = {} /\ mode \in {"Sequential", "LoopQueue"}
     /\ CurrentOrFirst # NoKey /\ After(CurrentOrFirst) # {}
     /\ songs[Succ(CurrentOrFirst)] = s

\* A song that "play next" moved or added is the next one, whatever is added
\* or removed before, in every mode and over a restart.
PlayNextKept == asked # None /\ moved => PlaysNext(asked)

\* "No song repeats until the queue is exhausted" (queue_service.rs:6-7), as
\* long as no song jumped the queue: those are not entered in the history.
NoRepeat ==
  [][Picked /\ ~jumped => current' \notin heard \/ Exhausted]_listenVars
=============================================================================
