------------------------------- MODULE Queue -------------------------------
(***************************************************************************)
(* The playback queue: QueueService in                                     *)
(* src/crates/metadata/src/queue_service.rs.                               *)
(*                                                                         *)
(* A song sits in the queue under a key, an id that generate_id issues in  *)
(* increasing order, so the order of the keys is the order of the queue.   *)
(* The queue, the current key, the priority list ("play next"), the mode   *)
(* and the reservation of ids are stored; the next id and the random       *)
(* history live only as long as the process.  Every action is one call of  *)
(* a QueueService method, here taken as atomic.                            *)
(***************************************************************************)
EXTENDS Integers, FiniteSets, SequencesExt

CONSTANTS
  Song,        \* the songs of the library
  NoKey,       \* the absent current key
  Block,       \* ids reserved by one write of _next_queue_id; 64 in the code
  MaxBatch,    \* bound: songs added by one call
  MaxId,       \* bound: ids issued
  MaxHistory   \* bound: random picks remembered

ASSUME QueueAssumption ==
  /\ NoKey \notin Nat
  /\ Block \in Nat \ {0}
  /\ MaxBatch \in Nat

VARIABLES
  songs,         \* keyspace "queue": key |-> song
  current,       \* stored current_song_key
  priority,      \* stored priority_queue, a sequence of keys
  mode,          \* playback mode, in memory and stored
  reserved,      \* stored _next_queue_id: a restart goes on from here
  nextId,        \* the next id, in memory
  played,        \* random_played_keys, in memory
  history,       \* random_history_db: index |-> key
  historyIndex   \* random_history_index

ids         == <<reserved, nextId>>
randomState == <<played, history, historyIndex>>
vars        == <<songs, current, priority, mode, ids, randomState>>

Modes   == {"Sequential", "Random", "LoopSingle", "LoopQueue"}
Batches == UNION {[1..n -> Song] : n \in 1..MaxBatch}
Keys    == DOMAIN songs

TypeOK ==
  /\ Keys \in SUBSET Nat
  /\ songs \in [Keys -> Song]
  /\ current \in Nat \cup {NoKey}
  /\ priority \in Seq(Nat)
  /\ mode \in Modes
  /\ reserved \in Nat /\ nextId \in Nat
  /\ played \in SUBSET Nat
  /\ DOMAIN history \in SUBSET Nat
  /\ history \in [DOMAIN history -> Nat]
  /\ historyIndex \in Nat

Init ==
  /\ songs = <<>> /\ current = NoKey /\ priority = <<>>
  /\ mode = "Sequential"
  /\ reserved = 0 /\ nextId = 0
  /\ played = {} /\ history = <<>> /\ historyIndex = 0

-----------------------------------------------------------------------------
(* The order of the queue and the position in it.                          *)

Before(k) == {j \in Keys : j < k}
After(k)  == {j \in Keys : j > k}
Pred(k)   == Max(Before(k))
Succ(k)   == Min(After(k))

\* The first entry that holds song s, as a scan of the keyspace finds it.
KeyOf(s)  == Min({k \in Keys : songs[k] = s})
Queued(s) == \E k \in Keys : songs[k] = s

\* The current key; when there is none, the first key of the queue.
CurrentOrFirst ==
  IF current # NoKey THEN current
  ELSE IF Keys # {} THEN Min(Keys) ELSE NoKey

\* Mutant: the id is stored instead of the end of its block.
ReservationOfStart(n) ==
  LET blockStarts == {i \in nextId..(nextId + n - 1) : i % Block = 0}
  IN IF blockStarts = {} THEN reserved ELSE Max(blockStarts)

\* generate_id, n times: an id divisible by Block first reserves a block.
Reservation(n) ==
  LET blockStarts == {i \in nextId..(nextId + n - 1) : i % Block = 0}
  IN IF blockStarts = {} THEN reserved ELSE Max(blockStarts) + Block

Issue(n) ==
  /\ nextId + n <= MaxId
  /\ nextId' = nextId + n
  /\ reserved' = Reservation(n)

\* The queue q followed by the songs ss under the ids from first on.
Extend(q, first, ss) ==
  [k \in DOMAIN q \cup first..(first + Len(ss) - 1) |->
      IF k \in DOMAIN q THEN q[k] ELSE ss[k - first + 1]]

\* Mutant: the index survives the reset.
ResetKeepingIndex == played' = {} /\ history' = <<>> /\ UNCHANGED historyIndex

ResetRandom == /\ played' = {}
               /\ history' = <<>>
               /\ historyIndex' = 0

-----------------------------------------------------------------------------
(* Adding, removing and replacing songs.                                   *)

AddSongs(ss) ==
  /\ Issue(Len(ss))
  /\ songs' = Extend(songs, nextId, ss)
  /\ UNCHANGED <<current, priority, mode, randomState>>

\* The songs go to the end of the queue and their keys to the head of the
\* priority list.  The keys are new, so none of them is in the list yet.
AddSongsAfterCurrent(ss) ==
  /\ ss # <<>>
  /\ Issue(Len(ss))
  /\ songs' = Extend(songs, nextId, ss)
  /\ priority' = [i \in 1..Len(ss) |-> nextId + i - 1] \o priority
  /\ UNCHANGED <<current, mode, randomState>>

RemoveSong(s) ==
  /\ Queued(s)
  /\ songs' = [k \in Keys \ {KeyOf(s)} |-> songs[k]]
  /\ UNCHANGED <<current, priority, mode, ids, randomState>>

Clear ==
  /\ songs' = <<>> /\ current' = NoKey /\ priority' = <<>>
  /\ ResetRandom
  /\ UNCHANGED <<mode, ids>>

ReplaceAllSongs(ss) ==
  /\ Issue(Len(ss))
  /\ songs' = Extend(<<>>, nextId, ss) /\ current' = NoKey /\ priority' = <<>>
  /\ ResetRandom
  /\ UNCHANGED mode

-----------------------------------------------------------------------------
(* Moving the current position.                                            *)

\* Entries of the priority list whose song was removed are dropped on the way.
LivePriority == {i \in DOMAIN priority : priority[i] \in Keys}

PlayPriority ==
  /\ LivePriority # {}
  /\ LET first == Min(LivePriority)
     IN /\ current' = priority[first]
        /\ priority' = SubSeq(priority, first + 1, Len(priority))
  /\ UNCHANGED <<songs, mode, ids, randomState>>

RepeatSong ==
  /\ mode = "LoopSingle"
  /\ current' = CurrentOrFirst
  /\ UNCHANGED randomState

\* Mutant: what was played is not consulted.
AnyOther == Keys \ {CurrentOrFirst}

\* A song not played yet; when all were played, any but the current one.
Unplayed   == Keys \ (played \cup {CurrentOrFirst})
Candidates == IF Unplayed # {} THEN Unplayed ELSE Keys \ {CurrentOrFirst}

PickRandom(k) ==
  /\ mode = "Random" /\ Cardinality(Keys) >= 2
  /\ k \in Candidates
  /\ historyIndex < MaxHistory
  /\ current' = k
  /\ played' = {k, CurrentOrFirst} \cup (IF Unplayed # {} THEN played ELSE {})
  /\ historyIndex' = historyIndex + 1
  /\ history' = [i \in DOMAIN history \cup {historyIndex'} |->
                   IF i = historyIndex' THEN k ELSE history[i]]

NothingToPick ==
  /\ mode = "Random" /\ Cardinality(Keys) < 2
  /\ UNCHANGED <<current, randomState>>

StepForward ==
  /\ mode \in {"Sequential", "LoopQueue"}
  /\ current' = IF CurrentOrFirst = NoKey THEN NoKey
                ELSE IF After(CurrentOrFirst) # {} THEN Succ(CurrentOrFirst)
                ELSE IF mode = "LoopQueue" /\ Keys # {} THEN Min(Keys)
                ELSE CurrentOrFirst
  /\ UNCHANGED randomState

MoveToNext ==
  \/ PlayPriority
  \/ /\ LivePriority = {} /\ priority' = <<>>
     /\ RepeatSong \/ StepForward \/ NothingToPick \/ \E k \in Keys : PickRandom(k)
     /\ UNCHANGED <<songs, mode, ids>>

\* What move_current_to_next_song returns.
HasNext ==
  \/ LivePriority # {}
  \/ mode = "LoopSingle" /\ CurrentOrFirst # NoKey
  \/ mode = "Random" /\ Cardinality(Keys) >= 2
  \/ mode = "LoopQueue" /\ Keys # {}
  \/ mode = "Sequential" /\ CurrentOrFirst # NoKey /\ After(CurrentOrFirst) # {}

\* Random mode goes back along the history while there is one.
BackInHistory ==
  /\ mode = "Random" /\ historyIndex > 0
  /\ IF historyIndex - 1 \in DOMAIN history
     THEN /\ current' = history[historyIndex - 1]
          /\ historyIndex' = historyIndex - 1
     ELSE UNCHANGED <<current, historyIndex>>
  /\ UNCHANGED <<played, history>>

StepBack ==
  /\ ~(mode = "Random" /\ historyIndex > 0)
  /\ current' = IF CurrentOrFirst = NoKey THEN NoKey
                ELSE IF Before(CurrentOrFirst) # {} THEN Pred(CurrentOrFirst)
                ELSE IF mode = "LoopQueue" /\ Keys # {} THEN Max(Keys)
                ELSE CurrentOrFirst
  /\ UNCHANGED randomState

MoveToPrevious ==
  /\ BackInHistory \/ StepBack
  /\ UNCHANGED <<songs, priority, mode, ids>>

MoveTo(s) ==
  /\ Queued(s)
  /\ current' = KeyOf(s)
  /\ UNCHANGED <<songs, priority, mode, ids, randomState>>

\* set_current_to_last, of AddSongAndPlay.
MoveToLast ==
  /\ Keys # {}
  /\ current' = Max(Keys)
  /\ UNCHANGED <<songs, priority, mode, ids, randomState>>

\* set_current_song: the commands pass it a key they have just added.
SetCurrent(k) ==
  /\ k \in Keys
  /\ current' = k
  /\ UNCHANGED <<songs, priority, mode, ids, randomState>>

\* get_current_song and the queue queries settle the current key.
SettleCurrent ==
  /\ current' = CurrentOrFirst
  /\ UNCHANGED <<songs, priority, mode, ids, randomState>>

-----------------------------------------------------------------------------
(* Reordering: the songs shift under keys that stay.                       *)

Shifted(f, t) ==
  [k \in Keys |-> IF k = t THEN songs[f]
                  ELSE IF f <= k /\ k < t THEN songs[Succ(k)]
                  ELSE IF t < k /\ k <= f THEN songs[Pred(k)]
                  ELSE songs[k]]

\* Mutant: the last song of the moved range is taken for unmoved.
NewPositionShort(c, f, t) ==
  IF c = f THEN t
  ELSE IF f < c /\ c < t THEN Pred(c)
  ELSE IF t <= c /\ c < f THEN Succ(c)
  ELSE c

\* Where the song under key c goes when the song under f moves to t.
NewPosition(c, f, t) ==
  IF c = f THEN t
  ELSE IF f < c /\ c <= t THEN Pred(c)
  ELSE IF t <= c /\ c < f THEN Succ(c)
  ELSE c

\* Mutant: the current key stays where it was.
ReorderKeepingKey(f, t) == songs' = Shifted(f, t) /\ current' = CurrentOrFirst

Reorder(f, t) ==
  /\ songs' = Shifted(f, t)
  /\ current' = IF CurrentOrFirst \in Keys THEN NewPosition(CurrentOrFirst, f, t)
                ELSE CurrentOrFirst

MoveItem(s, t) ==
  /\ Queued(s) /\ Queued(t)
  /\ Reorder(KeyOf(s), KeyOf(t))
  /\ UNCHANGED <<priority, mode, ids, randomState>>

\* "Play next": the song moves behind the current one (behind the first one
\* when the current key is not in the queue) and heads the priority list.
Anchor == IF CurrentOrFirst \in Keys THEN CurrentOrFirst ELSE Min(Keys)

FollowsAnchor(k) == Before(k) # {} /\ Pred(k) = Anchor

\* The priority list without its first entry k.
Without(k) ==
  LET at == {i \in DOMAIN priority : priority[i] = k}
  IN IF at = {} THEN priority ELSE RemoveAt(priority, Min(at))

\* Mutant: the new entry goes to the end of the list.
PushBack(k) == RemoveFirst(priority, k) \o <<k>>

\* add_to_priority_queue.
PushFront(k) == <<k>> \o Without(k)

MoveAfterCurrent(s) ==
  /\ Queued(s)
  /\ LET from   == KeyOf(s)
         target == IF from < Anchor THEN Anchor ELSE Succ(Anchor)
     IN IF from = Anchor \/ FollowsAnchor(from)
        THEN /\ current' = CurrentOrFirst
             /\ UNCHANGED <<songs, priority>>
        ELSE /\ Reorder(from, target)
             /\ priority' = PushFront(target)
  /\ UNCHANGED <<mode, ids, randomState>>

-----------------------------------------------------------------------------
CycleMode ==
  /\ mode' = CASE mode = "Sequential" -> "Random"
               [] mode = "Random"     -> "LoopSingle"
               [] mode = "LoopSingle" -> "LoopQueue"
               [] mode = "LoopQueue"  -> "Sequential"
  /\ ResetRandom
  /\ UNCHANGED <<songs, current, priority, ids>>

\* Mutant: the next id is worked out from the queue instead of reloaded.
RestartFromQueue ==
  /\ nextId' = IF Keys = {} THEN 0 ELSE Max(Keys) + 1
  /\ ResetRandom
  /\ UNCHANGED <<songs, current, priority, mode, reserved>>

\* A new process: what is in memory is lost, the random history is cleared.
Restart ==
  /\ nextId' = reserved
  /\ ResetRandom
  /\ UNCHANGED <<songs, current, priority, mode, reserved>>

\* A crash while songs are added one by one, and the restart after it: n ids
\* were issued, the song of the last one is stored or not yet.
CrashWhileAdding(ss, n) ==
  /\ nextId + n <= MaxId
  /\ \E stored \in {n - 1, n} : songs' = Extend(songs, nextId, SubSeq(ss, 1, stored))
  /\ reserved' = Reservation(n)
  /\ nextId' = reserved'
  /\ ResetRandom
  /\ UNCHANGED <<current, priority, mode>>

Next ==
  \/ \E ss \in Batches : AddSongs(ss) \/ AddSongsAfterCurrent(ss) \/ ReplaceAllSongs(ss)
  \/ \E ss \in Batches : \E n \in DOMAIN ss : CrashWhileAdding(ss, n)
  \/ \E s \in Song : RemoveSong(s) \/ MoveTo(s) \/ MoveAfterCurrent(s)
  \/ \E s, t \in Song : MoveItem(s, t)
  \/ \E k \in Keys : SetCurrent(k)
  \/ MoveToNext \/ MoveToPrevious \/ MoveToLast \/ SettleCurrent
  \/ Clear \/ CycleMode \/ Restart

Spec == Init /\ [][Next]_vars

-----------------------------------------------------------------------------
(* Properties.                                                             *)

Mentioned == Keys \cup ToSet(priority) \cup played \cup ToSet(history)
             \cup ({current} \ {NoKey})

\* Every key the program still holds anywhere is older than the next id, and
\* the stored reservation is ahead of it, so a restart issues no key twice.
IdsReserved ==
  /\ \A k \in Mentioned : k < nextId
  /\ nextId <= reserved /\ reserved % Block = 0

\* A song added to the queue comes under a key behind all songs of the queue
\* and unknown to the current position, the priority list and the random
\* history: it never becomes current or "next" by accident.
FreshKeys ==
  [][\A k \in DOMAIN songs' \ Keys : \A m \in Mentioned : m < k]_vars

\* Reordering (songs change under the same keys) leaves the position on the
\* song it was on, and loses and doubles no song.
ReorderKeepsSong ==
  [][DOMAIN songs' = Keys /\ songs' # songs =>
       /\ CurrentOrFirst \in Keys => songs'[current'] = songs[CurrentOrFirst]
       /\ \A s \in Song : Cardinality({k \in Keys : songs'[k] = s})
                         = Cardinality({k \in Keys : songs[k] = s})]_vars

\* The lists beside the queue are sound whatever modes, restarts and loads came
\* between: a song is queued to play next at most once, and the random history has
\* no hole up to its index, so that going back step by step finds every pick.
ListsSound ==
  /\ \A i, j \in DOMAIN priority : priority[i] = priority[j] => i = j
  /\ DOMAIN history = 1..Cardinality(DOMAIN history)
  /\ historyIndex <= Cardinality(DOMAIN history)
=============================================================================
