----------------------------- MODULE QueueRace -----------------------------
(***************************************************************************)
(* The queue between two songs: the playback thread moves it on            *)
(* (src/crates/playback/src/rsp/player_service.rs, play_all_in_queue)      *)
(* while the command handler changes it                                    *)
(* (src/crates/server/src/queue_commands.rs).  QueueService                *)
(* (src/crates/metadata/src/queue_service.rs) takes no lock across its     *)
(* reads and writes of the store: each of them is a step here.             *)
(*                                                                         *)
(* Commands that stop the thread wait for its end and meet nobody; they    *)
(* are left out, as is random mode, whose pick is made under a lock.  Only *)
(* the command handler writes entries, so that its own reads of them need  *)
(* no step.  A song is known by the key it was added under.                *)
(***************************************************************************)
EXTENDS Integers, Sequences, FiniteSets, FiniteSetsExt, SequencesExt

CONSTANTS
  QueueLen,     \* songs of the queue at first
  MaxEdits,     \* bound: commands
  MaxAdvances   \* bound: songs that end

ASSUME RaceAssumption == QueueLen \in Nat \ {0} /\ MaxEdits \in Nat /\ MaxAdvances \in Nat

VARIABLES
  entries,        \* queue_db: the song under each key
  currentKey,     \* CURRENT_SONG_KEY
  priorityQueue,  \* priority_queue
  repeat,         \* playback_mode
  player,         \* the playback thread: step, priority list it read, key, song it plays
  command,        \* the command: step and what it has read
  edits, advances,
  wanted,         \* songs to be played next, by commands that met no advance
  crossed         \* the last advance and a reordering overlapped

stored   == <<entries, currentKey, priorityQueue, repeat>>
raceVars == <<stored, player, command, edits, advances, wanted, crossed>>

NoCommand == [at |-> "Idle"]
Present     == DOMAIN entries
Position(k) == Cardinality({j \in Present : j <= k})
KeysInOrder == [i \in 1..Cardinality(Present) |-> CHOOSE k \in Present : Position(k) = i]

RaceInit ==
  /\ entries = [k \in 1..QueueLen |-> k] /\ currentKey \in 1..QueueLen
  /\ priorityQueue = <<>> /\ repeat \in {"Sequential", "LoopQueue", "LoopSingle"}
  /\ player = [at |-> "Play", pq |-> <<>>, key |-> currentKey, song |-> currentKey]
  /\ command = NoCommand /\ edits = 0 /\ advances = 0
  /\ wanted = {} /\ crossed = FALSE

-----------------------------------------------------------------------------
(* The playback thread: move_current_to_next_song and get_current_song.    *)

Shifting  == command.at \in {"Shift", "Follow"}
Advancing == player.at \in {"Priority", "Save"}

ThreadKeeps == UNCHANGED <<command, edits, entries, repeat>>

SongEnds ==
  /\ player.at = "Play" /\ advances < MaxAdvances /\ advances' = advances + 1
  /\ player' = [player EXCEPT !.at = "Priority", !.pq = priorityQueue, !.key = 0]
  /\ ThreadKeeps /\ UNCHANGED <<currentKey, priorityQueue, wanted, crossed>>

\* Entries that are queued no more are passed over.
TakePriority ==
  /\ player.at = "Priority"
  /\ player' = IF player.pq = <<>> THEN [player EXCEPT !.at = "Save"]
               ELSE IF Head(player.pq) \in Present
                 THEN [player EXCEPT !.at = "Save", !.pq = Tail(@), !.key = Head(player.pq)]
                 ELSE [player EXCEPT !.pq = Tail(@)]
  /\ ThreadKeeps /\ UNCHANGED <<currentKey, priorityQueue, advances, wanted, crossed>>

\* The list is written back, also when nothing was taken.
SavePriority ==
  /\ player.at = "Save"
  /\ priorityQueue' = player.pq
  /\ player' = [player EXCEPT !.at = IF player.key = 0 THEN "Mode" ELSE "Set"]
  /\ wanted' = IF command.at = "AskSave" THEN {}
               ELSE wanted \ {entries[k] : k \in Present \cap {player.key}}
  /\ ThreadKeeps /\ UNCHANGED <<currentKey, advances, crossed>>

ReadMode ==
  /\ player.at = "Mode"
  /\ player' = [player EXCEPT !.at = IF repeat = "LoopSingle" THEN "Load" ELSE "Pick",
                              !.key = currentKey]
  /\ ThreadKeeps /\ UNCHANGED <<currentKey, priorityQueue, advances, wanted, crossed>>

Behind == {k \in Present : k > player.key}

\* Mutant: a queue that loops ends with its last song.
PickWithoutWrap ==
  /\ player.at = "Pick"
  /\ player' = IF Behind # {} THEN [player EXCEPT !.at = "Set", !.key = Min(Behind)]
               ELSE [player EXCEPT !.at = "Finished"]
  /\ ThreadKeeps /\ UNCHANGED <<currentKey, priorityQueue, advances, wanted, crossed>>

Pick ==
  /\ player.at = "Pick"
  /\ player' = IF Behind # {} THEN [player EXCEPT !.at = "Set", !.key = Min(Behind)]
               ELSE IF repeat = "LoopQueue" /\ Present # {}
                 THEN [player EXCEPT !.at = "Set", !.key = Min(Present)]
                 ELSE [player EXCEPT !.at = "Finished"]
  /\ ThreadKeeps /\ UNCHANGED <<currentKey, priorityQueue, advances, wanted, crossed>>

SetCurrentKey ==
  /\ player.at = "Set"
  /\ currentKey' = player.key
  /\ player' = [player EXCEPT !.at = "Load"]
  /\ ThreadKeeps /\ UNCHANGED <<priorityQueue, advances, wanted, crossed>>

\* get_current_song reads the key again, and then the song.
LoadKey ==
  /\ player.at = "Load"
  /\ player' = [player EXCEPT !.at = "Read", !.key = currentKey]
  /\ crossed' = Shifting
  /\ ThreadKeeps /\ UNCHANGED <<currentKey, priorityQueue, advances, wanted>>

ReadSong ==
  /\ player.at = "Read"
  /\ player' = IF player.key \in Present
                 THEN [player EXCEPT !.at = "Play", !.song = entries[player.key]]
                 ELSE [player EXCEPT !.at = "Finished"]
  /\ crossed' = (crossed \/ Shifting)
  /\ ThreadKeeps /\ UNCHANGED <<currentKey, priorityQueue, advances, wanted>>

AdvanceStep ==
  \/ SongEnds \/ TakePriority \/ SavePriority \/ ReadMode \/ Pick \/ SetCurrentKey
  \/ LoadKey \/ ReadSong

-----------------------------------------------------------------------------
(* The command handler.                                                    *)

HandlerKeeps == UNCHANGED <<player, advances, repeat>>

Given == command = NoCommand /\ edits < MaxEdits /\ edits' = edits + 1

NewKey == QueueLen + edits + 1

AddSong ==
  /\ Given /\ entries' = [k \in Present \cup {NewKey} |-> IF k = NewKey THEN k ELSE entries[k]]
  /\ HandlerKeeps /\ UNCHANGED <<command, currentKey, priorityQueue, wanted, crossed>>

AddSongAfterCurrent ==
  /\ Given /\ entries' = [k \in Present \cup {NewKey} |-> IF k = NewKey THEN k ELSE entries[k]]
  /\ command' = [at |-> "AskRead", key |-> NewKey]
  /\ HandlerKeeps /\ UNCHANGED <<currentKey, priorityQueue, wanted, crossed>>

\* Mutant: what was asked for before is forgotten.
PromotedAlone(pq, key) == <<key>>

\* add_to_priority_queue: the first entry of the key, if there is one, makes way for
\* the new one.
Promoted(pq, key) ==
  LET at == {i \in DOMAIN pq : pq[i] = key}
  IN <<key>> \o (IF at = {} THEN pq ELSE RemoveAt(pq, Min(at)))

\* The list is read, and written later.
AskRead ==
  /\ command.at = "AskRead"
  /\ command' = [at |-> "AskSave", key |-> command.key,
                 pq |-> Promoted(priorityQueue, command.key)]
  /\ HandlerKeeps /\ UNCHANGED <<edits, stored, wanted, crossed>>

AskSave ==
  /\ command.at = "AskSave"
  /\ priorityQueue' = command.pq /\ command' = NoCommand
  /\ wanted' = IF Advancing THEN {} ELSE wanted \cup {entries[command.key]}
  /\ HandlerKeeps /\ UNCHANGED <<edits, entries, currentKey, crossed>>

RemoveItem ==
  /\ Given /\ \E k \in Present : entries' = [j \in Present \ {k} |-> entries[j]]
  /\ HandlerKeeps /\ UNCHANGED <<command, currentKey, priorityQueue, wanted, crossed>>

MoveItemByIndex ==
  /\ Given
  /\ \E f, t \in 1..Cardinality(Present) :
       command' = [at |-> "Plan", from |-> f, to |-> t, next |-> FALSE]
  /\ HandlerKeeps /\ UNCHANGED <<stored, wanted, crossed>>

\* move_item_after_current_by_index, up to the move; a current key that is queued no
\* more counts as the first.
MoveItemAfterCurrent ==
  /\ Given
  /\ LET here == IF currentKey \in Present THEN Position(currentKey) ELSE 1 IN
       \E f \in 1..Cardinality(Present) \ {here, here + 1} :
         command' = [at |-> "Plan", from |-> f, to |-> IF f < here THEN here ELSE here + 1,
                     next |-> TRUE]
  /\ HandlerKeeps /\ UNCHANGED <<stored, wanted, crossed>>

\* Where the song at i comes to when the one at f moves to t; so the song that comes
\* to i was at Moved(i, t, f).
Moved(i, f, t) ==
  CASE i = f -> t
    [] f < i /\ i <= t -> i - 1
    [] t <= i /\ i < f -> i + 1
    [] OTHER -> i

\* move_item_by_index reads the current key, writes the songs one by one, and then the
\* key the current song has come to.  The priority list keeps its keys, under which there
\* are other songs then.
Plan ==
  /\ command.at = "Plan"
  /\ LET f == command.from  t == command.to
         keys == KeysInOrder
         song == [i \in DOMAIN keys |-> entries[keys[Moved(i, t, f)]]]
         lo == Min({f, t})  hi == Max({f, t})
         here == IF currentKey \in Present THEN Position(currentKey) ELSE 0
     IN /\ command' = [at |-> "Shift",
                       writes |-> [n \in 1..(hi - lo + 1) |-> <<keys[lo + n - 1], song[lo + n - 1]>>],
                       follow |-> IF here = 0 \/ Moved(here, f, t) = here THEN 0
                                  ELSE keys[Moved(here, f, t)],
                       key |-> keys[t], next |-> command.next]
        /\ wanted' = IF f = t THEN wanted ELSE wanted \ {song[i] : i \in lo..hi}
  /\ HandlerKeeps /\ UNCHANGED <<edits, stored, crossed>>

Shift ==
  /\ command.at = "Shift"
  /\ LET write == Head(command.writes) IN entries' = [entries EXCEPT ![write[1]] = write[2]]
  /\ command' = [command EXCEPT !.writes = Tail(@),
                                !.at = IF Len(command.writes) = 1 THEN "Follow" ELSE "Shift"]
  /\ HandlerKeeps /\ UNCHANGED <<edits, currentKey, priorityQueue, wanted, crossed>>

Moves(key) == command' = IF command.next THEN [at |-> "AskRead", key |-> key] ELSE NoCommand

\* Mutant: the current key stays where it is.
FollowNothing ==
  /\ command.at = "Follow" /\ Moves(command.key)
  /\ HandlerKeeps /\ UNCHANGED <<edits, stored, wanted, crossed>>

Follow ==
  /\ command.at = "Follow" /\ Moves(command.key)
  /\ currentKey' = IF command.follow = 0 THEN currentKey ELSE command.follow
  /\ crossed' = (crossed \/ player.at = "Read")
  /\ HandlerKeeps /\ UNCHANGED <<edits, entries, priorityQueue, wanted>>

EditStep ==
  \/ AddSong \/ AddSongAfterCurrent \/ RemoveItem \/ MoveItemByIndex \/ MoveItemAfterCurrent
  \/ AskRead \/ AskSave \/ Plan \/ Shift \/ Follow

RaceNext == AdvanceStep \/ EditStep

RaceSpec == RaceInit /\ [][RaceNext]_raceVars

-----------------------------------------------------------------------------
(* Properties.                                                             *)

\* Once a command is done the current key names the song that plays, unless that was
\* removed, or the move of a song overlapped the thread's step to it.
InPlace ==
  /\ player.at = "Play" /\ command = NoCommand /\ ~crossed
  /\ \E k \in Present : entries[k] = player.song
  => currentKey \in Present /\ entries[currentKey] = player.song

\* A song asked to play next is in the priority list, under the key it then has, until
\* it is removed, the thread takes it, or a move of a song, its own or another one's,
\* shifts it to another key: the list is of keys, and no move changes it.  A request that
\* overlapped an advance is excepted: both write the whole list.
AskedKept == \A k \in Present : entries[k] \in wanted => k \in ToSet(priorityQueue)

\* A queue or a song that is repeated ends only because the song to be played was
\* removed before the thread had read it.
LoopsOn == player.at = "Finished" /\ repeat # "Sequential" => player.key \notin Present

\* The queue and the thread agree, whatever the commands change between two songs.
RaceSound == InPlace /\ AskedKept /\ LoopsOn
=============================================================================
