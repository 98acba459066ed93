----------------------------- MODULE Playlists -----------------------------
(***************************************************************************)
(* Saved playlists (src/crates/metadata/src/playlist_service.rs) and the   *)
(* commands that save and show them (src/crates/server/src/                *)
(* playlist_commands.rs).                                                  *)
(*                                                                         *)
(* The store is one ordered map from byte strings to songs.  A playlist is *)
(* what a scan for its name as a prefix finds, in the order of the keys;   *)
(* saving removes what that scan finds and inserts the songs one by one,   *)
(* so that a crash may come between.  The command handler is one task: no  *)
(* two saves overlap.                                                      *)
(***************************************************************************)
EXTENDS Integers, FiniteSets, Sequences, SequencesExt, TLC

CONSTANTS
  Name,        \* names playlists are saved under: sequences of bytes above Radix
  Radix,       \* bytes 0 .. Radix - 1 are the digits; 10 in the code
  PageSize,    \* songs of an answer; 20 in the code
  Saved,       \* queues that are saved
  MaxSaves     \* bound: saves

ASSUME PlaylistAssumption ==
  /\ Radix \in Nat \ {0, 1} /\ PageSize \in Nat \ {0} /\ MaxSaves \in Nat
  /\ \A n \in Name : n # <<>> /\ \A i \in DOMAIN n : n[i] > Radix
  /\ \A q \in Saved : q # <<>>

VARIABLES
  items,       \* main_db: the song of each key
  listed,      \* pl_tree: names of saved playlists
  saving,      \* the save at work
  promised,    \* the songs last saved under each name
  cut,         \* names whose last save was cut short
  saves        \* saves so far

playlistVars == <<items, listed, saving, promised, cut, saves>>

-----------------------------------------------------------------------------
(* Keys.                                                                   *)

\* The decimal digits of an index, without padding.
Digits[i \in Nat] == IF i < Radix THEN <<i>>
                     ELSE Append(Digits[i \div Radix], i % Radix)

\* "{name}_{idx}"; the underscore comes after the digits and before the letters.
Key(name, idx) == name \o <<Radix>> \o Digits[idx]

LongestSave == CHOOSE n \in {Len(q) : q \in Saved} : \A q \in Saved : Len(q) <= n
PlaylistKeys(name) == {Key(name, i) : i \in 0..(LongestSave - 1)}

\* The order of byte strings.
Below(k, l) ==
  \/ IsStrictPrefix(k, l)
  \/ \E i \in DOMAIN k \cap DOMAIN l :
       SubSeq(k, 1, i - 1) = SubSeq(l, 1, i - 1) /\ k[i] < l[i]

AllKeys  == UNION {PlaylistKeys(n) : n \in Name}
KeyOrder == [i \in 1..Cardinality(AllKeys) |->
               CHOOSE k \in AllKeys : Cardinality({l \in AllKeys : Below(l, k)}) = i - 1]

\* Keyspace::prefix.
PrefixScan(name) ==
  SelectSeq(KeyOrder, LAMBDA k : k \in DOMAIN items /\ IsPrefix(name, k))

-----------------------------------------------------------------------------
(* What a browser is shown.                                                *)

Entries(name) == [i \in DOMAIN PrefixScan(name) |-> items[PrefixScan(name)[i]]]

\* get_playlist_page_by_name: skip and take.
PlaylistPage(name, offset, limit) ==
  SubSeq(Entries(name), offset + 1,
         IF offset + limit < Len(Entries(name)) THEN offset + limit ELSE Len(Entries(name)))

\* QueryPlaylistItems, page after page.
ShownPages(name) ==
  FlattenSeq([p \in 1..(Len(Entries(name)) \div PageSize + 1) |->
                PlaylistPage(name, (p - 1) * PageSize, PageSize)])

-----------------------------------------------------------------------------
(* Saving.                                                                 *)

NoSave == [name |-> <<>>, songs |-> <<>>, gone |-> <<>>, next |-> 0]

PlaylistInit ==
  /\ items = <<>> /\ listed = {} /\ saving = NoSave
  /\ promised = [n \in Name |-> <<>>] /\ cut = {} /\ saves = 0

\* Mutant: the songs of the last save are not looked up.
SaveOver(name, queue) ==
  /\ saving = NoSave /\ saves < MaxSaves
  /\ saving' = [NoSave EXCEPT !.name = name, !.songs = queue]
  /\ saves' = saves + 1
  /\ UNCHANGED <<items, listed, promised, cut>>

\* SaveQueueAsPlaylist; an empty queue is not saved.
SavePlaylist(name, queue) ==
  /\ saving = NoSave /\ saves < MaxSaves
  /\ saving' = [NoSave EXCEPT !.name = name, !.songs = queue, !.gone = PrefixScan(name)]
  /\ saves' = saves + 1
  /\ UNCHANGED <<items, listed, promised, cut>>

RemoveItem ==
  /\ saving.gone # <<>>
  /\ items' = [k \in DOMAIN items \ {Head(saving.gone)} |-> items[k]]
  /\ saving' = [saving EXCEPT !.gone = Tail(@)]
  /\ UNCHANGED <<listed, promised, cut, saves>>

InsertItem ==
  /\ saving.gone = <<>> /\ saving.next < Len(saving.songs)
  /\ items' = (Key(saving.name, saving.next) :> saving.songs[saving.next + 1]) @@ items
  /\ saving' = [saving EXCEPT !.next = @ + 1]
  /\ UNCHANGED <<listed, promised, cut, saves>>

ListPlaylist ==
  /\ saving # NoSave /\ saving.gone = <<>> /\ saving.next = Len(saving.songs)
  /\ listed' = listed \cup {saving.name}
  /\ promised' = [promised EXCEPT ![saving.name] = saving.songs]
  /\ cut' = cut \ {saving.name}
  /\ saving' = NoSave
  /\ UNCHANGED <<items, saves>>

\* The process ends in the middle of a save and is started again.
CutShort ==
  /\ saving # NoSave
  /\ cut' = cut \cup {saving.name}
  /\ saving' = NoSave
  /\ UNCHANGED <<items, listed, promised, saves>>

PlaylistNext ==
  \/ \E name \in Name, queue \in Saved : SavePlaylist(name, queue)
  \/ RemoveItem \/ InsertItem \/ ListPlaylist \/ CutShort

PlaylistSpec == PlaylistInit /\ [][PlaylistNext]_playlistVars

-----------------------------------------------------------------------------
(* Properties.                                                             *)

\* No key of one begins with the name of the other.
Apart(n, m) ==
  \A k \in PlaylistKeys(n), l \in PlaylistKeys(m) : ~IsPrefix(m, k) /\ ~IsPrefix(n, l)

\* What was saved is what is shown: the pages of a playlist give the songs that were
\* saved last under its name, none of an earlier, longer save and none of one that
\* was cut short, and the playlist is listed.  It holds for lists of at most Radix
\* songs whose name no other playlist's key begins with, nor the other way round.
PlaylistKept ==
  \A n \in Name :
    /\ \A m \in Name \ {n} : Apart(n, m)
    /\ n \notin cut /\ saving.name # n /\ Len(promised[n]) <= Radix
    => ShownPages(n) = promised[n] /\ (promised[n] # <<>> => n \in listed)

=============================================================================
