------------------------------ MODULE Library ------------------------------
(***************************************************************************)
(* The music library: songs and albums in the database, the scans that     *)
(* keep them in step with the disk (src/crates/metadata/src/               *)
(* metadata_service.rs, album_repository.rs, song_repository.rs) and the   *)
(* threads RescanMetadata starts (src/crates/server/src/                   *)
(* metadata_commands.rs).                                                  *)
(*                                                                         *)
(* Songs and albums are two keyspaces written one after the other; an      *)
(* album is read, changed and written back.  A scan thread does one such   *)
(* step at a time, so that scans, changes on disk and a crash come in      *)
(* between.  Of a song its album matters, of an album which songs it has:  *)
(* no entry is kept for an album without songs.                            *)
(***************************************************************************)
EXTENDS Integers, FiniteSets, Sequences, SequencesExt

CONSTANTS
  Path,        \* files a walk may meet, in its order: records of the music directory,
               \* the database keys of its songs and the tags it may have
  Scanner,     \* bound: scan threads
  MaxScans,    \* bound: scans requested
  MaxChanges   \* bound: changes of the disk, and crashes

\* A file is stored under its path below its music directory: two directories with
\* files of the same name share a key and are left out.  The tracks of a disc image
\* have no album.
ASSUME LibraryAssumption ==
  /\ MaxScans \in Nat /\ MaxChanges \in Nat
  /\ DOMAIN Path \subseteq Nat
  /\ \A p \in DOMAIN Path :
       /\ Path[p].keys \in Seq(Range(Path[p].keys)) /\ Path[p].keys # <<>>
       /\ Path[p].tags \cap {"None", "Absent"} = {}
       /\ Len(Path[p].keys) > 1 => Path[p].tags \subseteq {"Untagged", "Broken"}
  /\ \A p, q \in DOMAIN Path :
       p # q => Range(Path[p].keys) \cap Range(Path[q].keys) = {}

VARIABLES
  disk,        \* the tag of each file: its album, or "Untagged", "Broken", "Absent"
  mounted,     \* music directories that are configured and exist
  songs,       \* the songs keyspace: the album of each key, or "None"
  albums,      \* the albums keyspace: song_keys of each album
  migrated,    \* the marker of the clean-up of old versions
  up,          \* the server runs
  running,     \* scan_running
  scan,        \* scan threads
  requests,    \* scans requested so far
  changes,     \* changes of the disk and crashes so far
  torn,        \* an album may name a song that is gone
  sound        \* no scan was cut short or overlapped since the last full one, or ever

database == <<songs, albums>>
outside  == <<disk, mounted>>
counters == <<requests, changes>>
vars == <<disk, mounted, songs, albums, migrated, up, running, scan, requests,
          changes, torn, sound>>

Files == DOMAIN Path
Dirs  == {Path[p].dir : p \in Files}
Keys  == UNION {Range(Path[p].keys) : p \in Files}
Album == (UNION {Path[p].tags : p \in Files}) \ {"Untagged", "Broken"}

Idle == [at |-> "Idle", full |-> FALSE, found |-> {}, track |-> 1, gone |-> {},
         kept |-> {}, key |-> "None", tag |-> "None", read |-> {}, clean |-> FALSE]

Stage == {"Idle", "Check", "Mark", "DropSongs", "DropAlbums", "Walk", "Compare", "Add",
          "AddRead", "AddWrite", "RemoveWrite", "Delete"}
Scan  == [at : Stage, full : BOOLEAN, found : SUBSET Files, track : Nat \ {0},
          gone : SUBSET Keys, kept : SUBSET Keys, key : Keys \cup {"None"},
          tag : Album \cup {"None"}, read : SUBSET Keys, clean : BOOLEAN]

TypeOK ==
  /\ disk \in [Files -> Album \cup {"Untagged", "Broken", "Absent"}]
  /\ \A p \in Files : disk[p] \in Path[p].tags \cup {"Absent"}
  /\ mounted \subseteq Dirs
  /\ songs \in [Keys -> Album \cup {"Untagged", "None"}]
  /\ albums \in [Album -> SUBSET Keys]
  /\ {migrated, up, running, torn, sound} \subseteq BOOLEAN
  /\ scan \in [Scanner -> Scan]
  /\ requests \in 0..MaxScans /\ changes \in 0..MaxChanges

\* A database of an older version may hold albums whose songs are gone.
Init ==
  /\ disk \in {d \in [Files -> Album \cup {"Untagged", "Broken"}] :
                 \A p \in Files : d[p] \in Path[p].tags}
  /\ mounted = Dirs
  /\ songs = [k \in Keys |-> "None"]
  /\ \E k \in Keys : albums = [a \in Album |-> {k}]
  /\ migrated = FALSE /\ up = FALSE /\ running = FALSE
  /\ scan = [t \in Scanner |-> Idle]
  /\ requests = 0 /\ changes = 0
  /\ torn = TRUE /\ sound = TRUE

Known == {k \in Keys : songs[k] # "None"}
Scanning == {t \in Scanner : scan[t].at \notin {"Idle", "Check", "Mark"}}

-----------------------------------------------------------------------------
(* What happens outside.                                                   *)

\* Scans that run no longer describe the disk.
Disturbed == [t \in Scanner |-> [scan[t] EXCEPT !.clean = FALSE]]

\* A file comes, goes or gets another tag.
Edit(p) ==
  /\ changes < MaxChanges
  /\ \E tag \in Path[p].tags \cup {"Absent"} :
       /\ tag # disk[p]
       /\ disk' = [disk EXCEPT ![p] = tag]
  /\ changes' = changes + 1
  /\ scan' = Disturbed
  /\ UNCHANGED <<mounted, database, migrated, up, running, requests, torn, sound>>

\* A share comes or goes.
Remount(d) ==
  /\ changes < MaxChanges
  /\ mounted' = IF d \in mounted THEN mounted \ {d} ELSE mounted \cup {d}
  /\ changes' = changes + 1
  /\ scan' = Disturbed
  /\ UNCHANGED <<disk, database, migrated, up, running, requests, torn, sound>>

\* The process ends; what was written stays, the flag does not.
Crash ==
  /\ up /\ changes < MaxChanges
  /\ up' = FALSE /\ running' = FALSE
  /\ scan' = [t \in Scanner |-> Idle]
  /\ changes' = changes + 1
  /\ sound' = (sound /\ Scanning = {})
  /\ UNCHANGED <<outside, database, migrated, requests, torn>>

\* cleanup_orphaned_albums, for the keys that are in the songs keyspace.
Cleaned == [a \in Album |-> albums[a] \cap Known]

\* MetadataService::new, with the clean-up once.
Start ==
  /\ ~up /\ up' = TRUE
  /\ albums' = IF migrated THEN albums ELSE Cleaned
  /\ migrated' = TRUE
  /\ torn' = (torn /\ migrated)
  /\ UNCHANGED <<outside, songs, running, scan, counters, sound>>

\* RescanMetadata: every request has a thread of its own.  Threads are alike.
Request ==
  LET free == {t \in Scanner : scan[t].at = "Idle"}
      t    == CHOOSE u \in free : TRUE
  IN
  /\ up /\ requests < MaxScans /\ free # {}
  /\ \E full \in BOOLEAN :
       scan' = [scan EXCEPT ![t] = [Idle EXCEPT !.at = "Check", !.full = full]]
  /\ requests' = requests + 1
  /\ UNCHANGED <<outside, database, migrated, up, running, changes, torn, sound>>

-----------------------------------------------------------------------------
(* One scan, scan_music_dir.                                               *)

Go(t, next) == scan' = [scan EXCEPT ![t] = next]

\* The flag is read and set in two steps: two scans may find it down.
Check(t) ==
  /\ scan[t].at = "Check"
  /\ Go(t, IF running THEN Idle ELSE [scan[t] EXCEPT !.at = "Mark"])
  /\ UNCHANGED <<outside, database, migrated, up, running, counters, torn, sound>>

Mark(t) ==
  LET alone == Scanning = {}
      at    == IF scan[t].full THEN "DropSongs" ELSE "Walk"
  IN /\ scan[t].at = "Mark"
     /\ running' = TRUE
     /\ scan' = IF alone THEN [scan EXCEPT ![t].at = at, ![t].clean = TRUE]
                ELSE [Disturbed EXCEPT ![t].at = at]
     /\ torn' = (torn \/ ~alone)
     /\ sound' = (sound /\ alone)
     /\ UNCHANGED <<outside, database, migrated, up, counters>>

\* A full scan empties both keyspaces, songs first.
DropSongs(t) ==
  /\ scan[t].at = "DropSongs"
  /\ songs' = [k \in Keys |-> "None"]
  /\ Go(t, [scan[t] EXCEPT !.at = "DropAlbums"])
  /\ torn' = TRUE
  /\ UNCHANGED <<outside, albums, migrated, up, running, counters, sound>>

DropAlbums(t) ==
  /\ scan[t].at = "DropAlbums"
  /\ albums' = [a \in Album |-> {}]
  /\ Go(t, [scan[t] EXCEPT !.at = "Walk"])
  /\ torn' = ~(Scanning = {t})
  /\ UNCHANGED <<outside, songs, migrated, up, running, counters, sound>>

Present(p)  == Path[p].dir \in mounted /\ disk[p] # "Absent"
Readable(p) == Present(p) /\ disk[p] # "Broken"

\* The keys of a file in the database; a disc image has several and is taken
\* for scanned if one of them is there.
KnownOf(p) == Range(Path[p].keys) \cap Known
Walked     == {p \in Files : Present(p)}
Unknown(p) == KnownOf(p) = {}
NewFiles   == {p \in Walked : Unknown(p)}

\* Mutant: the tracks of a disc image are not met by the walk.
UnchangedPlain == UNION {KnownOf(p) : p \in {q \in Walked : Len(Path[q].keys) = 1}}

Unchanged  == UNION {KnownOf(p) : p \in Walked}

\* get_diff: the walk over the directories ...
Walk(t) ==
  /\ scan[t].at = "Walk"
  /\ Go(t, [scan[t] EXCEPT !.at = "Compare", !.found = NewFiles, !.kept = Unchanged])
  /\ UNCHANGED <<outside, database, migrated, up, running, counters, torn, sound>>

\* ... and then the songs it has not met.
Compare(t) ==
  /\ scan[t].at = "Compare"
  /\ Go(t, [scan[t] EXCEPT !.at = "Add", !.gone = Known \ scan[t].kept, !.kept = {}])
  /\ UNCHANGED <<outside, database, migrated, up, running, counters, torn, sound>>

\* The new files are read in the order of the walk.
File(t) == Min(scan[t].found)

\* The scan after a song of the file is stored: its next song, or the next file.
Stored(t) ==
  IF scan[t].track < Len(Path[File(t)].keys)
    THEN [scan[t] EXCEPT !.at = "Add", !.track = @ + 1, !.key = "None", !.tag = "None",
                         !.read = {}]
    ELSE [scan[t] EXCEPT !.at = "Add", !.track = 1, !.found = @ \ {File(t)}, !.key = "None",
                         !.tag = "None", !.read = {}]

\* Mutant: a file that cannot be read is tried again.
Retry(t) ==
  /\ scan[t].at = "Add" /\ scan[t].found # {}
  /\ scan[t].track = 1 /\ ~Readable(File(t))
  /\ UNCHANGED vars

\* A file that cannot be read is logged and passed over.
Skip(t) ==
  /\ scan[t].at = "Add" /\ scan[t].found # {}
  /\ scan[t].track = 1 /\ ~Readable(File(t))
  /\ Go(t, [scan[t] EXCEPT !.found = @ \ {File(t)}])
  /\ UNCHANGED <<outside, database, migrated, up, running, counters, torn, sound>>

\* scan_single_file, scan_ape_file_fast, scan_sacd_iso_file: the song is saved;
\* without album and artist it goes into no album.  The tracks of a disc image
\* were read with the first of them.
SaveSong(t) ==
  LET p   == File(t)
      tag == IF scan[t].track = 1 THEN disk[p] ELSE "Untagged"
      key == Path[p].keys[scan[t].track]
  IN /\ scan[t].at = "Add" /\ scan[t].found # {}
     /\ scan[t].track > 1 \/ Readable(p)
     /\ songs' = [songs EXCEPT ![key] = tag]
     /\ Go(t, IF tag = "Untagged" THEN Stored(t)
              ELSE [scan[t] EXCEPT !.at = "AddRead", !.key = key, !.tag = tag])
     /\ UNCHANGED <<outside, albums, migrated, up, running, counters, torn, sound>>

\* update_from_song: the album is read ...
AddRead(t) ==
  /\ scan[t].at = "AddRead"
  /\ Go(t, [scan[t] EXCEPT !.at = "AddWrite", !.read = albums[scan[t].tag]])
  /\ UNCHANGED <<outside, database, migrated, up, running, counters, torn, sound>>

\* Mutant: the album is written anew, with the song alone.
AddAlone(t) ==
  /\ scan[t].at = "AddWrite"
  /\ albums' = [albums EXCEPT ![scan[t].tag] = {scan[t].key}]
  /\ Go(t, Stored(t))
  /\ UNCHANGED <<outside, songs, migrated, up, running, counters, torn, sound>>

\* ... and written back with the song.
AddWrite(t) ==
  /\ scan[t].at = "AddWrite"
  /\ albums' = [albums EXCEPT ![scan[t].tag] = scan[t].read \cup {scan[t].key}]
  /\ Go(t, Stored(t))
  /\ UNCHANGED <<outside, songs, migrated, up, running, counters, torn, sound>>

\* An incremental scan takes out the songs not met: a song is looked up, with
\* its album, ...
TakeOff(t) ==
  /\ scan[t].at = "Add" /\ scan[t].found = {} /\ ~scan[t].full
  /\ \E k \in scan[t].gone :
       Go(t, IF songs[k] \in Album
             THEN [scan[t] EXCEPT !.at = "RemoveWrite", !.key = k, !.tag = songs[k],
                                  !.read = albums[songs[k]]]
             ELSE [scan[t] EXCEPT !.at = "Delete", !.key = k])
  /\ UNCHANGED <<outside, database, migrated, up, running, counters, torn, sound>>

\* ... taken off the album, if there is one (remove_from_song), ...
RemoveWrite(t) ==
  /\ scan[t].at = "RemoveWrite"
  /\ albums' = IF scan[t].read = {} THEN albums
               ELSE [albums EXCEPT ![scan[t].tag] = scan[t].read \ {scan[t].key}]
  /\ Go(t, [scan[t] EXCEPT !.at = "Delete"])
  /\ UNCHANGED <<outside, songs, migrated, up, running, counters, torn, sound>>

\* ... and deleted.
Delete(t) ==
  /\ scan[t].at = "Delete"
  /\ songs' = [songs EXCEPT ![scan[t].key] = "None"]
  /\ Go(t, [scan[t] EXCEPT !.at = "Add", !.gone = @ \ {scan[t].key}, !.key = "None",
                           !.tag = "None", !.read = {}])
  /\ UNCHANGED <<outside, albums, migrated, up, running, counters, torn, sound>>

Finished(t) == /\ scan[t].at = "Add" /\ scan[t].found = {}
               /\ scan[t].full \/ scan[t].gone = {}

Finish(t) ==
  /\ Finished(t)
  /\ running' = FALSE
  /\ sound' = (sound \/ (scan[t].full /\ scan[t].clean))
  /\ Go(t, Idle)
  /\ UNCHANGED <<outside, database, migrated, up, counters, torn>>

Step(t) ==
  \/ Check(t) \/ Mark(t) \/ DropSongs(t) \/ DropAlbums(t) \/ Walk(t) \/ Compare(t)
  \/ Skip(t) \/ SaveSong(t) \/ AddRead(t) \/ AddWrite(t)
  \/ TakeOff(t) \/ RemoveWrite(t) \/ Delete(t) \/ Finish(t)

Next ==
  \/ Start \/ Crash
  \/ \E p \in Files : Edit(p)
  \/ \E d \in Dirs : Remount(d)
  \/ Request
  \/ \E t \in Scanner : Step(t)

\* Scan threads run; nobody has to ask for a scan.
Fairness == \A t \in Scanner : WF_vars(Step(t))

Spec     == Init /\ [][Next]_vars
FairSpec == Spec /\ Fairness

-----------------------------------------------------------------------------
(* Properties.                                                             *)

\* "the album record was never cleaned up" (docs/release_notes.md:483): no album
\* names a song that is not in the library, whatever was cut short, but between
\* the two deletions of a full scan and after scans that overlapped.
NoDangling == torn \/ \A a \in Album : albums[a] \subseteq Known

\* Between scans every song is in its album and in no other, unless a scan was cut
\* short or overlapped and no full one came after it.
Catalogued ==
  sound /\ migrated /\ Scanning = {} =>
    \A a \in Album : albums[a] = {k \in Keys : songs[k] = a}

\* A scan that is neither overlapped nor overtaken by changes of the disk ends
\* with a song for each file that can be read and none for any other, whatever
\* state earlier scans and crashes left ("scan for new tracks",
\* docs/configuration.md:101) ...
ScanMatchesDisk ==
  \A t \in Scanner : Finished(t) /\ scan[t].clean =>
    \A p \in Files :
      IF Readable(p) THEN KnownOf(p) # {} ELSE Present(p) \/ KnownOf(p) = {}

\* ... and a full one with tags, tracks and albums as they are on disk ("rebuild
\* the entire library").
FullScanExact ==
  \A t \in Scanner : Finished(t) /\ scan[t].clean /\ scan[t].full =>
    /\ \A p \in Files : \A k \in Range(Path[p].keys) :
         songs[k] = IF Readable(p) THEN disk[p] ELSE "None"
    /\ \A a \in Album : albums[a] = {k \in Keys : songs[k] = a}

\* Albums and songs are in step.
AlbumsInStep == NoDangling /\ Catalogued

\* A scan does what was asked for.
ScanExact == ScanMatchesDisk /\ FullScanExact

\* A scan ends, whatever it meets: later ones are not turned away for ever.
ScanEnds == running ~> ~running

=============================================================================
