--------------------------- MODULE LibraryProofs ---------------------------
(***************************************************************************)
(* That albums and songs stay in step, and that a scan that nothing        *)
(* disturbs ends with what is on disk: proofs about Library, for every     *)
(* set of files, every number of scan threads and every bound.  At the     *)
(* end, that each song is measured once: proofs about LoudnessScan.        *)
(***************************************************************************)
EXTENDS Library, LoudnessScan, WellFoundedInduction, TLAPS

-----------------------------------------------------------------------------
(* The inductive invariant.                                                *)

KeysOf(p)  == Range(Path[p].keys)
Reading(s) == Min(s.found)          \* the file a scan is at

Before == {"Idle", "Check", "Mark"}
Adding == {"AddRead", "AddWrite"}
Taking == {"RemoveWrite", "Delete"}
Later  == {"Compare", "Add"} \cup Adding \cup Taking

\* What a scan holds at each of its stages, whatever else runs.
Placed(s) ==
  /\ s.found # {} => /\ s.at \in {"Compare", "Add"} \cup Adding
                     /\ s.track <= Len(Path[Reading(s)].keys)
  /\ s.found = {} \/ s.at = "Compare" => s.track = 1
  /\ s.at \in Adding => /\ s.found # {} /\ s.track = 1 /\ s.tag \in Album
                        /\ Path[Reading(s)].keys = <<s.key>>
  /\ s.at \in Taking => s.key \in s.gone /\ s.key \in Keys /\ ~s.full
  /\ s.at = "RemoveWrite" => s.tag \in Album
  /\ s.at \in Before => ~s.clean

\* Scans run while the server is up, and it has cleaned up by then.
Lifecycle ==
  /\ ~up => \A t \in Scanner : scan[t].at = "Idle"
  /\ up => migrated
  /\ ~migrated => Known = {}

\* Only a scan beside which there is no other can be trusted.
Trusted(s) == ~torn \/ sound \/ s.clean

Alone == \A t, u \in Scanning : Trusted(scan[t]) => u = t

\* The songs of files that are still to be read are in no album, and what the scan
\* has read of the database is what is there.
Held(s) ==
  /\ \A p \in s.found : \A k \in KeysOf(p) : songs[k] \in Album => s.at \in Adding /\ k = s.key
  /\ s.at \in Adding \cup {"RemoveWrite"} => songs[s.key] = s.tag
  /\ s.at \in {"AddWrite", "RemoveWrite"} => s.read = albums[s.tag]
  /\ s.at = "DropAlbums" => Known = {}

\* An album names songs of its own, and none that is about to be deleted.
Named(s) ==
  \A a \in Album : \A k \in albums[a] : songs[k] = a /\ ~(s.at = "Delete" /\ k = s.key)

\* Every song is in its album, but for the one in hand.
Firm(s)   == (sound /\ migrated) \/ (s.clean /\ s.full /\ s.at # "DropSongs")
InHand(s) == IF s.at \in Adding \cup {"Delete"} THEN {s.key} ELSE {}
Filed(s)  == \A a \in Album : \A k \in Keys :
               k \in albums[a] <=> songs[k] = a /\ k \notin InHand(s)

\* What an undisturbed scan knows of the disk.
Surveyed(s) ==
  /\ s.at \in Later => /\ \A p \in s.found : Present(p)
                       /\ \A p \in Files : Readable(p) => p \in s.found \/ KnownOf(p) # {}
  /\ s.at = "Compare" => \A k \in Keys : k \in s.kept <=> \E p \in Walked : k \in KnownOf(p)
  /\ s.at \in Later \ {"Compare"} =>
       \A p \in Files : IF Present(p) THEN KeysOf(p) \cap s.gone = {}
                                      ELSE KnownOf(p) \subseteq s.gone

\* What a full one has made of the library so far.
Rebuilt(s) ==
  /\ s.at \in {"DropAlbums", "Walk", "Compare"} => Known = {}
  /\ s.at \in Later =>
       /\ \A p \in Files \ s.found : \A k \in KeysOf(p) :
            songs[k] = IF Readable(p) THEN disk[p] ELSE "None"
       /\ \A p \in s.found :
            KnownOf(p) # {} => p = Reading(s) /\ (s.at \in Adding \/ s.track > 1)
       /\ s.at \in Adding => Readable(Reading(s)) /\ s.tag = disk[Reading(s)]
       /\ s.track > 1 =>
            /\ Readable(Reading(s))
            /\ \A j \in 1..s.track - 1 : songs[Path[Reading(s)].keys[j]] = disk[Reading(s)]

\* What holds of a scan under way, as far as it can be trusted.
Fit(s) ==
  /\ Trusted(s) => Held(s)
  /\ ~torn => Named(s)
  /\ Firm(s) /\ s.at # "DropAlbums" => Filed(s)
  /\ s.clean => Surveyed(s) /\ (s.full => Rebuilt(s))

\* Between scans the database is as a scan that has not begun would find it.
IInv ==
  /\ TypeOK /\ Lifecycle /\ Alone
  /\ \A t \in Scanner : Placed(scan[t])
  /\ \A t \in Scanning : Fit(scan[t])
  /\ Scanning = {} => Fit(Idle)

-----------------------------------------------------------------------------
(* Files and their keys.                                                   *)

LEMMA MinFacts == \A S \in SUBSET Nat : S # {} => Min(S) \in S
<1> SUFFICES ASSUME NEW S \in SUBSET Nat, S # {} PROVE Min(S) \in S
  OBVIOUS
<1>1. IsWellFoundedOn(OpToRel(<, Nat), Nat)
  BY NatLessThanWellFounded
<1>2. PICK x \in S : \A y \in S : ~(<<y, x>> \in OpToRel(<, Nat))
  BY <1>1, WFMin
<1>3. \A y \in S : ~(y < x)
  BY <1>2 DEF OpToRel
<1>4. \A y \in S : x <= y
  BY <1>3
<1> QED BY <1>4 DEF Min

\* The file a scan is at is one of those it has found.
LEMMA ReadingFacts ==
  ASSUME NEW s \in Scan, s.found # {}
  PROVE  Reading(s) \in s.found /\ Reading(s) \in Files
<1>1. s.found \in SUBSET Nat /\ s.found \subseteq Files
  BY LibraryAssumption DEF Scan, Files
<1> QED BY <1>1, MinFacts DEF Reading

LEMMA KeyFacts ==
  /\ \A p \in Files :
       /\ Len(Path[p].keys) \in Nat \ {0} /\ DOMAIN Path[p].keys = 1..Len(Path[p].keys)
       /\ KeysOf(p) # {} /\ KeysOf(p) \subseteq Keys
       /\ \A i \in 1..Len(Path[p].keys) : Path[p].keys[i] \in KeysOf(p)
       /\ \A k \in KeysOf(p) : \E i \in 1..Len(Path[p].keys) : k = Path[p].keys[i]
  /\ \A k \in Keys : \E p \in Files : k \in KeysOf(p)
  /\ \A p, q \in Files : p # q => KeysOf(p) \cap KeysOf(q) = {}
<1>1. ASSUME NEW p \in Files
      PROVE  /\ Len(Path[p].keys) \in Nat \ {0} /\ DOMAIN Path[p].keys = 1..Len(Path[p].keys)
             /\ KeysOf(p) \subseteq Keys
  <2>1. Path[p].keys \in Seq(Range(Path[p].keys)) /\ Path[p].keys # <<>>
    BY LibraryAssumption DEF Files
  <2> QED BY <2>1 DEF KeysOf, Keys
<1>2. ASSUME NEW p \in Files
      PROVE  /\ \A i \in 1..Len(Path[p].keys) : Path[p].keys[i] \in KeysOf(p)
             /\ \A k \in KeysOf(p) : \E i \in 1..Len(Path[p].keys) : k = Path[p].keys[i]
  BY <1>1 DEF KeysOf, Range
<1>3. \A p \in Files : KeysOf(p) # {}
  BY <1>1, <1>2
<1>4. \A k \in Keys : \E p \in Files : k \in KeysOf(p)
  BY DEF Keys, KeysOf
<1>5. \A p, q \in Files : p # q => KeysOf(p) \cap KeysOf(q) = {}
  BY LibraryAssumption DEF Files, KeysOf
<1> QED BY <1>1, <1>2, <1>3, <1>4, <1>5

\* The tracks of a disc image have no album.
LEMMA TagFacts ==
  /\ {"None", "Untagged", "Broken", "Absent"} \cap Album = {}
  /\ \A p \in Files : \A tag \in Path[p].tags :
       tag \in Album => Len(Path[p].keys) = 1 /\ Path[p].keys = <<Path[p].keys[1]>>
<1>1. {"None", "Untagged", "Broken", "Absent"} \cap Album = {}
  BY LibraryAssumption DEF Album, Files
<1>2. ASSUME NEW p \in Files, NEW tag \in Path[p].tags, tag \in Album
      PROVE  Len(Path[p].keys) = 1 /\ Path[p].keys = <<Path[p].keys[1]>>
  <2>1. Len(Path[p].keys) = 1
    <3> DEFINE n == Len(Path[p].keys)
    <3>1. ~(Path[p].tags \subseteq {"Untagged", "Broken"})
      BY <1>2 DEF Album
    <3>2. ~(n > 1)
      BY <3>1, LibraryAssumption DEF Files
    <3>3. n \in Nat \ {0}
      BY KeyFacts
    <3> HIDE DEF n
    <3>4. n = 1
      BY <3>2, <3>3
    <3> QED BY <3>4 DEF n
  <2>2. Path[p].keys \in Seq(Range(Path[p].keys))
    BY LibraryAssumption DEF Files
  <2> QED BY <2>1, <2>2
<1> QED BY <1>1, <1>2

LEMMA KnownFacts ==
  \A p \in Files : \A k : k \in KnownOf(p) <=> k \in KeysOf(p) /\ songs[k] # "None"
BY KeyFacts DEF KnownOf, Known, KeysOf

LEMMA PresentFacts ==
  ASSUME TypeOK
  PROVE  \A p \in Files : /\ Readable(p) => Present(p)
                          /\ Readable(p) => disk[p] \in Path[p].tags
                          /\ Readable(p) => disk[p] \in Album \cup {"Untagged"}
BY DEF TypeOK, Readable, Present

-----------------------------------------------------------------------------
(* The initial states, and the steps of a thread on its own.               *)

LEMMA IdleFits == Idle \in Scan /\ Placed(Idle) /\ InHand(Idle) = {}
BY DEF Idle, Scan, Stage, Placed, InHand, Before, Adding, Taking

LEMMA InitIInv == Init => IInv
<1> SUFFICES ASSUME Init PROVE IInv
  OBVIOUS
<1>1. scan \in [Scanner -> Scan] /\ \A t \in Scanner : scan[t] = Idle /\ scan[t].at = "Idle"
  BY IdleFits DEF Init, Idle
<1>2. TypeOK
  <2>1. /\ disk \in [Files -> Album \cup {"Untagged", "Broken", "Absent"}]
        /\ \A p \in Files : disk[p] \in Path[p].tags \cup {"Absent"}
    BY DEF Init
  <2>2. songs \in [Keys -> Album \cup {"Untagged", "None"}] /\ albums \in [Album -> SUBSET Keys]
    BY DEF Init
  <2>3. mounted \subseteq Dirs /\ requests \in 0..MaxScans /\ changes \in 0..MaxChanges
    BY LibraryAssumption DEF Init
  <2>4. {migrated, up, running, torn, sound} \subseteq BOOLEAN
    BY DEF Init
  <2> QED BY <1>1, <2>1, <2>2, <2>3, <2>4 DEF TypeOK
<1>3. Lifecycle
  BY <1>1 DEF Init, Lifecycle, Known
<1>4. Scanning = {}
  BY <1>1 DEF Scanning
<1>5. Fit(Idle)
  BY DEF Init, Fit, Held, Firm, Idle, Adding
<1> QED BY <1>1, <1>2, <1>3, <1>4, <1>5, IdleFits DEF IInv, Alone

\* A scan that goes on: what it has to show is that it fits.  Another one under way
\* is not to be trusted, nor is this one then.
LEMMA ThreadKeeps ==
  ASSUME IInv, NEW t \in Scanning, NEW next \in Scan, next.at \notin Before,
         next.clean = scan[t].clean, scan' = [scan EXCEPT ![t] = next],
         Placed(next), Fit(next)',
         UNCHANGED <<disk, mounted, up, migrated, running, sound, requests, changes>>,
         songs' \in [Keys -> Album \cup {"Untagged", "None"}],
         albums' \in [Album -> SUBSET Keys], torn' \in BOOLEAN,
         ~torn' => ~torn \/ Scanning = {t}
  PROVE  IInv'
<1>1. TypeOK /\ Lifecycle /\ Alone
  BY DEF IInv
<1>2. t \in Scanner /\ scan[t].at \notin Before
  BY DEF Scanning, Before
<1>3. /\ scan' \in [Scanner -> Scan] /\ scan'[t] = next
      /\ \A u \in Scanner \ {t} : scan'[u] = scan[u]
  BY <1>1, <1>2 DEF TypeOK
<1>4. Scanning' = Scanning
  BY <1>2, <1>3 DEF Scanning, Before
<1>5. TypeOK'
  BY <1>1, <1>3 DEF TypeOK
<1>6. up /\ migrated
  BY <1>1, <1>2 DEF Lifecycle, Before
<1>7. Lifecycle'
  BY <1>6 DEF Lifecycle
<1>8. ASSUME NEW u \in Scanning, u # t
      PROVE  torn /\ ~sound /\ ~scan[u].clean /\ ~scan[t].clean /\ torn' /\ ~sound'
  BY <1>1, <1>5, <1>8 DEF Alone, Trusted, TypeOK
<1>9. Alone'
  <2> SUFFICES ASSUME NEW u \in Scanning, NEW v \in Scanning, Trusted(scan[u])', v # u
               PROVE  FALSE
    BY <1>4 DEF Alone
  <2>1. u \in Scanner /\ (u = t => v # t)
    BY DEF Scanning
  <2>2. ~scan'[u].clean
    <3>1. CASE u = t
      BY <1>3, <1>8, <2>1, <3>1
    <3>2. CASE u # t
      BY <1>3, <1>8, <2>1, <3>2
    <3> QED BY <3>1, <3>2
  <2>3. torn' /\ ~sound'
    BY <1>8, <2>1
  <2> QED BY <2>2, <2>3 DEF Trusted
<1>10. \A u \in Scanner : Placed(scan'[u])
  BY <1>3 DEF IInv
<1>11. ASSUME NEW u \in Scanning PROVE Fit(scan[u])'
  <2>1. CASE u = t
    BY <1>3, <2>1
  <2>2. CASE u # t
    <3>1. scan'[u] = scan[u]
      BY <1>3, <2>2 DEF Scanning
    <3> QED BY <1>8, <2>2, <3>1 DEF Fit, Trusted, Firm
  <2> QED BY <2>1, <2>2
<1> QED BY <1>4, <1>5, <1>7, <1>9, <1>10, <1>11 DEF IInv, Placed, Reading

-----------------------------------------------------------------------------
(* What happens outside, and how a scan begins and ends.                   *)

LEMMA SameFits ==
  ASSUME UNCHANGED <<disk, mounted, songs, albums, migrated, torn, sound>>, NEW s
  PROVE  Fit(s)' <=> Fit(s)
<1>1. /\ Held(s)' <=> Held(s)
      /\ Named(s)' <=> Named(s)
      /\ Filed(s)' <=> Filed(s)
  BY DEF Held, Named, Filed, Known
<1>2. /\ Surveyed(s)' <=> Surveyed(s)
      /\ Rebuilt(s)' <=> Rebuilt(s)
  BY DEF Surveyed, Rebuilt, Present, Readable, KnownOf, Known, Walked
<1>3. (Trusted(s)' <=> Trusted(s)) /\ (Firm(s)' <=> Firm(s))
  BY DEF Trusted, Firm
<1> QED BY <1>1, <1>2, <1>3 DEF Fit

\* A scan that is disturbed promises less.
LEMMA DisturbedFacts ==
  ASSUME NEW s \in Scan, NEW r, r = [s EXCEPT !.clean = FALSE]
  PROVE  /\ r \in Scan /\ r.at = s.at /\ ~r.clean
         /\ Placed(s) => Placed(r)
         /\ Fit(s) /\ UNCHANGED <<songs, albums, migrated, torn, sound>> => Fit(r)'
<1>1. /\ r \in Scan /\ r.at = s.at /\ r.full = s.full /\ r.found = s.found /\ r.track = s.track
      /\ r.gone = s.gone /\ r.key = s.key /\ r.tag = s.tag /\ r.read = s.read /\ r.clean = FALSE
  BY DEF Scan
<1>2. Placed(s) => Placed(r)
  BY <1>1 DEF Placed, Reading
<1>3. ASSUME Fit(s), UNCHANGED <<songs, albums, migrated, torn, sound>> PROVE Fit(r)'
  <2>1. /\ Held(s) => Held(r)'
        /\ Named(s) => Named(r)'
        /\ Filed(s) => Filed(r)'
    BY <1>1, <1>3 DEF Held, Named, Filed, InHand, Known
  <2>2. (Trusted(r)' => Trusted(s)) /\ (Firm(r)' => Firm(s))
    BY <1>1, <1>3 DEF Trusted, Firm
  <2> QED BY <1>1, <1>3, <2>1, <2>2 DEF Fit
<1> QED BY <1>1, <1>2, <1>3

LEMMA DisturbedKeeps ==
  ASSUME IInv, scan' = Disturbed,
         UNCHANGED <<songs, albums, migrated, up, running, torn, sound, requests>>,
         /\ disk' \in [Files -> Album \cup {"Untagged", "Broken", "Absent"}]
         /\ \A p \in Files : disk'[p] \in Path[p].tags \cup {"Absent"}
         /\ mounted' \subseteq Dirs /\ changes' \in 0..MaxChanges
  PROVE  IInv'
<1>1. TypeOK /\ Lifecycle /\ Alone
  BY DEF IInv
<1>2. ASSUME NEW t \in Scanner
      PROVE  /\ scan[t] \in Scan /\ scan'[t] = [scan[t] EXCEPT !.clean = FALSE]
             /\ scan'[t] \in Scan /\ scan'[t].at = scan[t].at /\ ~scan'[t].clean
             /\ Placed(scan'[t]) /\ (t \in Scanning => Fit(scan[t])')
  <2>1. scan[t] \in Scan /\ scan'[t] = [scan[t] EXCEPT !.clean = FALSE]
    BY <1>1 DEF TypeOK, Disturbed
  <2>2. PICK r : r = [scan[t] EXCEPT !.clean = FALSE]
    OBVIOUS
  <2>3. /\ r \in Scan /\ r.at = scan[t].at /\ ~r.clean /\ Placed(r)
        /\ Fit(scan[t]) => Fit(r)'
    BY <2>1, <2>2, DisturbedFacts DEF IInv
  <2>4. t \in Scanning => Fit(scan[t])
    BY DEF IInv
  <2>5. scan'[t] = r
    BY <2>1, <2>2
  <2> QED BY <2>1, <2>3, <2>4, <2>5
<1>3. Scanning' = Scanning
  BY <1>2 DEF Scanning
<1>4. TypeOK'
  <2>1. scan' \in [Scanner -> Scan]
    BY <1>2 DEF Disturbed
  <2> QED BY <1>1, <2>1 DEF TypeOK
<1>5. Lifecycle'
  BY <1>1, <1>2 DEF Lifecycle, Known
<1>6. Alone'
  BY <1>1, <1>2, <1>3 DEF Alone, Trusted, Scanning
<1>7. Scanning' = {} => Fit(Idle)'
  <2> SUFFICES ASSUME Scanning = {} PROVE Fit(Idle)'
    BY <1>3
  <2>1. Idle.clean = FALSE
    BY DEF Idle
  <2>2. Fit(Idle)
    BY DEF IInv
  <2>3. /\ Held(Idle)' <=> Held(Idle)
        /\ Named(Idle)' <=> Named(Idle)
        /\ Filed(Idle)' <=> Filed(Idle)
        /\ Trusted(Idle)' <=> Trusted(Idle)
        /\ Firm(Idle)' <=> Firm(Idle)
    BY DEF Held, Named, Filed, Known, Trusted, Firm
  <2> QED BY <2>1, <2>2, <2>3 DEF Fit
<1> QED BY <1>2, <1>3, <1>4, <1>5, <1>6, <1>7 DEF IInv, Scanning

LEMMA EditKeeps == ASSUME IInv, NEW p \in Files, Edit(p) PROVE IInv'
<1>1. TypeOK
  BY DEF IInv
<1>2. PICK tag \in Path[p].tags \cup {"Absent"} : disk' = [disk EXCEPT ![p] = tag]
  BY DEF Edit
<1>3. tag \in Album \cup {"Untagged", "Broken", "Absent"}
  BY <1>2 DEF Album
<1>4. /\ disk' \in [Files -> Album \cup {"Untagged", "Broken", "Absent"}]
      /\ \A q \in Files : disk'[q] \in Path[q].tags \cup {"Absent"}
  BY <1>1, <1>2, <1>3 DEF TypeOK
<1>5. mounted' \subseteq Dirs /\ changes' \in 0..MaxChanges
  BY <1>1, LibraryAssumption DEF TypeOK, Edit
<1>6. /\ scan' = Disturbed
      /\ UNCHANGED <<songs, albums, migrated, up, running, torn, sound, requests>>
  BY DEF Edit, database
<1> QED BY <1>4, <1>5, <1>6, DisturbedKeeps

LEMMA RemountKeeps == ASSUME IInv, NEW d \in Dirs, Remount(d) PROVE IInv'
<1>1. TypeOK
  BY DEF IInv
<1>2. /\ disk' \in [Files -> Album \cup {"Untagged", "Broken", "Absent"}]
      /\ \A q \in Files : disk'[q] \in Path[q].tags \cup {"Absent"}
  BY <1>1 DEF TypeOK, Remount
<1>3. mounted' \subseteq Dirs /\ changes' \in 0..MaxChanges
  BY <1>1, LibraryAssumption DEF TypeOK, Remount
<1>4. /\ scan' = Disturbed
      /\ UNCHANGED <<songs, albums, migrated, up, running, torn, sound, requests>>
  BY DEF Remount, database
<1> QED BY <1>2, <1>3, <1>4, DisturbedKeeps

\* Without a scan the albums are as Idle has it.
LEMMA CrashKeeps == ASSUME IInv, Crash PROVE IInv'
<1>1. TypeOK /\ Lifecycle /\ Alone
  BY DEF IInv
<1>2. /\ scan' \in [Scanner -> Scan] /\ \A t \in Scanner : scan'[t] = Idle /\ scan'[t].at = "Idle"
      /\ UNCHANGED <<disk, mounted, songs, albums, migrated, requests, torn>>
      /\ up' = FALSE /\ running' = FALSE /\ changes' = changes + 1 /\ changes < MaxChanges
      /\ sound' = (sound /\ Scanning = {})
  BY IdleFits DEF Crash, outside, database, Idle
<1>3. Scanning' = {}
  BY <1>2 DEF Scanning
<1>4. TypeOK'
  <2>1. changes' \in 0..MaxChanges /\ sound' \in BOOLEAN
    BY <1>1, <1>2, LibraryAssumption DEF TypeOK
  <2> QED BY <1>1, <1>2, <2>1 DEF TypeOK
<1>5. Lifecycle'
  BY <1>1, <1>2 DEF Lifecycle, Known, Crash
<1>6. Fit(Idle)'
  <2>1. CASE Scanning = {}
    <3>1. sound' = sound
      BY <1>1, <1>2, <2>1 DEF TypeOK
    <3> QED BY <1>2, <2>1, <3>1, SameFits DEF IInv
  <2>2. CASE Scanning # {}
    <3>1. ~sound' /\ torn' = torn
      BY <1>2, <2>2
    <3>2. ~torn => \A a \in Album : \A k \in albums[a] : songs[k] = a
      <4>1. PICK t \in Scanning : Fit(scan[t])
        BY <2>2 DEF IInv
      <4> QED BY <4>1 DEF Fit, Named
    <3>3. ~torn => Named(Idle)'
      BY <1>2, <3>2 DEF Named, Idle
    <3> QED BY <3>1, <3>3 DEF Fit, Held, Firm, Idle, Adding
  <2> QED BY <2>1, <2>2
<1> QED BY <1>2, <1>3, <1>4, <1>5, <1>6, IdleFits DEF IInv, Alone

LEMMA StartKeeps == ASSUME IInv, Start PROVE IInv'
<1>1. TypeOK /\ Lifecycle /\ Alone
  BY DEF IInv
<1>2. /\ ~up /\ up' = TRUE /\ migrated' = TRUE
      /\ albums' = IF migrated THEN albums ELSE Cleaned
      /\ torn' = (torn /\ migrated)
      /\ UNCHANGED <<disk, mounted, songs, running, scan, requests, changes, sound>>
  BY DEF Start, outside, counters
<1>3. Scanning = {} /\ Scanning' = {}
  BY <1>1, <1>2 DEF Lifecycle, Scanning
<1>4. TypeOK'
  <2>1. albums' \in [Album -> SUBSET Keys]
    BY <1>1, <1>2 DEF TypeOK, Cleaned
  <2>2. torn' \in BOOLEAN
    BY <1>1, <1>2 DEF TypeOK
  <2> QED BY <1>1, <1>2, <2>1, <2>2 DEF TypeOK
<1>5. Lifecycle'
  BY <1>2 DEF Lifecycle
<1>6. Fit(Idle)'
  <2>1. CASE migrated
    <3>1. albums' = albums /\ torn' = torn /\ migrated' = migrated
      BY <1>1, <1>2, <2>1 DEF TypeOK
    <3> QED BY <1>2, <1>3, <3>1, SameFits DEF IInv
  <2>2. CASE ~migrated
    <3>1. \A k \in Keys : songs'[k] = "None"
      BY <1>1, <1>2, <2>2 DEF Lifecycle, Known
    <3>2. \A a \in Album : albums'[a] = {}
      BY <1>1, <1>2, <2>2 DEF Lifecycle, Cleaned
    <3>3. Named(Idle)' /\ Filed(Idle)'
      BY <3>1, <3>2, TagFacts DEF Named, Filed
    <3> QED BY <3>3 DEF Fit, Held, Idle, Adding
  <2> QED BY <2>1, <2>2
<1> QED BY <1>1, <1>2, <1>3, <1>4, <1>5, <1>6 DEF IInv, Alone, Placed, Reading

\* A scan that has not begun comes, waits or goes: the others do not feel it.
LEMMA WaitKeeps ==
  ASSUME IInv, NEW t \in Scanner, scan[t].at \in Before, NEW next \in Scan, next.at \in Before,
         Placed(next), scan' = [scan EXCEPT ![t] = next], up,
         UNCHANGED <<disk, mounted, songs, albums, migrated, up, running, changes, torn, sound>>,
         requests' \in 0..MaxScans
  PROVE  IInv'
<1>1. TypeOK /\ Lifecycle /\ Alone
  BY DEF IInv
<1>2. /\ scan' \in [Scanner -> Scan] /\ scan'[t] = next
      /\ \A u \in Scanner \ {t} : scan'[u] = scan[u]
  BY <1>1 DEF TypeOK
<1>3. Scanning' = Scanning /\ \A u \in Scanning : scan'[u] = scan[u]
  BY <1>2 DEF Scanning, Before
<1>4. TypeOK'
  BY <1>1, <1>2 DEF TypeOK
<1>5. Lifecycle'
  BY <1>1 DEF Lifecycle
<1>6. Alone'
  BY <1>1, <1>3 DEF Alone, Trusted
<1>7. \A u \in Scanner : Placed(scan'[u])
  BY <1>2 DEF IInv
<1>8. ASSUME NEW u \in Scanning PROVE Fit(scan[u])'
  <2>1. PICK s : s = scan[u]
    OBVIOUS
  <2>2. Fit(s)' /\ scan'[u] = s
    BY <1>3, <2>1, SameFits DEF IInv
  <2> QED BY <2>2
<1>9. Scanning = {} => Fit(Idle)'
  BY SameFits DEF IInv
<1> QED BY <1>3, <1>4, <1>5, <1>6, <1>7, <1>8, <1>9 DEF IInv, Placed, Reading

LEMMA RequestKeeps == ASSUME IInv, Request PROVE IInv'
<1>1. TypeOK
  BY DEF IInv
<1>2. PICK t \in Scanner : /\ scan[t].at = "Idle"
                           /\ \E full \in BOOLEAN :
                                scan' = [scan EXCEPT ![t] = [Idle EXCEPT !.at = "Check", !.full = full]]
  BY DEF Request
<1>3. PICK full \in BOOLEAN : scan' = [scan EXCEPT ![t] = [Idle EXCEPT !.at = "Check", !.full = full]]
  BY <1>2
<1>4. PICK next : next = [Idle EXCEPT !.at = "Check", !.full = full]
  OBVIOUS
<1>5. next \in Scan /\ next.at \in Before /\ Placed(next)
  <2>1. /\ next \in Scan /\ next.at = "Check" /\ next.found = {} /\ next.track = 1
        /\ next.clean = FALSE
    <3>1. Idle.found = {} /\ Idle.track = 1 /\ Idle.clean = FALSE
      BY DEF Idle
    <3> QED BY <1>4, <3>1, IdleFits DEF Scan, Stage
  <2> QED BY <2>1 DEF Before, Placed, Adding, Taking
<1>6. /\ UNCHANGED <<disk, mounted, songs, albums, migrated, up, running, changes, torn, sound>>
      /\ up /\ requests' \in 0..MaxScans
  BY <1>1, LibraryAssumption DEF Request, TypeOK, outside, database
<1> QED BY <1>2, <1>3, <1>4, <1>5, <1>6, WaitKeeps DEF Before

LEMMA CheckKeeps == ASSUME IInv, NEW t \in Scanner, Check(t) PROVE IInv'
<1>1. TypeOK /\ Lifecycle /\ scan[t] \in Scan /\ Placed(scan[t]) /\ scan[t].at = "Check"
  BY DEF IInv, Check, TypeOK
<1>2. PICK next : next = IF running THEN Idle ELSE [scan[t] EXCEPT !.at = "Mark"]
  OBVIOUS
<1>3. next \in Scan /\ next.at \in Before /\ Placed(next)
  <2>1. CASE running
    BY <1>2, <2>1, IdleFits DEF Idle, Before
  <2>2. CASE ~running
    <3>1. next = [scan[t] EXCEPT !.at = "Mark"]
      BY <1>2, <2>2
    <3>2. next \in Scan /\ next.at = "Mark" /\ next.found = scan[t].found /\ next.clean = scan[t].clean
          /\ next.track = scan[t].track
      BY <1>1, <3>1 DEF Scan, Stage
    <3> QED BY <1>1, <3>2 DEF Placed, Before, Adding, Taking
  <2> QED BY <2>1, <2>2
<1>4. /\ scan' = [scan EXCEPT ![t] = next] /\ up
      /\ UNCHANGED <<disk, mounted, songs, albums, migrated, up, running, changes, torn, sound>>
      /\ requests' \in 0..MaxScans
  BY <1>1, <1>2 DEF Check, Go, outside, database, counters, Lifecycle, TypeOK
<1> QED BY <1>1, <1>3, <1>4, WaitKeeps DEF Before

\* A scan begins: alone, it is to be trusted with what the database then is; beside
\* others none is.
LEMMA MarkKeeps == ASSUME IInv, NEW t \in Scanner, Mark(t) PROVE IInv'
<1>1. TypeOK /\ Lifecycle /\ Alone /\ scan[t] \in Scan /\ Placed(scan[t]) /\ scan[t].at = "Mark"
  BY DEF IInv, Mark, TypeOK
<1>2. /\ running' = TRUE /\ torn' = (torn \/ Scanning # {}) /\ sound' = (sound /\ Scanning = {})
      /\ UNCHANGED <<disk, mounted, songs, albums, migrated, up, requests, changes>>
  BY DEF Mark, outside, database, counters
<1>3. PICK at \in {"DropSongs", "Walk"} :
        /\ scan[t].full => at = "DropSongs"
        /\ scan' = IF Scanning = {} THEN [scan EXCEPT ![t].at = at, ![t].clean = TRUE]
                   ELSE [Disturbed EXCEPT ![t].at = at]
  BY DEF Mark
<1>4. scan[t].found = {} /\ scan[t].track = 1 /\ t \notin Scanning
  BY <1>1 DEF Placed, Adding, Scanning
<1>5. up /\ migrated
  BY <1>1 DEF Lifecycle
<1>6. Lifecycle'
  BY <1>2, <1>5 DEF Lifecycle
<1>7. CASE Scanning = {}
  <2>1. PICK next : next = [scan[t] EXCEPT !.at = at, !.clean = TRUE]
    OBVIOUS
  <2>2. /\ next \in Scan /\ next.at = at /\ next.clean = TRUE /\ next.found = {} /\ next.track = 1
        /\ next.full = scan[t].full
    BY <1>1, <1>4, <2>1 DEF Scan, Stage
  <2>3. scan' = [scan EXCEPT ![t] = next]
    BY <1>1, <1>3, <1>7, <2>1 DEF TypeOK
  <2>4. /\ scan' \in [Scanner -> Scan] /\ scan'[t] = next
        /\ \A u \in Scanner \ {t} : scan'[u] = scan[u]
    BY <1>1, <2>2, <2>3 DEF TypeOK
  <2>5. Scanning' = {t}
    BY <1>3, <1>7, <2>2, <2>4 DEF Scanning
  <2>6. torn' = torn /\ sound' = sound
    BY <1>1, <1>2, <1>7 DEF TypeOK
  <2>7. TypeOK'
    BY <1>1, <1>2, <2>4, <2>6 DEF TypeOK
  <2>8. Placed(next)
    BY <1>3, <2>2 DEF Placed, Adding, Taking, Before
  <2>9. \A u \in Scanner : Placed(scan'[u])
    BY <2>4, <2>8 DEF IInv
  <2>10. Fit(Idle)
    BY <1>7 DEF IInv
  <2>11. Fit(next)
    <3>1. Held(next) /\ Surveyed(next)
      BY <1>3, <2>2 DEF Held, Surveyed, Adding, Taking, Later
    <3>2. ~torn => Named(next)
      BY <1>3, <2>2, <2>10 DEF Fit, Named
    <3>3. Firm(next) => Filed(next) \/ (at = "Walk" /\ next.full)
      BY <1>3, <2>2, <2>10, IdleFits DEF Fit, Firm, Filed, InHand, Adding, Idle
    <3>4. at = "Walk" => ~next.full
      BY <1>3, <2>2
    <3>5. at \notin {"Compare", "DropAlbums"} \cup Later
      BY <1>3 DEF Later, Adding, Taking
    <3>6. next.full => Rebuilt(next)
      BY <2>2, <3>4, <3>5 DEF Rebuilt
    <3>7. Firm(next) /\ at # "DropAlbums" => Filed(next)
      <4>1. CASE at = "Walk"
        BY <3>3, <3>4, <4>1
      <4>2. CASE at # "Walk"
        BY <3>3, <4>2
      <4> QED BY <4>1, <4>2
    <3> QED BY <2>2, <3>1, <3>2, <3>6, <3>7 DEF Fit
  <2>12. Fit(next)'
    BY <1>2, <2>6, <2>11, SameFits
  <2> QED BY <1>6, <2>4, <2>5, <2>7, <2>9, <2>12 DEF IInv, Alone
<1>8. CASE Scanning # {}
  <2>1. torn' = TRUE /\ sound' = FALSE
    BY <1>2, <1>8
  <2>2. ASSUME NEW u \in Scanner
        PROVE  /\ scan'[u] \in Scan /\ ~scan'[u].clean /\ Placed(scan'[u])
               /\ scan'[u].at = (IF u = t THEN at ELSE scan[u].at)
    <3>1. PICK r : r = [scan[u] EXCEPT !.clean = FALSE]
      OBVIOUS
    <3>2. r \in Scan /\ r.at = scan[u].at /\ ~r.clean /\ Placed(r)
      BY <1>1, <3>1, DisturbedFacts DEF IInv, TypeOK
    <3>3. CASE u # t
      BY <1>3, <1>8, <3>1, <3>2, <3>3 DEF Disturbed
    <3>4. CASE u = t
      <4>1. PICK next : next = [r EXCEPT !.at = at]
        OBVIOUS
      <4>2. scan'[t] = next
        BY <1>3, <1>8, <3>1, <3>4, <4>1 DEF Disturbed
      <4>3. r.found = {} /\ r.track = 1
        BY <1>1, <1>4, <3>1, <3>4 DEF Scan
      <4>4. /\ next \in Scan /\ next.at = at /\ next.clean = r.clean /\ next.found = {}
            /\ next.track = 1
        BY <1>3, <3>2, <4>1, <4>3 DEF Scan, Stage
      <4>5. Placed(next)
        BY <1>3, <3>2, <4>4 DEF Placed, Adding, Taking, Before
      <4> QED BY <3>2, <3>4, <4>2, <4>4, <4>5
    <3> QED BY <3>3, <3>4
  <2>3. scan' \in [Scanner -> Scan]
    BY <1>3, <1>8, <2>2 DEF Disturbed
  <2>4. TypeOK'
    BY <1>1, <1>2, <2>1, <2>3 DEF TypeOK
  <2>5. Scanning' # {}
    BY <1>3, <2>2 DEF Scanning
  <2>6. Scanning' \subseteq Scanner
    BY DEF Scanning
  <2>7. Alone'
    BY <2>1, <2>2, <2>6 DEF Alone, Trusted
  <2>8. ASSUME NEW u \in Scanning' PROVE Fit(scan[u])'
    BY <2>1, <2>2, <2>6 DEF Fit, Trusted, Firm
  <2> QED BY <1>6, <2>2, <2>4, <2>5, <2>7, <2>8 DEF IInv
<1> QED BY <1>7, <1>8

\* A scan ends: with it the last, or one among several that were not to be trusted.
LEMMA FinishKeeps == ASSUME IInv, NEW t \in Scanner, Finish(t) PROVE IInv'
<1>1. /\ TypeOK /\ Lifecycle /\ Alone /\ scan[t] \in Scan /\ Placed(scan[t]) /\ scan[t].at = "Add"
      /\ scan[t].found = {} /\ (scan[t].full \/ scan[t].gone = {})
  BY DEF IInv, Finish, Finished, TypeOK
<1>2. /\ running' = FALSE /\ sound' = (sound \/ (scan[t].full /\ scan[t].clean))
      /\ scan' = [scan EXCEPT ![t] = Idle]
      /\ UNCHANGED <<disk, mounted, songs, albums, migrated, up, requests, changes, torn>>
  BY DEF Finish, Go, outside, database, counters
<1>3. /\ scan' \in [Scanner -> Scan] /\ scan'[t] = Idle
      /\ \A u \in Scanner \ {t} : scan'[u] = scan[u]
  BY <1>1, <1>2, IdleFits DEF TypeOK
<1>4. t \in Scanning /\ Fit(scan[t]) /\ Scanning' = Scanning \ {t} /\ Scanning \subseteq Scanner
  <2>1. t \in Scanning
    BY <1>1 DEF Scanning
  <2>2. Idle.at = "Idle"
    BY DEF Idle
  <2> QED BY <1>3, <2>1, <2>2 DEF Scanning, IInv
<1>5. TypeOK'
  BY <1>1, <1>2, <1>3 DEF TypeOK, Scan
<1>6. Lifecycle'
  <2>1. up /\ migrated
    BY <1>1 DEF Lifecycle
  <2> QED BY <1>2, <2>1 DEF Lifecycle
<1>7. \A u \in Scanner : Placed(scan'[u])
  BY <1>3, IdleFits DEF IInv
<1>8. ASSUME NEW u \in Scanning' PROVE Fit(scan[u])' /\ ~Trusted(scan[u])' /\ u \in Scanning
  <2>1. u \in Scanning /\ u # t /\ scan'[u] = scan[u]
    BY <1>3, <1>4
  <2>2. ~sound /\ torn /\ ~scan[u].clean /\ ~scan[t].clean
    BY <1>1, <1>4, <2>1 DEF Alone, Trusted
  <2>3. ~sound' /\ torn'
    BY <1>2, <2>2
  <2> QED BY <2>1, <2>2, <2>3 DEF Fit, Trusted, Firm
<1>9. Alone'
  BY <1>8 DEF Alone
<1>10. Fit(Idle)'
  <2>1. ~torn' => Named(Idle)'
    <3>1. \A a \in Album : ~torn => \A k \in albums[a] : songs[k] = a
      BY <1>4 DEF Fit, Named
    <3> QED BY <1>2, <3>1 DEF Named, Idle
  <2>2. Firm(Idle)' => Firm(scan[t])
    BY <1>1, <1>2 DEF Firm, Idle, Lifecycle
  <2>3. Firm(scan[t]) => Filed(Idle)'
    <3>1. InHand(scan[t]) = {}
      BY <1>1 DEF InHand, Adding
    <3> QED BY <1>1, <1>2, <1>4, <3>1, IdleFits DEF Fit, Filed
  <2> QED BY <2>1, <2>2, <2>3 DEF Fit, Held, Idle, Adding
<1> QED BY <1>5, <1>6, <1>7, <1>8, <1>9, <1>10 DEF IInv

-----------------------------------------------------------------------------
(* The steps of a scan.                                                    *)

\* What is known of the scan that takes a step.
LEMMA ScanFacts ==
  ASSUME IInv, NEW t \in Scanner, scan[t].at \notin Before
  PROVE  /\ TypeOK /\ t \in Scanning /\ scan[t] \in Scan /\ Placed(scan[t]) /\ Fit(scan[t])
BY DEF IInv, TypeOK, Scanning, Before

\* A step that writes nothing: it fits if it fits what is there.
LEMMA ReadingKeeps ==
  ASSUME IInv, NEW t \in Scanner, scan[t].at \notin Before,
         NEW next \in Scan, next.at \notin Before, next.clean = scan[t].clean,
         Go(t, next), Placed(next), Fit(next),
         UNCHANGED <<disk, mounted, songs, albums, migrated, up, running, requests, changes,
                     torn, sound>>
  PROVE  IInv'
<1>1. TypeOK /\ t \in Scanning
  BY ScanFacts
<1>2. Fit(next)'
  BY SameFits
<1> QED BY <1>1, <1>2, ThreadKeeps DEF Go, TypeOK

LEMMA DropSongsKeeps == ASSUME IInv, NEW t \in Scanner, DropSongs(t) PROVE IInv'
<1>1. PICK s : s = scan[t]
  OBVIOUS
<1>2. TypeOK /\ t \in Scanning /\ s \in Scan /\ Placed(s) /\ s.at = "DropSongs"
  BY <1>1, ScanFacts DEF DropSongs, Before
<1>3. PICK next : next = [s EXCEPT !.at = "DropAlbums"]
  OBVIOUS
<1>4. /\ next \in Scan /\ next.at = "DropAlbums" /\ next.clean = s.clean /\ next.found = s.found
      /\ next.track = s.track
  BY <1>2, <1>3 DEF Scan, Stage
<1>5. /\ scan' = [scan EXCEPT ![t] = next] /\ torn' = TRUE
      /\ UNCHANGED <<disk, mounted, albums, up, migrated, running, sound, requests, changes>>
      /\ songs' \in [Keys -> Album \cup {"Untagged", "None"}]
      /\ Known' = {}
  BY <1>1, <1>3 DEF DropSongs, Go, outside, counters, Known
<1>6. next.found = {}
  BY <1>2, <1>4 DEF Placed, Adding
<1>7. Placed(next)
  BY <1>2, <1>4, <1>6 DEF Placed, Adding, Taking, Before
<1>8. Held(next)' /\ Surveyed(next)' /\ Rebuilt(next)'
  BY <1>4, <1>5, <1>6 DEF Held, Surveyed, Rebuilt, Adding, Taking, Later
<1>9. Fit(next)'
  BY <1>4, <1>5, <1>8 DEF Fit
<1> QED BY <1>1, <1>2, <1>4, <1>5, <1>7, <1>9, ThreadKeeps DEF Before, TypeOK

LEMMA DropAlbumsKeeps == ASSUME IInv, NEW t \in Scanner, DropAlbums(t) PROVE IInv'
<1>1. PICK s : s = scan[t]
  OBVIOUS
<1>2. TypeOK /\ t \in Scanning /\ s \in Scan /\ Placed(s) /\ s.at = "DropAlbums" /\ Fit(s)
  BY <1>1, ScanFacts DEF DropAlbums, Before
<1>3. PICK next : next = [s EXCEPT !.at = "Walk"]
  OBVIOUS
<1>4. /\ next \in Scan /\ next.at = "Walk" /\ next.clean = s.clean /\ next.found = s.found
      /\ next.track = s.track /\ next.full = s.full
  BY <1>2, <1>3 DEF Scan, Stage
<1>5. /\ scan' = [scan EXCEPT ![t] = next] /\ torn' = ~(Scanning = {t})
      /\ UNCHANGED <<disk, mounted, songs, up, migrated, running, sound, requests, changes>>
      /\ albums' \in [Album -> SUBSET Keys] /\ \A a \in Album : albums'[a] = {}
  BY <1>1, <1>3 DEF DropAlbums, Go, outside, counters
<1>6. next.found = {}
  BY <1>2, <1>4 DEF Placed, Adding
<1>7. Placed(next)
  BY <1>2, <1>4, <1>6 DEF Placed, Adding, Taking, Before
<1>8. Held(next)' /\ Surveyed(next)' /\ Named(next)'
  BY <1>4, <1>5, <1>6 DEF Held, Surveyed, Named, Adding, Taking, Later
<1>9. s.clean /\ s.full => Rebuilt(next)'
  <2>1. s.clean /\ s.full => Known' = {}
    BY <1>2, <1>5 DEF Fit, Rebuilt, Known
  <2> QED BY <1>4, <2>1 DEF Rebuilt, Adding, Taking, Later
<1>10. Firm(next)' => Filed(next)'
  <2> SUFFICES ASSUME Firm(next)' PROVE Filed(next)'
    OBVIOUS
  <2>1. sound \/ s.clean
    BY <1>4, <1>5 DEF Firm
  <2>2. Known = {}
    BY <1>2, <2>1 DEF Fit, Trusted, Held
  <2>3. \A k \in Keys : songs'[k] = "None"
    BY <1>5, <2>2 DEF Known
  <2> QED BY <1>5, <2>3, TagFacts DEF Filed
<1>11. Fit(next)'
  BY <1>4, <1>8, <1>9, <1>10 DEF Fit
<1> QED BY <1>1, <1>2, <1>4, <1>5, <1>7, <1>11, ThreadKeeps DEF Before, TypeOK

LEMMA WalkKeeps == ASSUME IInv, NEW t \in Scanner, Walk(t) PROVE IInv'
<1>1. PICK s : s = scan[t]
  OBVIOUS
<1>2. TypeOK /\ s \in Scan /\ Placed(s) /\ s.at = "Walk" /\ Fit(s)
  BY <1>1, ScanFacts DEF Walk, Before
<1>3. PICK next : next = [s EXCEPT !.at = "Compare", !.found = NewFiles, !.kept = Unchanged]
  OBVIOUS
<1>4. NewFiles \subseteq Files /\ Unchanged \subseteq Keys
  BY DEF NewFiles, Walked, Unchanged, KnownOf, Known
<1>5. /\ next \in Scan /\ next.at = "Compare" /\ next.clean = s.clean /\ next.found = NewFiles
      /\ next.track = s.track /\ next.full = s.full /\ next.kept = Unchanged
  BY <1>2, <1>3, <1>4 DEF Scan, Stage
<1>6. s.track = 1
  BY <1>2 DEF Placed, Adding
<1>7. Placed(next)
  <2>1. next.found # {} => Len(Path[Reading(next)].keys) \in Nat \ {0}
    BY <1>5, ReadingFacts, KeyFacts
  <2> QED BY <1>2, <1>5, <1>6, <2>1 DEF Placed, Adding, Taking, Before
<1>8. \A p \in next.found : Present(p) /\ KnownOf(p) = {}
  BY <1>5 DEF NewFiles, Walked, Unknown
<1>9. Held(next)
  <2>1. \A p \in next.found : \A k \in KeysOf(p) : songs[k] = "None"
    BY <1>4, <1>5, <1>8, KnownFacts
  <2> QED BY <1>5, <2>1, TagFacts DEF Held, Adding
<1>10. (Named(s) => Named(next)) /\ (Filed(s) => Filed(next)) /\ (Firm(next) => Firm(s))
  BY <1>2, <1>5 DEF Named, Filed, InHand, Firm, Adding
<1>11. Surveyed(next)
  <2>1. \A p \in Files : Readable(p) => p \in next.found \/ KnownOf(p) # {}
    BY <1>2, <1>5, PresentFacts DEF NewFiles, Walked, Unknown
  <2>2. \A k \in Keys : k \in next.kept <=> \E p \in Walked : k \in KnownOf(p)
    BY <1>5 DEF Unchanged
  <2> QED BY <1>5, <1>8, <2>1, <2>2 DEF Surveyed
<1>12. s.clean /\ s.full => Rebuilt(next)
  <2> SUFFICES ASSUME s.clean, s.full PROVE Rebuilt(next)
    OBVIOUS
  <2>1. Known = {}
    BY <1>2 DEF Fit, Rebuilt
  <2>2. \A p \in Files : KnownOf(p) = {} /\ \A k \in KeysOf(p) : songs[k] = "None"
    BY <2>1, KeyFacts DEF KnownOf, Known
  <2>3. \A p \in Files \ next.found : ~Readable(p)
    BY <1>2, <1>5, <2>2, PresentFacts DEF NewFiles, Walked, Unknown
  <2> QED BY <1>5, <1>6, <2>1, <2>2, <2>3, <1>8 DEF Rebuilt, Adding
<1>13. Fit(next)
  BY <1>2, <1>5, <1>9, <1>10, <1>11, <1>12 DEF Fit
<1> QED BY <1>1, <1>2, <1>3, <1>5, <1>7, <1>13, ReadingKeeps
        DEF Walk, Before, outside, database, counters

LEMMA CompareKeeps == ASSUME IInv, NEW t \in Scanner, Compare(t) PROVE IInv'
<1>1. PICK s : s = scan[t]
  OBVIOUS
<1>2. TypeOK /\ s \in Scan /\ Placed(s) /\ s.at = "Compare" /\ Fit(s)
  BY <1>1, ScanFacts DEF Compare, Before
<1>3. PICK next : next = [s EXCEPT !.at = "Add", !.gone = Known \ s.kept, !.kept = {}]
  OBVIOUS
<1>4. /\ next \in Scan /\ next.at = "Add" /\ next.clean = s.clean /\ next.found = s.found
      /\ next.track = s.track /\ next.full = s.full /\ next.gone = Known \ s.kept
  BY <1>2, <1>3 DEF Scan, Stage, Known
<1>5. Placed(next)
  BY <1>2, <1>4 DEF Placed, Reading, Adding, Taking, Before
<1>6. /\ Held(s) => Held(next)
      /\ Named(s) => Named(next)
      /\ Filed(s) => Filed(next)
      /\ Firm(next) => Firm(s)
      /\ Rebuilt(s) => Rebuilt(next)
  BY <1>2, <1>4 DEF Held, Named, Filed, InHand, Firm, Rebuilt, Reading, Adding, Taking, Later
<1>7. Surveyed(s) => Surveyed(next)
  <2> SUFFICES ASSUME Surveyed(s) PROVE Surveyed(next)
    OBVIOUS
  <2>1. \A k \in Keys : k \in s.kept <=> \E p \in Walked : k \in KnownOf(p)
    BY <1>2 DEF Surveyed
  <2>2. ASSUME NEW p \in Files, Present(p) PROVE KeysOf(p) \cap next.gone = {}
    BY <1>4, <2>1, <2>2, KeyFacts, KnownFacts DEF Walked, Known
  <2>3. ASSUME NEW p \in Files, ~Present(p) PROVE KnownOf(p) \subseteq next.gone
    <3> SUFFICES ASSUME NEW k \in KnownOf(p) PROVE k \in Known /\ k \notin s.kept
      BY <1>4
    <3>1. k \in KeysOf(p) /\ k \in Keys /\ k \in Known
      BY KnownFacts, KeyFacts DEF KnownOf
    <3>2. ASSUME NEW q \in Walked PROVE k \notin KnownOf(q)
      BY <2>3, <3>1, KnownFacts, KeyFacts DEF Walked
    <3> QED BY <2>1, <3>1, <3>2
  <2> QED BY <1>2, <1>4, <2>2, <2>3 DEF Surveyed, Adding, Taking, Later
<1>8. Fit(next)
  BY <1>2, <1>4, <1>6, <1>7 DEF Fit, Trusted
<1> QED BY <1>1, <1>2, <1>3, <1>4, <1>5, <1>8, ReadingKeeps
        DEF Compare, Before, outside, database, counters

\* The scan that is done with a file.
Past(s, r) ==
  /\ r \in Scan /\ r.at = "Add" /\ r.track = 1 /\ r.found = s.found \ {Reading(s)}
  /\ r.gone = s.gone /\ r.full = s.full /\ r.clean = s.clean

LEMMA PastFacts ==
  ASSUME NEW s \in Scan, NEW r, Past(s, r), s.found # {}, Placed(s)
  PROVE  /\ Placed(r) /\ r \in Scan /\ Reading(s) \in s.found /\ Reading(s) \in Files
<1>1. r.found # {} => Len(Path[Reading(r)].keys) \in Nat \ {0}
  BY ReadingFacts, KeyFacts DEF Past
<1>2. Placed(r)
  BY <1>1 DEF Past, Placed, Adding, Taking, Before
<1> QED BY <1>2, ReadingFacts DEF Past, Placed

LEMMA SkipKeeps == ASSUME IInv, NEW t \in Scanner, Skip(t) PROVE IInv'
<1>1. PICK s : s = scan[t]
  OBVIOUS
<1>2. /\ TypeOK /\ s \in Scan /\ Placed(s) /\ s.at = "Add" /\ Fit(s)
      /\ s.found # {} /\ s.track = 1 /\ ~Readable(Reading(s))
  BY <1>1, ScanFacts DEF Skip, Before, File, Reading
<1>3. PICK next : next = [s EXCEPT !.found = @ \ {Reading(s)}]
  OBVIOUS
<1>4. Past(s, next)
  BY <1>2, <1>3 DEF Past, Scan
<1>5. next.at = "Add" /\ next.clean = s.clean /\ next.full = s.full /\ next.track = 1
      /\ next.gone = s.gone /\ next.found = s.found \ {Reading(s)}
  BY <1>4 DEF Past
<1>6. /\ Held(s) => Held(next)
      /\ Named(s) => Named(next)
      /\ Filed(s) => Filed(next)
      /\ Firm(next) => Firm(s)
      /\ Surveyed(s) => Surveyed(next)
  BY <1>2, <1>5 DEF Held, Named, Filed, InHand, Firm, Surveyed, Adding, Taking, Later
<1>7. Rebuilt(s) => Rebuilt(next)
  <2> SUFFICES ASSUME Rebuilt(s) PROVE Rebuilt(next)
    OBVIOUS
  <2>1. \A p \in s.found : KnownOf(p) # {} => p = Reading(s) /\ FALSE
    BY <1>2 DEF Rebuilt, Adding, Later
  <2>2. Reading(s) \in Files /\ Reading(s) \in s.found
    BY <1>2, ReadingFacts
  <2>3. \A k \in KeysOf(Reading(s)) : songs[k] = "None"
    BY <2>1, <2>2, KnownFacts
  <2>4. \A p \in Files \ s.found : \A k \in KeysOf(p) :
          songs[k] = IF Readable(p) THEN disk[p] ELSE "None"
    BY <1>2 DEF Rebuilt, Later
  <2>5. \A p \in Files \ next.found : \A k \in KeysOf(p) :
          songs[k] = IF Readable(p) THEN disk[p] ELSE "None"
    BY <1>2, <1>5, <2>3, <2>4
  <2> QED BY <1>5, <2>1, <2>5 DEF Rebuilt, Adding, Later
<1>8. Fit(next)
  BY <1>2, <1>5, <1>6, <1>7 DEF Fit, Trusted
<1>9. Go(t, next)
  BY <1>1, <1>3 DEF Skip, File, Reading
<1> QED BY <1>1, <1>2, <1>4, <1>5, <1>8, <1>9, PastFacts, ReadingKeeps
        DEF Skip, Before, outside, database, counters

LEMMA AddReadKeeps == ASSUME IInv, NEW t \in Scanner, AddRead(t) PROVE IInv'
<1>1. PICK s : s = scan[t]
  OBVIOUS
<1>2. TypeOK /\ s \in Scan /\ Placed(s) /\ s.at = "AddRead" /\ Fit(s) /\ s.tag \in Album
  BY <1>1, ScanFacts DEF AddRead, Before, Placed, Adding
<1>3. PICK next : next = [s EXCEPT !.at = "AddWrite", !.read = albums[s.tag]]
  OBVIOUS
<1>4. albums[s.tag] \in SUBSET Keys
  BY <1>2 DEF TypeOK
<1>5. /\ next \in Scan /\ next.at = "AddWrite" /\ next.clean = s.clean /\ next.full = s.full
      /\ next.found = s.found /\ next.track = s.track /\ next.gone = s.gone
      /\ next.key = s.key /\ next.tag = s.tag /\ next.read = albums[s.tag]
  BY <1>2, <1>3, <1>4 DEF Scan, Stage
<1>6. Placed(next)
  BY <1>2, <1>5 DEF Placed, Reading, Adding, Taking, Before
<1>7. /\ Held(s) => Held(next)
      /\ Named(s) => Named(next)
      /\ Filed(s) => Filed(next)
      /\ Firm(next) => Firm(s)
  BY <1>2, <1>5 DEF Held, Named, Filed, InHand, Firm, Adding
<1>8. /\ Surveyed(s) => Surveyed(next)
      /\ Rebuilt(s) => Rebuilt(next)
  BY <1>2, <1>5 DEF Surveyed, Rebuilt, Reading, Adding, Taking, Later
<1>9. Fit(next)
  BY <1>2, <1>5, <1>7, <1>8 DEF Fit, Trusted
<1>10. Go(t, next)
  BY <1>1, <1>3 DEF AddRead
<1> QED BY <1>1, <1>2, <1>5, <1>6, <1>9, <1>10, ReadingKeeps
        DEF AddRead, Before, outside, database, counters

LEMMA TakeOffKeeps == ASSUME IInv, NEW t \in Scanner, TakeOff(t) PROVE IInv'
<1>1. PICK s : s = scan[t]
  OBVIOUS
<1>2. /\ TypeOK /\ s \in Scan /\ Placed(s) /\ s.at = "Add" /\ Fit(s) /\ s.found = {} /\ ~s.full
      /\ s.track = 1
  BY <1>1, ScanFacts DEF TakeOff, Before, Placed
<1>3. PICK k \in s.gone :
        Go(t, IF songs[k] \in Album
              THEN [s EXCEPT !.at = "RemoveWrite", !.key = k, !.tag = songs[k],
                             !.read = albums[songs[k]]]
              ELSE [s EXCEPT !.at = "Delete", !.key = k])
  BY <1>1 DEF TakeOff
<1>4. k \in Keys
  BY <1>2, <1>3 DEF Scan
<1>5. CASE songs[k] \in Album
  <2>1. PICK next : next = [s EXCEPT !.at = "RemoveWrite", !.key = k, !.tag = songs[k],
                                     !.read = albums[songs[k]]]
    OBVIOUS
  <2>2. /\ next \in Scan /\ next.at = "RemoveWrite" /\ next.clean = s.clean /\ next.full = s.full
        /\ next.found = s.found /\ next.track = s.track /\ next.gone = s.gone
        /\ next.key = k /\ next.tag = songs[k] /\ next.read = albums[songs[k]]
    <3>1. albums[songs[k]] \in SUBSET Keys
      BY <1>2, <1>5 DEF TypeOK
    <3> QED BY <1>2, <1>4, <1>5, <2>1, <3>1 DEF Scan, Stage
  <2>3. Placed(next)
    BY <1>2, <1>3, <1>4, <1>5, <2>2 DEF Placed, Adding, Taking, Before
  <2>4. /\ Held(s) => Held(next)
        /\ Named(s) => Named(next)
        /\ Filed(s) => Filed(next)
        /\ Firm(next) => Firm(s)
        /\ Surveyed(s) => Surveyed(next)
    BY <1>2, <2>2 DEF Held, Named, Filed, InHand, Firm, Surveyed, Adding, Taking, Later
  <2>5. Fit(next)
    BY <1>2, <2>2, <2>4 DEF Fit, Trusted
  <2>6. Go(t, next)
    BY <1>3, <1>5, <2>1
  <2> QED BY <1>1, <1>2, <2>2, <2>3, <2>5, <2>6, ReadingKeeps
          DEF TakeOff, Before, outside, database, counters
<1>6. CASE songs[k] \notin Album
  <2>1. PICK next : next = [s EXCEPT !.at = "Delete", !.key = k]
    OBVIOUS
  <2>2. /\ next \in Scan /\ next.at = "Delete" /\ next.clean = s.clean /\ next.full = s.full
        /\ next.found = s.found /\ next.track = s.track /\ next.gone = s.gone
        /\ next.key = k
    BY <1>2, <1>4, <2>1 DEF Scan, Stage
  <2>3. Placed(next)
    BY <1>2, <1>3, <1>4, <2>2 DEF Placed, Adding, Taking, Before
  <2>4. /\ Held(s) => Held(next)
        /\ Firm(next) => Firm(s)
        /\ Surveyed(s) => Surveyed(next)
    BY <1>2, <2>2 DEF Held, Firm, Surveyed, Adding, Taking, Later
  <2>5. Named(s) => Named(next)
    BY <1>2, <1>6, <2>2 DEF Named
  <2>6. Filed(s) => Filed(next)
    BY <1>2, <1>6, <2>2 DEF Filed, InHand, Adding
  <2>7. Fit(next)
    BY <1>2, <2>2, <2>4, <2>5, <2>6 DEF Fit, Trusted
  <2>8. Go(t, next)
    BY <1>3, <1>6, <2>1
  <2> QED BY <1>1, <1>2, <2>2, <2>3, <2>7, <2>8, ReadingKeeps
          DEF TakeOff, Before, outside, database, counters
<1> QED BY <1>5, <1>6

LEMMA RemoveWriteKeeps == ASSUME IInv, NEW t \in Scanner, RemoveWrite(t) PROVE IInv'
<1>1. PICK s : s = scan[t]
  OBVIOUS
<1>2. /\ TypeOK /\ t \in Scanning /\ s \in Scan /\ Placed(s) /\ s.at = "RemoveWrite" /\ Fit(s)
      /\ s.found = {} /\ s.tag \in Album /\ s.key \in Keys /\ s.key \in s.gone /\ ~s.full
      /\ s.track = 1
  BY <1>1, ScanFacts DEF RemoveWrite, Before, Placed, Adding, Taking
<1>3. PICK next : next = [s EXCEPT !.at = "Delete"]
  OBVIOUS
<1>4. /\ next \in Scan /\ next.at = "Delete" /\ next.clean = s.clean /\ next.full = s.full
      /\ next.found = s.found /\ next.track = s.track /\ next.gone = s.gone
      /\ next.key = s.key
  BY <1>2, <1>3 DEF Scan, Stage
<1>5. /\ scan' = [scan EXCEPT ![t] = next]
      /\ UNCHANGED <<disk, mounted, songs, up, migrated, running, sound, requests, changes, torn>>
      /\ albums' = IF s.read = {} THEN albums
                   ELSE [albums EXCEPT ![s.tag] = s.read \ {s.key}]
  BY <1>1, <1>3 DEF RemoveWrite, Go, outside, counters
<1>6. Placed(next)
  BY <1>2, <1>4 DEF Placed, Adding, Taking, Before
<1>7. albums' \in [Album -> SUBSET Keys]
  BY <1>2, <1>5 DEF TypeOK, Scan
<1>8. Held(next)' /\ (Surveyed(s) => Surveyed(next)') /\ (Firm(next)' => Firm(s))
  BY <1>2, <1>4, <1>5
     DEF Held, Surveyed, Firm, Present, Readable, KnownOf, Known, Adding, Taking, Later
<1>9. Trusted(s) => /\ songs[s.key] = s.tag
                    /\ albums'[s.tag] = albums[s.tag] \ {s.key}
                    /\ \A a \in Album \ {s.tag} : albums'[a] = albums[a]
  <2> SUFFICES ASSUME Trusted(s)
               PROVE  /\ songs[s.key] = s.tag
                      /\ albums'[s.tag] = albums[s.tag] \ {s.key}
                      /\ \A a \in Album \ {s.tag} : albums'[a] = albums[a]
    OBVIOUS
  <2>1. songs[s.key] = s.tag /\ s.read = albums[s.tag]
    BY <1>2 DEF Fit, Held
  <2>2. CASE s.read = {}
    BY <1>5, <2>1, <2>2
  <2>3. CASE s.read # {}
    BY <1>2, <1>5, <2>1, <2>3 DEF TypeOK
  <2> QED BY <2>1, <2>2, <2>3
<1>10. Trusted(s) /\ Named(s) => Named(next)'
  <2> SUFFICES ASSUME Trusted(s), Named(s), NEW a \in Album, NEW k \in albums'[a]
               PROVE  songs[k] = a /\ k # s.key
    BY <1>4, <1>5 DEF Named
  <2>1. CASE a = s.tag
    BY <1>9, <2>1 DEF Named
  <2>2. CASE a # s.tag
    BY <1>9, <2>2 DEF Named
  <2> QED BY <2>1, <2>2
<1>11. Trusted(s) /\ Filed(s) => Filed(next)'
  <2> SUFFICES ASSUME Trusted(s), Filed(s), NEW a \in Album, NEW k \in Keys
               PROVE  k \in albums'[a] <=> songs[k] = a /\ k # s.key
    BY <1>4, <1>5 DEF Filed, InHand, Adding
  <2>1. k \in albums[a] <=> songs[k] = a
    BY <1>2 DEF Filed, InHand, Adding
  <2>2. CASE a = s.tag
    BY <1>9, <2>1, <2>2
  <2>3. CASE a # s.tag
    BY <1>9, <2>1, <2>3
  <2> QED BY <2>2, <2>3
<1>12. Fit(next)'
  <2>1. ~torn' => Named(next)'
    BY <1>2, <1>5, <1>10 DEF Fit, Trusted
  <2>2. Firm(next)' => Filed(next)'
    BY <1>2, <1>8, <1>11 DEF Fit, Trusted, Firm
  <2> QED BY <1>2, <1>4, <1>8, <2>1, <2>2 DEF Fit
<1> QED BY <1>1, <1>2, <1>4, <1>5, <1>6, <1>7, <1>12, ThreadKeeps DEF Before, TypeOK

LEMMA DeleteKeeps == ASSUME IInv, NEW t \in Scanner, Delete(t) PROVE IInv'
<1>1. PICK s : s = scan[t]
  OBVIOUS
<1>2. /\ TypeOK /\ t \in Scanning /\ s \in Scan /\ Placed(s) /\ s.at = "Delete" /\ Fit(s)
      /\ s.found = {} /\ s.key \in Keys /\ s.key \in s.gone /\ ~s.full /\ s.track = 1
  BY <1>1, ScanFacts DEF Delete, Before, Placed, Adding, Taking
<1>3. PICK next : next = [s EXCEPT !.at = "Add", !.gone = @ \ {s.key}, !.key = "None",
                                   !.tag = "None", !.read = {}]
  OBVIOUS
<1>4. /\ next \in Scan /\ next.at = "Add" /\ next.clean = s.clean /\ next.full = s.full
      /\ next.found = s.found /\ next.track = s.track /\ next.gone = s.gone \ {s.key}
  BY <1>2, <1>3 DEF Scan, Stage
<1>5. /\ scan' = [scan EXCEPT ![t] = next]
      /\ UNCHANGED <<disk, mounted, albums, up, migrated, running, sound, requests, changes, torn>>
      /\ songs' = [songs EXCEPT ![s.key] = "None"]
  BY <1>1, <1>3 DEF Delete, Go, outside, counters
<1>6. Placed(next)
  BY <1>2, <1>4 DEF Placed, Adding, Taking, Before
<1>7. /\ songs' \in [Keys -> Album \cup {"Untagged", "None"}]
      /\ songs'[s.key] = "None" /\ \A k \in Keys \ {s.key} : songs'[k] = songs[k]
  BY <1>2, <1>5 DEF TypeOK
<1>8. Held(next)' /\ (Firm(next)' => Firm(s))
  BY <1>2, <1>4, <1>5 DEF Held, Firm, Adding
<1>9. Named(s) => Named(next)'
  <2> SUFFICES ASSUME Named(s), NEW a \in Album, NEW k \in albums[a] PROVE songs'[k] = a
    BY <1>4, <1>5 DEF Named
  <2>1. songs[k] = a /\ k # s.key /\ k \in Keys
    BY <1>2 DEF Named, TypeOK
  <2> QED BY <1>7, <2>1
<1>10. Filed(s) => Filed(next)'
  <2> SUFFICES ASSUME Filed(s), NEW a \in Album, NEW k \in Keys
               PROVE  k \in albums[a] <=> songs'[k] = a
    BY <1>4, <1>5 DEF Filed, InHand, Adding
  <2>1. k \in albums[a] <=> songs[k] = a /\ k # s.key
    BY <1>2 DEF Filed, InHand
  <2> QED BY <1>7, <2>1, TagFacts
<1>11. Surveyed(s) => Surveyed(next)'
  <2> SUFFICES ASSUME Surveyed(s) PROVE Surveyed(next)'
    OBVIOUS
  <2>1. \A p \in Files : (Present(p)' <=> Present(p)) /\ (Readable(p)' <=> Readable(p))
    BY <1>5 DEF Present, Readable
  <2>2. \A p \in Files : IF Present(p) THEN KeysOf(p) \cap s.gone = {}
                                       ELSE KnownOf(p) \subseteq s.gone
    BY <1>2 DEF Surveyed, Later, Taking
  <2>3. \A p \in Files : Readable(p) => KnownOf(p) # {}
    BY <1>2 DEF Surveyed, Later, Taking
  <2>4. ASSUME NEW p \in Files
        PROVE  \A k : k \in KnownOf(p)' <=> k \in KnownOf(p) /\ k # s.key
    <3> SUFFICES ASSUME NEW k
                 PROVE  k \in KnownOf(p)' <=> k \in KnownOf(p) /\ k # s.key
      OBVIOUS
    <3>1. /\ k \in KnownOf(p) <=> k \in KeysOf(p) /\ k \in Keys /\ songs[k] # "None"
          /\ k \in KnownOf(p)' <=> k \in KeysOf(p) /\ k \in Keys /\ songs'[k] # "None"
      BY DEF KnownOf, Known, KeysOf
    <3> QED BY <1>7, <3>1
  <2>5. ASSUME NEW p \in Files, Readable(p) PROVE KnownOf(p)' # {}
    <3>1. s.key \notin KnownOf(p)
      BY <1>2, <2>2, <2>5, PresentFacts, KnownFacts
    <3> QED BY <2>3, <2>4, <2>5, <3>1
  <2>6. ASSUME NEW p \in Files
        PROVE  IF Present(p) THEN KeysOf(p) \cap next.gone = {} ELSE KnownOf(p)' \subseteq next.gone
    BY <1>4, <2>2, <2>4
  <2> QED BY <1>2, <1>4, <2>1, <2>5, <2>6 DEF Surveyed, Later
<1>12. Fit(next)'
  <2>1. (torn' <=> torn) /\ (Trusted(next)' <=> Trusted(s))
    BY <1>4, <1>5 DEF Trusted
  <2> QED BY <1>2, <1>4, <1>8, <1>9, <1>10, <1>11, <2>1 DEF Fit
<1> QED BY <1>1, <1>2, <1>4, <1>5, <1>6, <1>7, <1>12, ThreadKeeps DEF Before, TypeOK

\* A scan that adds a song to an album is at a file of that song alone.
LEMMA AddingFacts ==
  ASSUME NEW s \in Scan, Placed(s), s.at \in Adding
  PROVE  /\ s.found # {} /\ s.tag \in Album /\ s.track = 1
         /\ Reading(s) \in s.found /\ Reading(s) \in Files
         /\ Len(Path[Reading(s)].keys) = 1 /\ KeysOf(Reading(s)) = {s.key} /\ s.key \in Keys
<1>1. /\ s.found # {} /\ s.tag \in Album /\ s.track = 1
      /\ Path[Reading(s)].keys = <<s.key>>
  BY DEF Placed
<1>2. Reading(s) \in s.found /\ Reading(s) \in Files
  BY <1>1, ReadingFacts
<1>3. Len(<<s.key>>) = 1 /\ Range(<<s.key>>) = {s.key}
  BY DEF Range
<1> QED BY <1>1, <1>2, <1>3, KeyFacts DEF KeysOf

\* The two ways on from a song that is stored.
NextTrack(s) ==
  [s EXCEPT !.at = "Add", !.track = @ + 1, !.key = "None", !.tag = "None", !.read = {}]
NextFile(s, p) ==
  [s EXCEPT !.at = "Add", !.track = 1, !.found = @ \ {p}, !.key = "None", !.tag = "None",
            !.read = {}]

LEMMA NextTrackFacts ==
  ASSUME NEW s \in Scan, NEW r, r = NextTrack(s)
  PROVE  /\ r \in Scan /\ r.at = "Add" /\ r.track = s.track + 1 /\ r.found = s.found
         /\ r.gone = s.gone /\ r.full = s.full /\ r.clean = s.clean
<1>1. s.track + 1 \in Nat \ {0}
  BY DEF Scan
<1>2. PICK q : q = [s EXCEPT !.at = "Add", !.track = @ + 1]
  OBVIOUS
<1>3. /\ q \in Scan /\ q.at = "Add" /\ q.track = s.track + 1 /\ q.found = s.found
      /\ q.gone = s.gone /\ q.full = s.full /\ q.clean = s.clean
  BY <1>1, <1>2 DEF Scan, Stage
<1>4. r = [q EXCEPT !.key = "None", !.tag = "None", !.read = {}]
  BY <1>2 DEF NextTrack
<1> QED BY <1>3, <1>4 DEF Scan

LEMMA NextFileFacts ==
  ASSUME NEW s \in Scan, NEW p, NEW r, r = NextFile(s, p)
  PROVE  /\ r \in Scan /\ r.at = "Add" /\ r.track = 1 /\ r.found = s.found \ {p}
         /\ r.gone = s.gone /\ r.full = s.full /\ r.clean = s.clean
<1>1. s.found \ {p} \in SUBSET Files /\ 1 \in Nat \ {0}
  BY DEF Scan
<1>2. PICK q : q = [s EXCEPT !.at = "Add", !.track = 1, !.found = @ \ {p}]
  OBVIOUS
<1>3. /\ q \in Scan /\ q.at = "Add" /\ q.track = 1 /\ q.found = s.found \ {p}
      /\ q.gone = s.gone /\ q.full = s.full /\ q.clean = s.clean
  BY <1>1, <1>2 DEF Scan, Stage
<1>4. r = [q EXCEPT !.key = "None", !.tag = "None", !.read = {}]
  BY <1>2 DEF NextFile
<1> QED BY <1>3, <1>4 DEF Scan

LEMMA AddWriteKeeps == ASSUME IInv, NEW t \in Scanner, AddWrite(t) PROVE IInv'
<1>1. PICK s : s = scan[t]
  OBVIOUS
<1>2. TypeOK /\ t \in Scanning /\ s \in Scan /\ Placed(s) /\ s.at = "AddWrite" /\ Fit(s)
  BY <1>1, ScanFacts DEF AddWrite, Before
<1>3. PICK p : p = Reading(s)
  OBVIOUS
<1>4. /\ s.found # {} /\ s.tag \in Album /\ s.track = 1 /\ p \in s.found /\ p \in Files
      /\ Len(Path[p].keys) = 1 /\ KeysOf(p) = {s.key} /\ s.key \in Keys
  BY <1>2, <1>3, AddingFacts DEF Adding
<1>5. PICK next : next = Stored(t)
  OBVIOUS
<1>6. next = NextFile(s, p)
  <2>1. File(t) = p
    BY <1>1, <1>3 DEF File, Reading
  <2>2. ~(s.track < Len(Path[p].keys))
    BY <1>4
  <2> QED BY <1>1, <1>5, <2>1, <2>2 DEF Stored, NextFile
<1>7. Past(s, next)
  <2>1. /\ next \in Scan /\ next.at = "Add" /\ next.track = 1 /\ next.found = s.found \ {p}
        /\ next.gone = s.gone /\ next.full = s.full /\ next.clean = s.clean
    BY <1>2, <1>6, NextFileFacts
  <2> QED BY <1>3, <2>1 DEF Past
<1>8. /\ next.at = "Add" /\ next.track = 1 /\ next.found = s.found \ {p}
      /\ next.gone = s.gone /\ next.full = s.full /\ next.clean = s.clean
      /\ next \in Scan /\ Placed(next)
  BY <1>2, <1>3, <1>4, <1>7, PastFacts DEF Past
<1>9. /\ scan' = [scan EXCEPT ![t] = next]
      /\ UNCHANGED <<disk, mounted, songs, up, migrated, running, sound, requests, changes, torn>>
      /\ albums' = [albums EXCEPT ![s.tag] = s.read \cup {s.key}]
  BY <1>1, <1>5 DEF AddWrite, Go, outside, counters
<1>10. albums' \in [Album -> SUBSET Keys]
  <2>1. s.read \cup {s.key} \in SUBSET Keys
    BY <1>2, <1>4 DEF Scan
  <2> QED BY <1>2, <1>9, <2>1 DEF TypeOK
<1>11. Trusted(s) => /\ songs[s.key] = s.tag
                     /\ albums'[s.tag] = albums[s.tag] \cup {s.key}
                     /\ \A a \in Album \ {s.tag} : albums'[a] = albums[a]
  BY <1>2, <1>4, <1>9 DEF Fit, Held, Adding, TypeOK
<1>12. Held(s) => Held(next)'
  <2> SUFFICES ASSUME Held(s), NEW q \in next.found, NEW k \in KeysOf(q), songs[k] \in Album
               PROVE  FALSE
    BY <1>8, <1>9 DEF Held, Adding
  <2>1. q \in s.found /\ q # p /\ q \in Files
    BY <1>2, <1>8 DEF Scan
  <2>2. k = s.key
    BY <2>1 DEF Held
  <2>3. k \in KeysOf(p)
    BY <1>4, <2>2
  <2> QED BY <1>4, <2>1, <2>3, KeyFacts
<1>13. Trusted(s) /\ Named(s) => Named(next)'
  <2> SUFFICES ASSUME Trusted(s), Named(s), NEW a \in Album, NEW k \in albums'[a]
               PROVE  songs[k] = a
    BY <1>8, <1>9 DEF Named
  <2>1. CASE a = s.tag
    BY <1>11, <2>1 DEF Named
  <2>2. CASE a # s.tag
    BY <1>11, <2>2 DEF Named
  <2> QED BY <2>1, <2>2
<1>14. Trusted(s) /\ Filed(s) => Filed(next)'
  <2> SUFFICES ASSUME Trusted(s), Filed(s), NEW a \in Album, NEW k \in Keys
               PROVE  k \in albums'[a] <=> songs[k] = a
    BY <1>8, <1>9 DEF Filed, InHand, Adding
  <2>1. k \in albums[a] <=> songs[k] = a /\ k # s.key
    BY <1>2 DEF Filed, InHand, Adding
  <2>2. CASE a = s.tag
    BY <1>11, <2>1, <2>2
  <2>3. CASE a # s.tag
    BY <1>11, <2>1, <2>3
  <2> QED BY <2>2, <2>3
<1>15. /\ \A q : (Present(q)' <=> Present(q)) /\ (Readable(q)' <=> Readable(q))
       /\ \A q : KnownOf(q)' = KnownOf(q)
  BY <1>9 DEF Present, Readable, KnownOf, Known
<1>16. Trusted(s) => KnownOf(p) # {}
  BY <1>4, <1>11, KnownFacts, TagFacts
<1>17. Trusted(s) /\ Surveyed(s) => Surveyed(next)'
  <2> SUFFICES ASSUME Trusted(s), Surveyed(s) PROVE Surveyed(next)'
    OBVIOUS
  <2>1. /\ \A q \in s.found : Present(q)
        /\ \A q \in Files : Readable(q) => q \in s.found \/ KnownOf(q) # {}
        /\ \A q \in Files : IF Present(q) THEN KeysOf(q) \cap s.gone = {}
                                          ELSE KnownOf(q) \subseteq s.gone
    BY <1>2 DEF Surveyed, Adding, Later
  <2>2. \A q \in Files : Readable(q) => q \in next.found \/ KnownOf(q) # {}
    BY <1>8, <1>16, <2>1
  <2> QED BY <1>8, <1>15, <2>1, <2>2 DEF Surveyed, Later
<1>18. Trusted(s) /\ Rebuilt(s) => Rebuilt(next)'
  <2> SUFFICES ASSUME Trusted(s), Rebuilt(s) PROVE Rebuilt(next)'
    OBVIOUS
  <2>1. /\ \A q \in Files \ s.found : \A k \in KeysOf(q) :
             songs[k] = IF Readable(q) THEN disk[q] ELSE "None"
        /\ \A q \in s.found : KnownOf(q) # {} => q = p
        /\ Readable(p) /\ s.tag = disk[p]
    BY <1>2, <1>3 DEF Rebuilt, Adding, Later
  <2>2. \A k \in KeysOf(p) : songs[k] = IF Readable(p) THEN disk[p] ELSE "None"
    BY <1>4, <1>11, <2>1
  <2>3. \A q \in Files \ next.found : \A k \in KeysOf(q) :
          songs[k] = IF Readable(q) THEN disk[q] ELSE "None"
    BY <1>8, <2>1, <2>2
  <2>4. \A q \in next.found : KnownOf(q) = {}
    BY <1>8, <2>1
  <2> QED BY <1>8, <1>9, <1>15, <2>3, <2>4 DEF Rebuilt, Adding
<1>19. Fit(next)'
  <2>1. /\ Trusted(next)' => Trusted(s)
        /\ ~torn' => ~torn /\ Trusted(s)
        /\ Firm(next)' => Firm(s) /\ Trusted(s)
        /\ s.clean => Trusted(s)
    BY <1>2, <1>8, <1>9 DEF Trusted, Firm
  <2> QED BY <1>2, <1>8, <1>12, <1>13, <1>14, <1>17, <1>18, <2>1 DEF Fit
<1> QED BY <1>1, <1>2, <1>8, <1>9, <1>10, <1>19, ThreadKeeps DEF Before, TypeOK

\* What a scan saves, and in which state that leaves it.
LEMMA SaveFacts ==
  ASSUME IInv, NEW t \in Scanner, SaveSong(t), NEW s, s = scan[t], NEW p, p = Reading(s)
  PROVE  /\ s.found # {} /\ s.at = "Add" /\ p \in s.found /\ p \in Files
         /\ s.track \in 1..Len(Path[p].keys)
         /\ s.track > 1 \/ Readable(p)
         /\ Path[p].keys[s.track] \in KeysOf(p) /\ Path[p].keys[s.track] \in Keys
<1>1. TypeOK /\ s \in Scan /\ Placed(s) /\ s.at = "Add" /\ s.found # {}
  BY ScanFacts DEF SaveSong, Before
<1>2. p \in s.found /\ p \in Files
  BY <1>1, ReadingFacts
<1>3. s.track \in 1..Len(Path[p].keys)
  <2>1. s.track \in Nat \ {0} /\ s.track <= Len(Path[p].keys) /\ Len(Path[p].keys) \in Nat
    BY <1>1, <1>2, KeyFacts DEF Placed, Scan
  <2> QED BY <2>1
<1>4. s.track > 1 \/ Readable(p)
  BY DEF SaveSong, File, Reading
<1> QED BY <1>1, <1>2, <1>3, <1>4, KeyFacts

\* The song is put into the library; what else there is stays.
Saved(s, p, key, tag) ==
  /\ songs' = [songs EXCEPT ![key] = tag]
  /\ UNCHANGED <<disk, mounted, albums, migrated, torn, sound>>
  /\ p = Reading(s) /\ p \in s.found /\ p \in Files /\ s.at = "Add"
  /\ s.track \in 1..Len(Path[p].keys)
  /\ key = Path[p].keys[s.track] /\ key \in KeysOf(p) /\ key \in Keys
  /\ tag \in Album \cup {"Untagged"}
  /\ IF s.track = 1 THEN Readable(p) /\ tag = disk[p] ELSE tag = "Untagged"

LEMMA SavedFacts ==
  ASSUME TypeOK, NEW s, NEW p, NEW key, NEW tag, Saved(s, p, key, tag)
  PROVE  /\ songs' \in [Keys -> Album \cup {"Untagged", "None"}]
         /\ songs'[key] = tag /\ tag # "None"
         /\ \A k \in Keys : k # key => songs'[k] = songs[k]
         /\ \A q \in Files : \A k \in KeysOf(q) : q # p => k # key /\ songs'[k] = songs[k]
         /\ key \in KnownOf(p)' /\ \A q \in Files : q # p => KnownOf(q)' = KnownOf(q)
         /\ \A q : (Present(q)' <=> Present(q)) /\ (Readable(q)' <=> Readable(q))
         /\ tag \in Album => s.track = 1 /\ Path[p].keys = <<key>>
<1>1. /\ songs' \in [Keys -> Album \cup {"Untagged", "None"}]
      /\ songs'[key] = tag /\ \A k \in Keys : k # key => songs'[k] = songs[k]
  BY DEF Saved, TypeOK
<1>2. tag # "None"
  BY TagFacts DEF Saved
<1>3. \A q \in Files : \A k \in KeysOf(q) : q # p => k # key /\ songs'[k] = songs[k]
  BY <1>1, KeyFacts DEF Saved
<1>4. \A q \in Files : \A k : k \in KnownOf(q)' <=> k \in KeysOf(q) /\ songs'[k] # "None"
  BY KeyFacts DEF KnownOf, Known, KeysOf
<1>5. key \in KnownOf(p)'
  BY <1>1, <1>2, <1>4 DEF Saved
<1>6. ASSUME NEW q \in Files, q # p PROVE KnownOf(q)' = KnownOf(q)
  BY <1>3, <1>4, <1>6, KnownFacts
<1>7. \A q : (Present(q)' <=> Present(q)) /\ (Readable(q)' <=> Readable(q))
  BY DEF Saved, Present, Readable
<1>8. ASSUME tag \in Album PROVE s.track = 1 /\ Path[p].keys = <<key>>
  <2>1. s.track = 1 /\ Readable(p) /\ tag = disk[p]
    BY <1>8, TagFacts DEF Saved
  <2>2. tag \in Path[p].tags
    BY <2>1, PresentFacts DEF Saved
  <2>3. Path[p].keys = <<Path[p].keys[1]>>
    BY <1>8, <2>2, TagFacts DEF Saved
  <2> QED BY <2>1, <2>3 DEF Saved
<1> QED BY <1>1, <1>2, <1>3, <1>5, <1>6, <1>7, <1>8

\* A scan after it has saved a song: at the album, at the next track, or past the file.
Onward(s, p, key, tag, r) ==
  /\ r \in Scan /\ r.gone = s.gone /\ r.full = s.full /\ r.clean = s.clean
  /\ \/ /\ tag \in Album /\ r.at = "AddRead" /\ r.found = s.found /\ r.track = s.track
        /\ r.key = key /\ r.tag = tag
     \/ /\ tag = "Untagged" /\ s.track < Len(Path[p].keys)
        /\ r.at = "Add" /\ r.found = s.found /\ r.track = s.track + 1
     \/ /\ tag = "Untagged" /\ s.track = Len(Path[p].keys)
        /\ r.at = "Add" /\ r.found = s.found \ {p} /\ r.track = 1

LEMMA OnwardPlaced ==
  ASSUME TypeOK, NEW s \in Scan, Placed(s), NEW p, NEW key, NEW tag, NEW r,
         Saved(s, p, key, tag), Onward(s, p, key, tag, r)
  PROVE  Placed(r)
<1>1. r \in Scan /\ r.clean = s.clean /\ p = Reading(s) /\ s.found # {} /\ p \in Files
      /\ s.track \in 1..Len(Path[p].keys) /\ Len(Path[p].keys) \in Nat
  BY KeyFacts DEF Onward, Saved
<1>2. CASE tag \in Album /\ r.at = "AddRead" /\ r.found = s.found /\ r.track = s.track
           /\ r.key = key /\ r.tag = tag
  <2>1. s.track = 1 /\ Path[p].keys = <<key>>
    BY <1>2, SavedFacts
  <2>2. Reading(r) = p
    BY <1>1, <1>2 DEF Reading
  <2> QED BY <1>1, <1>2, <2>1, <2>2 DEF Placed, Adding, Taking, Before
<1>3. CASE /\ s.track < Len(Path[p].keys)
           /\ r.at = "Add" /\ r.found = s.found /\ r.track = s.track + 1
  <2>1. Reading(r) = p
    BY <1>1, <1>3 DEF Reading
  <2>2. s.track + 1 <= Len(Path[p].keys)
    BY <1>1, <1>3
  <2> QED BY <1>1, <1>3, <2>1, <2>2 DEF Placed, Adding, Taking, Before
<1>4. CASE r.at = "Add" /\ r.found = s.found \ {p} /\ r.track = 1
  <2>1. Past(s, r)
    BY <1>1, <1>4 DEF Past, Onward
  <2> QED BY <1>1, <2>1, PastFacts
<1> QED BY <1>2, <1>3, <1>4 DEF Onward

\* The files that are left to a scan after it has saved a song.
LEMMA OnwardFacts ==
  ASSUME TypeOK, NEW s \in Scan, Placed(s), NEW p, NEW key, NEW tag, NEW r,
         Saved(s, p, key, tag), Onward(s, p, key, tag, r)
  PROVE  /\ r.at \in {"Add", "AddRead"} /\ r.found \subseteq s.found
         /\ \A q \in s.found \ r.found : q = p
         /\ p \in r.found => Reading(r) = p
         /\ p \notin r.found => r.at = "Add" /\ s.track = Len(Path[p].keys)
         /\ r.at = "AddRead" => r.key = key /\ r.tag = tag /\ tag \in Album /\ r.track = 1
         /\ r.at = "Add" => tag = "Untagged"
         /\ p \in r.found /\ r.at = "Add" => r.track = s.track + 1
         /\ p \notin r.found => r.track = 1
<1>1. p = Reading(s) /\ p \in s.found
  BY DEF Saved
<1>2. tag \in Album => s.track = 1 /\ tag # "Untagged"
  BY SavedFacts, TagFacts
<1> QED BY <1>1, <1>2 DEF Onward, Reading

\* Held, Named and Filed: the song saved was in no album before.
LEMMA SavedKept ==
  ASSUME TypeOK, NEW s \in Scan, Placed(s), NEW p, NEW key, NEW tag, NEW r,
         Saved(s, p, key, tag), Onward(s, p, key, tag, r)
  PROVE  /\ Held(s) => Held(r)'
         /\ Held(s) /\ Named(s) => Named(r)'
         /\ Held(s) /\ Filed(s) => Filed(r)'
<1>1. /\ s.at = "Add" /\ p \in s.found /\ p \in Files /\ key \in KeysOf(p) /\ key \in Keys
      /\ albums' = albums
  BY DEF Saved
<1>2. /\ songs'[key] = tag /\ \A k \in Keys : k # key => songs'[k] = songs[k]
      /\ \A q \in Files : \A k \in KeysOf(q) : q # p => k # key /\ songs'[k] = songs[k]
  BY SavedFacts
<1>3. /\ r.at \in {"Add", "AddRead"} /\ r.found \subseteq s.found
      /\ r.at = "AddRead" => r.key = key /\ r.tag = tag /\ tag \in Album
      /\ r.at = "Add" => tag = "Untagged"
  BY OnwardFacts
<1>4. Held(s) => songs[key] \notin Album /\ \A q \in s.found : \A k \in KeysOf(q) : songs[k] \notin Album
  BY <1>1 DEF Held, Adding
<1>5. ASSUME Held(s) PROVE Held(r)'
  <2>1. ASSUME NEW q \in r.found, NEW k \in KeysOf(q), songs'[k] \in Album
        PROVE  r.at = "AddRead" /\ k = r.key
    <3>1. q \in s.found /\ q \in Files /\ k \in Keys
      BY <1>3, KeyFacts DEF Scan
    <3>2. k = key
      BY <1>2, <1>4, <1>5, <2>1, <3>1
    <3> QED BY <1>2, <1>3, <2>1, <3>2, TagFacts
  <2> QED BY <1>2, <1>3, <2>1 DEF Held, Adding
<1>6. ASSUME Held(s), Named(s) PROVE Named(r)'
  <2> SUFFICES ASSUME NEW a \in Album, NEW k \in albums[a] PROVE songs'[k] = a
    BY <1>1, <1>3 DEF Named
  <2>1. songs[k] = a /\ k \in Keys
    BY <1>6 DEF Named, TypeOK
  <2> QED BY <1>2, <1>4, <1>6, <2>1
<1>7. ASSUME Held(s), Filed(s) PROVE Filed(r)'
  <2> SUFFICES ASSUME NEW a \in Album, NEW k \in Keys
               PROVE  k \in albums[a] <=> songs'[k] = a /\ k \notin InHand(r)
    BY <1>1 DEF Filed
  <2>1. k \in albums[a] <=> songs[k] = a
    BY <1>1, <1>7 DEF Filed, InHand, Adding
  <2>2. CASE k # key
    BY <1>2, <1>3, <2>1, <2>2 DEF InHand, Adding
  <2>3. CASE k = key
    <3>1. k \notin albums[a]
      BY <1>4, <1>7, <2>1, <2>3
    <3>2. ~(songs'[k] = a /\ k \notin InHand(r))
      BY <1>2, <1>3, <2>3, TagFacts DEF InHand, Adding
    <3> QED BY <3>1, <3>2
  <2> QED BY <2>2, <2>3
<1> QED BY <1>5, <1>6, <1>7

LEMMA SavedSurveyed ==
  ASSUME TypeOK, NEW s \in Scan, Placed(s), NEW p, NEW key, NEW tag, NEW r,
         Saved(s, p, key, tag), Onward(s, p, key, tag, r), Surveyed(s)
  PROVE  Surveyed(r)'
<1>1. /\ s.at = "Add" /\ p \in s.found /\ p \in Files /\ r.gone = s.gone
  BY DEF Saved, Onward
<1>2. /\ key \in KnownOf(p)' /\ \A q \in Files : q # p => KnownOf(q)' = KnownOf(q)
      /\ \A q : (Present(q)' <=> Present(q)) /\ (Readable(q)' <=> Readable(q))
  BY SavedFacts
<1>3. /\ r.at \in {"Add", "AddRead"} /\ r.found \subseteq s.found
      /\ \A q \in s.found \ r.found : q = p
  BY OnwardFacts
<1>4. /\ \A q \in s.found : Present(q)
      /\ \A q \in Files : Readable(q) => q \in s.found \/ KnownOf(q) # {}
      /\ \A q \in Files : IF Present(q) THEN KeysOf(q) \cap s.gone = {}
                                        ELSE KnownOf(q) \subseteq s.gone
  BY <1>1 DEF Surveyed, Later
<1>5. \A q \in Files : Readable(q) => q \in r.found \/ KnownOf(q)' # {}
  <2> SUFFICES ASSUME NEW q \in Files, Readable(q), q \notin r.found PROVE KnownOf(q)' # {}
    OBVIOUS
  <2>1. CASE q = p
    BY <1>2, <2>1
  <2>2. CASE q # p
    BY <1>2, <1>3, <1>4, <2>2
  <2> QED BY <2>1, <2>2
<1>6. \A q \in Files : IF Present(q) THEN KeysOf(q) \cap r.gone = {}
                                     ELSE KnownOf(q)' \subseteq r.gone
  BY <1>1, <1>2, <1>4
<1> QED BY <1>2, <1>3, <1>4, <1>5, <1>6 DEF Surveyed

LEMMA SavedRebuilt ==
  ASSUME TypeOK, NEW s \in Scan, Placed(s), NEW p, NEW key, NEW tag, NEW r,
         Saved(s, p, key, tag), Onward(s, p, key, tag, r), Rebuilt(s)
  PROVE  Rebuilt(r)'
<1>1. /\ s.at = "Add" /\ p = Reading(s) /\ p \in s.found /\ p \in Files /\ disk' = disk
      /\ key = Path[p].keys[s.track] /\ s.track \in 1..Len(Path[p].keys)
      /\ key \in KeysOf(p)
  BY DEF Saved
<1>2. /\ key \in KnownOf(p)' /\ \A q \in Files : q # p => KnownOf(q)' = KnownOf(q)
      /\ \A q : (Present(q)' <=> Present(q)) /\ (Readable(q)' <=> Readable(q))
      /\ songs'[key] = tag /\ \A k \in Keys : k # key => songs'[k] = songs[k]
      /\ \A q \in Files : \A k \in KeysOf(q) : q # p => k # key /\ songs'[k] = songs[k]
  BY SavedFacts
<1>3. /\ r.at \in {"Add", "AddRead"} /\ r.found \subseteq s.found
      /\ \A q \in s.found \ r.found : q = p
      /\ p \in r.found => Reading(r) = p
      /\ p \notin r.found => r.at = "Add" /\ s.track = Len(Path[p].keys) /\ r.track = 1
      /\ r.at = "AddRead" => r.tag = tag /\ tag \in Album /\ r.track = 1
      /\ p \in r.found /\ r.at = "Add" => r.track = s.track + 1
  BY OnwardFacts
<1>4. /\ \A q \in Files \ s.found : \A k \in KeysOf(q) :
           songs[k] = IF Readable(q) THEN disk[q] ELSE "None"
      /\ \A q \in s.found : KnownOf(q) # {} => q = p
      /\ s.track > 1 =>
           /\ Readable(p)
           /\ \A j \in 1..s.track - 1 : songs[Path[p].keys[j]] = disk[p]
  BY <1>1 DEF Rebuilt, Adding, Later
<1>5. Readable(p) /\ tag = disk[p]
  <2>1. CASE s.track = 1
    BY <2>1 DEF Saved
  <2>2. CASE s.track # 1
    <3>1. s.track > 1 /\ Len(Path[p].keys) > 1
      BY <1>1, <2>2, KeyFacts
    <3>2. tag = "Untagged" /\ Readable(p)
      BY <1>4, <2>2, <3>1 DEF Saved
    <3>3. Path[p].tags \subseteq {"Untagged", "Broken"}
      BY <1>1, <3>1, LibraryAssumption DEF Files
    <3>4. disk[p] \in Path[p].tags /\ disk[p] # "Broken"
      BY <1>1, <3>2, PresentFacts DEF Readable
    <3> QED BY <3>2, <3>3, <3>4
  <2> QED BY <2>1, <2>2
\* The tracks saved so far, the one saved now among them.
<1>6. \A j \in 1..s.track : songs'[Path[p].keys[j]] = disk[p]
  <2> SUFFICES ASSUME NEW j \in 1..s.track, Path[p].keys[j] # key
               PROVE  songs'[Path[p].keys[j]] = disk[p]
    BY <1>2, <1>5
  <2>1. Path[p].keys[j] \in Keys
    BY <1>1, KeyFacts
  <2>2. j # s.track
    BY <1>1
  <2>3. s.track \in Nat /\ j \in 1..s.track - 1 /\ s.track > 1
    BY <1>1, <2>2
  <2> QED BY <1>2, <1>4, <2>1, <2>3
<1>7. \A q \in Files \ r.found : \A k \in KeysOf(q) :
        songs'[k] = IF Readable(q) THEN disk[q] ELSE "None"
  <2> SUFFICES ASSUME NEW q \in Files \ r.found, NEW k \in KeysOf(q)
               PROVE  songs'[k] = IF Readable(q) THEN disk[q] ELSE "None"
    OBVIOUS
  <2>1. CASE q = p
    <3>1. s.track = Len(Path[p].keys)
      BY <1>3, <2>1
    <3>2. PICK i \in 1..s.track : k = Path[p].keys[i]
      BY <2>1, <3>1, KeyFacts
    <3> QED BY <1>5, <1>6, <2>1, <3>2
  <2>2. CASE q # p
    BY <1>2, <1>3, <1>4, <2>2
  <2> QED BY <2>1, <2>2
<1>8. \A q \in r.found : KnownOf(q)' # {} => q = Reading(r) /\ (r.at \in Adding \/ r.track > 1)
  <2> SUFFICES ASSUME NEW q \in r.found, KnownOf(q)' # {}
               PROVE  q = Reading(r) /\ (r.at \in Adding \/ r.track > 1)
    OBVIOUS
  <2>1. q \in s.found /\ q \in Files
    BY <1>3 DEF Scan
  <2>2. q = p
    BY <1>2, <1>4, <2>1
  <2>3. r.at = "Add" => r.track > 1
    BY <1>1, <1>3, <2>2
  <2> QED BY <1>3, <2>2, <2>3 DEF Adding
<1>9. r.at \in Adding => Readable(Reading(r)) /\ r.tag = disk[Reading(r)]
  BY <1>3, <1>5 DEF Adding
<1>10. r.track > 1 => /\ Readable(Reading(r))
                      /\ \A j \in 1..r.track - 1 : songs'[Path[Reading(r)].keys[j]] = disk[Reading(r)]
  <2> SUFFICES ASSUME r.track > 1
               PROVE  /\ Reading(r) = p /\ r.track - 1 = s.track
    BY <1>5, <1>6
  <2>1. p \in r.found /\ r.at = "Add"
    BY <1>3
  <2> QED BY <1>1, <1>3, <2>1
<1> QED BY <1>1, <1>2, <1>3, <1>7, <1>8, <1>9, <1>10 DEF Rebuilt, Later

LEMMA SaveSongKeeps == ASSUME IInv, NEW t \in Scanner, SaveSong(t) PROVE IInv'
<1>1. PICK s : s = scan[t]
  OBVIOUS
<1>2. PICK p : p = Reading(s)
  OBVIOUS
<1>3. PICK tag : tag = IF s.track = 1 THEN disk[p] ELSE "Untagged"
  OBVIOUS
<1>4. PICK key : key = Path[p].keys[s.track]
  OBVIOUS
<1>5. PICK next : next = IF tag = "Untagged" THEN Stored(t)
                         ELSE [s EXCEPT !.at = "AddRead", !.key = key, !.tag = tag]
  OBVIOUS
<1>6. /\ TypeOK /\ t \in Scanning /\ s \in Scan /\ Placed(s) /\ Fit(s) /\ s.at = "Add"
  BY <1>1, ScanFacts DEF SaveSong, Before
<1>7. /\ s.found # {} /\ p \in s.found /\ p \in Files
      /\ s.track \in 1..Len(Path[p].keys) /\ (s.track > 1 \/ Readable(p))
      /\ key \in KeysOf(p) /\ key \in Keys
  BY <1>1, <1>2, <1>4, SaveFacts
<1>8. File(t) = p
  BY <1>1, <1>2 DEF File, Reading
<1>9. /\ songs' = [songs EXCEPT ![key] = tag] /\ scan' = [scan EXCEPT ![t] = next]
      /\ UNCHANGED <<disk, mounted, albums, migrated, up, running, requests, changes, torn, sound>>
  BY <1>1, <1>3, <1>4, <1>5, <1>8 DEF SaveSong, Go, outside, counters
<1>10. tag \in Album \cup {"Untagged"} /\ (s.track = 1 => Readable(p))
  <2>1. s.track = 1 => Readable(p)
    BY <1>7
  <2> QED BY <1>3, <1>6, <1>7, <2>1, PresentFacts
<1>11. Saved(s, p, key, tag)
  BY <1>2, <1>3, <1>4, <1>6, <1>7, <1>9, <1>10 DEF Saved
<1>12. Onward(s, p, key, tag, next)
  <2>1. CASE tag = "Untagged" /\ s.track < Len(Path[p].keys)
    <3>1. next = NextTrack(s)
      BY <1>1, <1>5, <1>8, <2>1 DEF Stored, NextTrack
    <3> QED BY <1>6, <2>1, <3>1, NextTrackFacts DEF Onward
  <2>2. CASE tag = "Untagged" /\ ~(s.track < Len(Path[p].keys))
    <3>1. next = NextFile(s, p)
      BY <1>1, <1>5, <1>8, <2>2 DEF Stored, NextFile
    <3>2. s.track = Len(Path[p].keys)
      BY <1>7, <2>2, KeyFacts
    <3> QED BY <1>6, <2>2, <3>1, <3>2, NextFileFacts DEF Onward
  <2>3. CASE tag # "Untagged"
    <3>1. next = [s EXCEPT !.at = "AddRead", !.key = key, !.tag = tag]
      BY <1>5, <2>3
    <3>2. tag \in Album
      BY <1>10, <2>3
    <3>3. /\ next \in Scan /\ next.at = "AddRead" /\ next.key = key /\ next.tag = tag
          /\ next.found = s.found /\ next.track = s.track
          /\ next.gone = s.gone /\ next.full = s.full /\ next.clean = s.clean
      BY <1>6, <1>7, <3>1, <3>2 DEF Scan, Stage
    <3> QED BY <3>2, <3>3 DEF Onward
  <2> QED BY <2>1, <2>2, <2>3
<1>13. Placed(next) /\ next \in Scan /\ next.clean = s.clean /\ next.full = s.full
       /\ next.at \in {"Add", "AddRead"}
  BY <1>6, <1>11, <1>12, OnwardPlaced, OnwardFacts DEF Onward
<1>14. songs' \in [Keys -> Album \cup {"Untagged", "None"}]
  BY <1>6, <1>11, SavedFacts
<1>15. /\ Held(s) => Held(next)'
       /\ Held(s) /\ Named(s) => Named(next)'
       /\ Held(s) /\ Filed(s) => Filed(next)'
  BY <1>6, <1>11, <1>12, SavedKept
<1>16. /\ Surveyed(s) => Surveyed(next)'
       /\ Rebuilt(s) => Rebuilt(next)'
  BY <1>6, <1>11, <1>12, SavedSurveyed, SavedRebuilt
<1>17. Fit(next)'
  <2>1. /\ Trusted(next)' => Trusted(s)
        /\ ~torn' => ~torn /\ Trusted(s)
        /\ Firm(next)' => Firm(s) /\ Trusted(s)
    BY <1>6, <1>9, <1>13 DEF Trusted, Firm
  <2> QED BY <1>6, <1>13, <1>15, <1>16, <2>1 DEF Fit
<1> QED BY <1>1, <1>6, <1>9, <1>13, <1>14, <1>17, ThreadKeeps DEF Before, TypeOK

-----------------------------------------------------------------------------
(* The theorems.                                                           *)

LEMMA NextKeeps == ASSUME IInv, [Next]_vars PROVE IInv'
<1>1. ASSUME NEW t \in Scanner, Step(t) PROVE IInv'
  BY <1>1, CheckKeeps, MarkKeeps, DropSongsKeeps, DropAlbumsKeeps, WalkKeeps, CompareKeeps,
     SkipKeeps, SaveSongKeeps, AddReadKeeps, AddWriteKeeps, TakeOffKeeps, RemoveWriteKeeps,
     DeleteKeeps, FinishKeeps DEF Step
<1>2. CASE UNCHANGED vars
  <2>1. scan' = scan /\ Scanning' = Scanning /\ \A t \in Scanner : (Trusted(scan[t])' <=> Trusted(scan[t]))
    BY <1>2 DEF vars, Scanning, Trusted
  <2>2. \A t \in Scanning : Fit(scan[t])'
    <3> SUFFICES ASSUME NEW t \in Scanning PROVE Fit(scan[t])'
      OBVIOUS
    <3>1. PICK s : s = scan[t]
      OBVIOUS
    <3>2. Fit(s)'
      BY <1>2, <3>1, SameFits DEF IInv, vars
    <3> QED BY <2>1, <3>1, <3>2
  <2>3. Scanning = {} => Fit(Idle)'
    BY <1>2, SameFits DEF IInv, vars
  <2>4. TypeOK' /\ Lifecycle' /\ Alone'
    BY <1>2, <2>1 DEF IInv, TypeOK, Lifecycle, Alone, vars, Known, Scanning, Trusted
  <2> QED BY <2>1, <2>2, <2>3, <2>4 DEF IInv
<1> QED BY <1>1, <1>2, StartKeeps, CrashKeeps, EditKeeps, RemountKeeps, RequestKeeps DEF Next

\* Whatever scans, edits, mounts and crashes there were, the database and every scan
\* under way are as the invariant has it.
THEOREM Invariant == Spec => []IInv
<1>1. Init => IInv
  BY InitIInv
<1>2. IInv /\ [Next]_vars => IInv'
  BY NextKeeps
<1> QED BY <1>1, <1>2, PTL DEF Spec

\* Without a scan, or with one alone: what the albums name is in the library.
LEMMA InStep == ASSUME IInv PROVE AlbumsInStep
<1>1. TypeOK
  BY DEF IInv
<1>2. NoDangling
  <2> SUFFICES ASSUME ~torn, NEW a \in Album, NEW k \in albums[a] PROVE k \in Known
    BY DEF NoDangling
  <2>1. songs[k] = a
    <3>1. CASE Scanning = {}
      BY <3>1 DEF IInv, Fit, Named
    <3>2. CASE Scanning # {}
      <4>1. PICK t \in Scanning : Fit(scan[t])
        BY <3>2 DEF IInv
      <4> QED BY <4>1 DEF Fit, Named
    <3> QED BY <3>1, <3>2
  <2> QED BY <1>1, <2>1, TagFacts DEF Known, TypeOK
<1>3. Catalogued
  <2> SUFFICES ASSUME sound, migrated, Scanning = {}, NEW a \in Album
               PROVE  albums[a] = {k \in Keys : songs[k] = a}
    BY DEF Catalogued
  <2>1. Filed(Idle)
    BY DEF IInv, Fit, Firm, Idle
  <2> QED BY <1>1, <2>1, IdleFits DEF Filed, TypeOK
<1> QED BY <1>2, <1>3 DEF AlbumsInStep

\* AlbumsInStep holds for any files, any number of scans side by side and any bound: no
\* album names a song that is gone, whatever was cut short, and every song is in its
\* album and in no other once sound scans are over.
THEOREM Catalogue == Spec => []AlbumsInStep
BY Invariant, InStep, PTL

LEMMA Exact == ASSUME IInv PROVE ScanExact
<1> SUFFICES ASSUME NEW t \in Scanner, Finished(t), scan[t].clean
             PROVE  /\ \A p \in Files :
                         IF Readable(p) THEN KnownOf(p) # {} ELSE Present(p) \/ KnownOf(p) = {}
                    /\ scan[t].full =>
                         /\ \A p \in Files : \A k \in Range(Path[p].keys) :
                              songs[k] = IF Readable(p) THEN disk[p] ELSE "None"
                         /\ \A a \in Album : albums[a] = {k \in Keys : songs[k] = a}
  BY DEF ScanExact, ScanMatchesDisk, FullScanExact
<1>1. PICK s : s = scan[t]
  OBVIOUS
<1>2. s.at = "Add" /\ s.found = {} /\ (s.full \/ s.gone = {}) /\ s.clean
  BY <1>1 DEF Finished
<1>3. TypeOK /\ Fit(s)
  BY <1>1, <1>2, ScanFacts DEF Before
<1>4. Surveyed(s) /\ (s.full => Rebuilt(s))
  BY <1>2, <1>3 DEF Fit
<1>5. s.full => \A p \in Files : \A k \in KeysOf(p) :
                  songs[k] = IF Readable(p) THEN disk[p] ELSE "None"
  BY <1>2, <1>4 DEF Rebuilt, Later
<1>6. \A p \in Files : Readable(p) => KnownOf(p) # {}
  BY <1>2, <1>4 DEF Surveyed, Later
<1>7. ASSUME NEW p \in Files, ~Present(p) PROVE KnownOf(p) = {}
  <2>1. CASE s.full
    <3>1. ~Readable(p)
      BY <1>7 DEF Readable
    <3> QED BY <1>5, <2>1, <3>1, KnownFacts
  <2>2. CASE s.gone = {}
    BY <1>2, <1>4, <1>7, <2>2 DEF Surveyed, Later
  <2> QED BY <1>2, <2>1, <2>2
<1>8. s.full => Filed(s) /\ InHand(s) = {}
  BY <1>2, <1>3 DEF Fit, Firm, InHand, Adding
<1>9. s.full => \A a \in Album : albums[a] = {k \in Keys : songs[k] = a}
  BY <1>3, <1>8 DEF Filed, TypeOK
<1> QED BY <1>1, <1>5, <1>6, <1>7, <1>9 DEF KeysOf

\* ScanExact holds for any files and any bound: a scan nobody disturbed ends with a song
\* for each file that can be read and none for one that is gone, and a full one with
\* tags, tracks and albums as on disk, whatever it found in the database.
THEOREM Scanned == Spec => []ScanExact
BY Invariant, Exact, PTL

-----------------------------------------------------------------------------
(* The measurement of loudness: each song is taken by one worker, and only *)
(* while it has no entry.                                                  *)

Busy(w) == worker[w].at \in {"Find", "Measure"}

LoudTyped ==
  /\ library \subseteq Track /\ reachable \subseteq Track /\ batch \subseteq Track
  /\ loudness \in [Track -> {"None", "Measured", "Unavailable"}]
  /\ active \in BOOLEAN /\ scanned \in BOOLEAN
  /\ loop \in {"Collect", "Wait", "Batch", "Sleep"}
  /\ DOMAIN worker = Worker
  /\ \A w \in Worker : worker[w] = Resting \/ worker[w] \in [track : Track, at : {"Find", "Measure"}]

\* The pool rests between two batches.
PoolRests == \A w \in Worker : Busy(w) => loop = "Batch"

\* Nothing that is pending or taken has an entry.
Entryless ==
  /\ \A s \in batch : loudness[s] = "None"
  /\ \A w \in Worker : Busy(w) => loudness[worker[w].track] = "None"

\* What a worker has taken is neither pending nor another's.
TakenOnce ==
  /\ \A w \in Worker : Busy(w) => worker[w].track \notin batch
  /\ \A v, w \in Worker : Busy(v) /\ Busy(w) /\ v # w => worker[v].track # worker[w].track

LoudInv == LoudTyped /\ PoolRests /\ Entryless /\ TakenOnce /\ WrittenOff

\* A worker at a song is at one of the library's keys.
LEMMA BusyFacts ==
  ASSUME LoudTyped, NEW w \in Worker
  PROVE  /\ Busy(w) => worker[w].track \in Track
         /\ worker[w].at \in {"Find", "Measure", "Resting"}
         /\ worker[w] = Resting <=> ~Busy(w)
BY DEF LoudTyped, Busy, Resting

LEMMA LoudBegins == LoudnessInit => LoudInv
<1> SUFFICES ASSUME LoudnessInit PROVE LoudInv
  OBVIOUS
<1>1. \A w \in Worker : worker[w] = Resting /\ ~Busy(w)
  BY DEF LoudnessInit, Busy, Resting
<1>2. LoudTyped
  BY <1>1 DEF LoudnessInit, LoudTyped
<1>3. WrittenOff
  BY DEF LoudnessInit, WrittenOff
<1>4. PoolRests /\ Entryless /\ TakenOnce
  BY <1>1 DEF LoudnessInit, PoolRests, Entryless, TakenOnce
<1> QED BY <1>2, <1>3, <1>4 DEF LoudInv

\* A worker that takes a song takes it out of the batch.
LEMMA TakeKeeps ==
  ASSUME LoudInv, NEW w \in Worker, TakeSong(w)
  PROVE  LoudInv'
<1>1. PICK s \in batch : /\ batch' = batch \ {s}
                         /\ IF active THEN UNCHANGED worker ELSE At(w, s, "Find")
  BY DEF TakeSong
<1>2. /\ s \in Track /\ loudness[s] = "None" /\ loop = "Batch" /\ ~Busy(w)
      /\ UNCHANGED <<library, loudness, reachable, active, loop, scanned, lost, turns>>
  BY <1>1, BusyFacts DEF LoudInv, LoudTyped, Entryless, TakeSong
<1>3. CASE UNCHANGED worker
  BY <1>1, <1>2, <1>3 DEF LoudInv, LoudTyped, PoolRests, Entryless, TakenOnce, WrittenOff, Busy
<1>4. CASE worker' = [worker EXCEPT ![w] = [track |-> s, at |-> "Find"]]
  <2>1. /\ worker'[w] = [track |-> s, at |-> "Find"] /\ DOMAIN worker' = Worker
        /\ \A v \in Worker : v # w => worker'[v] = worker[v]
    BY <1>4 DEF LoudInv, LoudTyped
  <2>2. LoudTyped'
    BY <1>1, <1>2, <2>1 DEF LoudInv, LoudTyped, Resting
  <2>3. \A v \in Worker : v # w => (Busy(v)' <=> Busy(v))
    BY <2>1 DEF Busy
  <2>4. PoolRests' /\ WrittenOff'
    BY <1>2, <2>3 DEF LoudInv, PoolRests, WrittenOff
  <2>5. Entryless' /\ TakenOnce'
    BY <1>1, <1>2, <2>1, <2>3 DEF LoudInv, Entryless, TakenOnce
  <2> QED BY <2>2, <2>4, <2>5 DEF LoudInv
<1> QED BY <1>1, <1>3, <1>4 DEF At

LEMMA FindKeeps ==
  ASSUME LoudInv, NEW w \in Worker, FindFile(w)
  PROVE  LoudInv'
<1>1. /\ worker[w] \in [track : Track, at : {"Find", "Measure"}] /\ Busy(w)
      /\ UNCHANGED <<library, loudness, reachable, active, loop, batch, scanned, lost, turns>>
  BY DEF LoudInv, LoudTyped, FindFile, Busy, Resting
<1>2. /\ DOMAIN worker' = Worker
      /\ \A v \in Worker : v # w => worker'[v] = worker[v]
      /\ worker'[w] = Resting \/ worker'[w] = [track |-> worker[w].track, at |-> "Measure"]
  BY <1>1 DEF FindFile, LoudInv, LoudTyped
<1>3. LoudTyped'
  BY <1>1, <1>2 DEF LoudInv, LoudTyped
<1>4. \A v \in Worker : /\ Busy(v)' => Busy(v)
                        /\ Busy(v)' => worker'[v].track = worker[v].track
  BY <1>1, <1>2 DEF Busy, Resting
<1>5. PoolRests' /\ Entryless' /\ TakenOnce' /\ WrittenOff'
  BY <1>1, <1>4 DEF LoudInv, PoolRests, Entryless, TakenOnce, WrittenOff
<1> QED BY <1>3, <1>5 DEF LoudInv

\* The entry goes to a song that had none, and no other worker is at it.
LEMMA MeasureKeeps ==
  ASSUME LoudInv, NEW w \in Worker, Measure(w)
  PROVE  LoudInv' /\ \A s \in Track : loudness[s] \in {"None", loudness'[s]}
<1> DEFINE s == worker[w].track
<1>1. /\ Busy(w) /\ s \in Track /\ loudness[s] = "None"
      /\ loudness' = [loudness EXCEPT ![s] = MeasureFile(s)]
      /\ lost' = IF s \in reachable THEN lost ELSE lost \cup {s}
      /\ scanned' = TRUE /\ worker' = [worker EXCEPT ![w] = Resting]
      /\ UNCHANGED <<library, reachable, active, loop, batch, turns>>
  BY BusyFacts DEF Measure, SaveEntry, At, Resting, Busy, LoudInv, Entryless
<1> HIDE DEF s
<1>2. /\ MeasureFile(s) \in {"Measured", "Unavailable"}
      /\ MeasureFile(s) = "Unavailable" => s \in Silent \/ s \notin reachable
  BY DEF MeasureFile
<1>3. /\ loudness \in [Track -> {"None", "Measured", "Unavailable"}]
      /\ loudness'[s] = MeasureFile(s)
      /\ \A r \in Track : r # s => loudness'[r] = loudness[r]
  BY <1>1 DEF LoudInv, LoudTyped
<1>4. /\ DOMAIN worker' = Worker /\ worker'[w] = Resting
      /\ \A v \in Worker : v # w => worker'[v] = worker[v]
  BY <1>1 DEF LoudInv, LoudTyped
<1>5. LoudTyped'
  <2>1. loudness' \in [Track -> {"None", "Measured", "Unavailable"}]
    BY <1>1, <1>2, <1>3
  <2> QED BY <1>1, <1>4, <2>1 DEF LoudInv, LoudTyped
<1>6. \A v \in Worker : Busy(v)' => /\ v # w /\ Busy(v) /\ worker'[v] = worker[v]
                                    /\ worker[v].track \in Track /\ worker[v].track # s
  <2> SUFFICES ASSUME NEW v \in Worker, Busy(v)'
               PROVE  /\ v # w /\ Busy(v) /\ worker'[v] = worker[v]
                      /\ worker[v].track \in Track /\ worker[v].track # s
    OBVIOUS
  <2>1. v # w
    BY <1>4 DEF Busy, Resting
  <2>2. worker'[v] = worker[v] /\ Busy(v)
    BY <1>4, <2>1 DEF Busy
  <2>3. worker[v].track # s
    BY <1>1, <2>1, <2>2 DEF LoudInv, TakenOnce, s
  <2> QED BY <2>1, <2>2, <2>3, BusyFacts DEF LoudInv
<1>7. PoolRests' /\ TakenOnce'
  BY <1>1, <1>6 DEF LoudInv, PoolRests, TakenOnce
<1>8. Entryless'
  <2>1. s \notin batch
    BY <1>1 DEF LoudInv, TakenOnce, s
  <2>2. ASSUME NEW r \in batch' PROVE loudness'[r] = "None"
    BY <1>1, <1>3, <2>1 DEF LoudInv, LoudTyped, Entryless
  <2>3. ASSUME NEW v \in Worker, Busy(v)' PROVE loudness'[worker'[v].track] = "None"
    BY <1>3, <1>6, <2>3 DEF LoudInv, Entryless
  <2> QED BY <2>2, <2>3 DEF Entryless
<1>9. WrittenOff'
  BY <1>1, <1>2, <1>3 DEF LoudInv, WrittenOff
<1> QED BY <1>1, <1>3, <1>5, <1>7, <1>8, <1>9 DEF LoudInv

LEMMA LoudSteps == LoudInv /\ [LoudnessNext]_loudnessVars => LoudInv'
<1> SUFFICES ASSUME LoudInv, [LoudnessNext]_loudnessVars PROVE LoudInv'
  OBVIOUS
<1> USE DEF LoudInv, LoudTyped, PoolRests, Entryless, TakenOnce, WrittenOff, Busy
<1>1. CASE Collect
  <2>1. \A w \in Worker : ~Busy(w)
    BY <1>1 DEF Collect
  <2> QED BY <1>1, <2>1 DEF Collect, Uncatalogued
<1>2. CASE Begin
  BY <1>2 DEF Begin
<1>3. CASE EndPass
  <2>1. \A w \in Worker : ~Busy(w)
    BY <1>3 DEF EndPass, Resting
  <2> QED BY <1>3, <2>1 DEF EndPass
<1>4. CASE WakeUp
  BY <1>4 DEF WakeUp
<1>5. ASSUME NEW w \in Worker, Pool(w) PROVE LoudInv'
  BY <1>5, TakeKeeps, FindKeeps, MeasureKeeps DEF Pool
<1>6. CASE Outside(Playback)
  BY <1>6 DEF Outside, Playback
<1>7. CASE Outside(Restart)
  <2>1. \A w \in Worker : worker'[w] = Resting
    BY <1>7 DEF Outside, Restart
  <2>2. \A w \in Worker : ~Busy(w)'
    BY <2>1 DEF Resting
  <2> QED BY <1>7, <2>1, <2>2 DEF Outside, Restart
<1>8. ASSUME NEW s \in Track, Outside(Rescan(s)) \/ Outside(Unmount(s)) PROVE LoudInv'
  BY <1>8 DEF Outside, Rescan, Unmount
<1>9. CASE UNCHANGED loudnessVars
  BY <1>9 DEF loudnessVars
<1> QED BY <1>1, <1>2, <1>3, <1>4, <1>5, <1>6, <1>7, <1>8, <1>9 DEF LoudnessNext

\* The invariant of the measurement holds in every reachable state, for any songs and
\* any number of workers: no song is with two of them, and none they hold has an entry.
THEOREM LoudnessInvariant == LoudnessSpec => []LoudInv
BY LoudBegins, LoudSteps, PTL DEF LoudnessSpec

\* Only a song that cannot be measured, or whose file went away meanwhile, is written off.
THEOREM FewWrittenOff == LoudnessSpec => []WrittenOff
<1>1. LoudInv => WrittenOff
  BY DEF LoudInv
<1> QED BY <1>1, LoudnessInvariant, PTL

\* Only Measure saves an entry.
LEMMA EntryStays ==
  ASSUME LoudInv, [LoudnessNext]_loudnessVars
  PROVE  [\A s \in Track : loudness[s] \in {"None", loudness'[s]}]_loudness
<1>1. CASE \E w \in Worker : Measure(w)
  BY <1>1, MeasureKeeps
<1>2. CASE ~\E w \in Worker : Measure(w)
  <2>1. UNCHANGED loudness
    BY <1>2 DEF LoudnessNext, Collect, Begin, EndPass, WakeUp, Pool, TakeSong, FindFile,
       Outside, Playback, Restart, Rescan, Unmount, loudnessVars
  <2> QED BY <2>1
<1> QED BY <1>1, <1>2

\* A song is measured once: no playback, rescan, restart or other worker, in whatever
\* order, changes an entry.
THEOREM EntriesStay == LoudnessSpec => MeasuredOnce
<1>1. LoudInv /\ [LoudnessNext]_loudnessVars
        => [\A s \in Track : loudness[s] \in {"None", loudness'[s]}]_loudness
  BY EntryStays
<1> QED BY <1>1, LoudnessInvariant, PTL DEF LoudnessSpec, MeasuredOnce
=============================================================================
