---------------------------- MODULE LoudnessScan ----------------------------
(***************************************************************************)
(* The background measurement of loudness (src/crates/metadata/src/        *)
(* loudness_service.rs, loudness_repository.rs).                           *)
(*                                                                         *)
(* One thread collects the songs without an entry and has a pool measure   *)
(* them; the playback thread raises a flag while it plays                  *)
(* (src/crates/playback/src/rsp/player_service.rs:322, 477).  Workers read *)
(* the flag, look for the file and measure it in steps of their own, so    *)
(* that playback, a rescan of the library, a directory that is unmounted   *)
(* and a restart come between.                                             *)
(***************************************************************************)
EXTENDS Integers, FiniteSets

CONSTANTS
  Track,       \* keys of songs
  Silent,      \* those no loudness can be measured of (DSD, unsupported)
  Worker,      \* threads of the pool
  MaxTurns     \* bound: changes from outside

ASSUME LoudnessAssumption == Silent \subseteq Track /\ MaxTurns \in Nat

VARIABLES
  library,     \* the songs keyspace
  loudness,    \* the loudness keyspace: "None", "Measured", "Unavailable"
  reachable,   \* songs whose file exists
  active,      \* is_playing
  loop,        \* where the scan thread is
  batch,       \* pending songs no worker has taken
  worker,      \* the song each worker is at, and how far it is
  scanned,     \* a song of this pass got an entry
  lost,        \* songs whose file went away while it was measured
  turns        \* changes from outside so far

loudnessVars == <<library, loudness, reachable, active, loop, batch, worker, scanned,
                  lost, turns>>

Resting == [track |-> "None", at |-> "Resting"]

LoudnessInit ==
  /\ library = Track /\ reachable = Track
  /\ loudness = [s \in Track |-> "None"]
  /\ active \in BOOLEAN
  /\ loop = "Collect" /\ batch = {} /\ scanned = FALSE
  /\ worker = [w \in Worker |-> Resting]
  /\ lost = {} /\ turns = 0

-----------------------------------------------------------------------------
(* The scan thread, scan_loop.                                             *)

Uncatalogued == {s \in library : loudness[s] = "None"}

\* Mutant: the thread ends when it finds playback at work.
CollectOrEnd ==
  /\ loop = "Collect"
  /\ batch' = Uncatalogued
  /\ loop' = IF active THEN "Ended" ELSE IF Uncatalogued = {} THEN "Sleep" ELSE "Wait"
  /\ UNCHANGED <<library, loudness, reachable, active, worker, scanned, lost, turns>>

Collect ==
  /\ loop = "Collect"
  /\ batch' = Uncatalogued
  /\ loop' = IF Uncatalogued = {} THEN "Sleep" ELSE "Wait"
  /\ UNCHANGED <<library, loudness, reachable, active, worker, scanned, lost, turns>>

\* The thread waits for playback to stop before the batch.
Begin ==
  /\ loop = "Wait" /\ ~active
  /\ loop' = "Batch" /\ scanned' = FALSE
  /\ UNCHANGED <<library, loudness, reachable, active, batch, worker, lost, turns>>

\* The pool is done: if nothing got an entry the thread sleeps before it looks again.
EndPass ==
  /\ loop = "Batch" /\ batch = {}
  /\ \A w \in Worker : worker[w] = Resting
  /\ loop' = IF scanned THEN "Collect" ELSE "Sleep"
  /\ UNCHANGED <<library, loudness, reachable, active, batch, worker, scanned, lost, turns>>

WakeUp ==
  /\ loop = "Sleep" /\ loop' = "Collect"
  /\ UNCHANGED <<library, loudness, reachable, active, batch, worker, scanned, lost, turns>>

-----------------------------------------------------------------------------
(* A worker of the pool.                                                   *)

At(w, track, at) == worker' = [worker EXCEPT ![w] = [track |-> track, at |-> at]]

\* A song is passed over once playback has started.
TakeSong(w) ==
  /\ loop = "Batch" /\ worker[w] = Resting
  /\ \E s \in batch :
       /\ batch' = batch \ {s}
       /\ IF active THEN UNCHANGED worker ELSE At(w, s, "Find")
  /\ UNCHANGED <<library, loudness, reachable, active, loop, scanned, lost, turns>>

FindFile(w) ==
  /\ worker[w].at = "Find"
  /\ worker' = [worker EXCEPT ![w] = IF @.track \in reachable THEN [@ EXCEPT !.at = "Measure"]
                                     ELSE Resting]
  /\ UNCHANGED <<library, loudness, reachable, active, loop, batch, scanned, lost, turns>>

\* LoudnessAnalyzer::measure_file: nothing for a file that cannot be opened or
\* decoded, for whatever reason.
MeasureFile(s) == IF s \in reachable \ Silent THEN "Measured" ELSE "Unavailable"

SaveEntry(s, entry) == loudness' = [loudness EXCEPT ![s] = entry]

\* A file that went away since it was found counts as one that cannot be measured.
Measure(w) ==
  LET s == worker[w].track IN
  /\ worker[w].at = "Measure"
  /\ SaveEntry(s, MeasureFile(s))
  /\ lost' = IF s \in reachable THEN lost ELSE lost \cup {s}
  /\ scanned' = TRUE
  /\ At(w, "None", "Resting")
  /\ UNCHANGED <<library, reachable, active, loop, batch, turns>>

-----------------------------------------------------------------------------
(* What happens outside.                                                   *)

Outside(A) == turns < MaxTurns /\ A /\ turns' = turns + 1

\* The playback thread starts or ends.
Playback ==
  /\ active' = ~active
  /\ UNCHANGED <<library, loudness, reachable, loop, batch, worker, scanned, lost>>

\* A rescan adds or deletes a song; its entry stays.
Rescan(s) ==
  /\ library' = IF s \in library THEN library \ {s} ELSE library \cup {s}
  /\ UNCHANGED <<loudness, reachable, active, loop, batch, worker, scanned, lost>>

\* A music directory comes or goes.
Unmount(s) ==
  /\ reachable' = IF s \in reachable THEN reachable \ {s} ELSE reachable \cup {s}
  /\ UNCHANGED <<library, loudness, active, loop, batch, worker, scanned, lost>>

Restart ==
  /\ active' = FALSE /\ loop' = "Collect" /\ batch' = {} /\ scanned' = FALSE
  /\ worker' = [w \in Worker |-> Resting]
  /\ UNCHANGED <<library, loudness, reachable, lost>>

Pool(w) == TakeSong(w) \/ FindFile(w) \/ Measure(w)

LoudnessNext ==
  \/ Collect \/ Begin \/ EndPass \/ WakeUp
  \/ \E w \in Worker : Pool(w)
  \/ Outside(Playback) \/ Outside(Restart)
  \/ \E s \in Track : Outside(Rescan(s)) \/ Outside(Unmount(s))

\* The threads run; a sleep of a minute ends.
ScanThread == Collect \/ Begin \/ EndPass \/ WakeUp

LoudnessSpec ==
  /\ LoudnessInit /\ [][LoudnessNext]_loudnessVars
  /\ WF_loudnessVars(ScanThread) /\ WF_loudnessVars(\E w \in Worker : Pool(w))

-----------------------------------------------------------------------------
(* Properties.                                                             *)

\* "Analysis runs automatically in the background while playback is stopped"
\* (docs/README.md:37): once playback stays stopped every song of the library whose
\* file exists gets its entry, whatever playback, rescans, unmounted directories and
\* restarts did before.
AllAnalysed == []<>(active \/ \A s \in library \cap reachable : loudness[s] # "None")

\* Only a song that cannot be measured, or whose file went away during the
\* measurement, is written off.
WrittenOff == \A s \in Track : loudness[s] = "Unavailable" => s \in Silent \cup lost

\* "Each song is measured once and the result is stored permanently"
\* (docs/configuration.md:57): an entry never changes.
MeasuredOnce == [][\A s \in Track : loudness[s] \in {"None", loudness'[s]}]_loudness
=============================================================================
