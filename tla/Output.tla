-------------------------------- MODULE Output --------------------------------
(***************************************************************************)
(* From a decoded packet to the device                                     *)
(* (src/crates/playback/src/rsp/audio_output.rs): opening an output that   *)
(* the device accepts, the ring between the playback thread and the        *)
(* device's callback, and the equaliser that the command thread hands over *)
(* while the playback thread builds its own                                *)
(* (src/crates/dsp/src/dsp_processor.rs).                                  *)
(*                                                                         *)
(* Samples are counted, not kept; a rate stands for rate and channels.     *)
(***************************************************************************)
EXTENDS Integers, FiniteSets, Sequences, SequencesExt

CONSTANTS
  Standard,    \* the rates drivers usually take, highest first
  Setups,      \* [claims, fixed, sizes, prefill, songs]: the <<lowest, highest>> rates
               \* the device claims, the settings, and the [rate, gain, kind] played
  Filters,     \* equaliser settings; "Flat" has no filter
  Packets,     \* packets of a song
  Chunk,       \* samples of a packet
  Period,      \* samples the device takes at once
  Room,        \* samples the ring holds
  Threshold,   \* consecutive errors that count as broken
  MaxRetries,  \* failures of one song before the thread gives up
  MaxSongs,    \* bound: songs begun, and begun again
  MaxUpdates   \* bound: equaliser settings applied

ASSUME OutputAssumption ==
  /\ {Packets, Chunk, Period, Room, Threshold} \subseteq Nat \ {0}
  /\ {MaxRetries, MaxSongs, MaxUpdates} \subseteq Nat
  /\ "Flat" \in Filters /\ Standard \in Seq(Nat)
  /\ \A u \in Setups : /\ u.claims \in Seq(Nat \X Nat)
                       /\ u.fixed \in Nat /\ u.sizes \in Nat \ {0} /\ u.prefill \in Nat
  /\ \A u \in Setups : \A s \in u.songs :
                         s.rate \in Nat \ {0} /\ s.gain \in Nat
                         /\ s.kind \in {"Song", "Session", "Dsd"}

VARIABLES
  setup,          \* the device and the settings, which stay
  thread,         \* the playback thread
  out,            \* its output
  ring, errors,   \* samples in the ring; consecutive errors of the device
  stop,           \* the stop signal
  pending, flag,  \* DspHandle: the equaliser to be taken, has_filters
  filters, gain,  \* DspHandle: the settings and the gain of the song
  held,           \* the playback thread has the settings locked
  update,         \* the command thread in update_settings
  known, infos,   \* the rate DspProcessor has been told, and is going to be
  songs, updates, \* songs begun and settings applied so far
  due, heard,     \* samples written to this output, and played by it
  spoiled         \* how an update has spoiled the equaliser since it was built

dsp    == <<pending, flag, filters, gain, held, known, infos>>
ghosts == <<due, heard, spoiled>>
vars == <<setup, thread, out, ring, errors, stop, pending, flag, filters,
          gain, held, update, known, infos, songs, updates, due, heard, spoiled>>

-----------------------------------------------------------------------------
(* Which rates to try. *)

Dist(a, b) == IF a < b THEN b - a ELSE a - b
Bounds(d)  == [i \in 1..(2 * Len(d)) |-> d[(i + 1) \div 2][2 - (i % 2)]]
Claims(d, r) == \E i \in DOMAIN d : d[i][1] <= r /\ r <= d[i][2]

NoRate == 0

\* The bound closest to r, of equal ones the first.
Closest(d, r) ==
  LET b == Bounds(d)
  IN  b[CHOOSE i \in DOMAIN b : \A j \in DOMAIN b :
          \/ Dist(r, b[i]) < Dist(r, b[j])
          \/ Dist(r, b[i]) = Dist(r, b[j]) /\ i <= j]

\* The rate to resample to, none if the device claims the song's own.
FindRate(d, r) ==
  LET multiples == {b \in Range(Bounds(d)) : b > r /\ b % r = 0}
  IN  CASE Claims(d, r) \/ d = <<>> -> NoRate
        [] ~Claims(d, r) /\ multiples # {} -> CHOOSE m \in multiples : \A n \in multiples : m <= n
        [] OTHER -> Closest(d, r)

\* What to try when the device refuses a rate it claims: multiples, then bounds and then
\* usual rates, these by their distance.
Wanted(d, r) == <<2 * r, 3 * r, 4 * r>> \o Bounds(d) \o Standard

Tier(d, i) == CASE i <= 3 -> 1
                [] i > 3 /\ i <= 3 + 2 * Len(d) -> 2
                [] OTHER -> 3

Sooner(d, r, i, j) ==
  LET far(k) == IF k <= 3 THEN 0 ELSE Dist(r, Wanted(d, r)[k])
  IN  \/ Tier(d, i) < Tier(d, j)
      \/ Tier(d, i) = Tier(d, j) /\ far(i) < far(j)
      \/ Tier(d, i) = Tier(d, j) /\ far(i) = far(j) /\ i <= j

\* Every rate claimed, where it is wanted first.
Kept(d, r) ==
  LET w == Wanted(d, r)
  IN  {i \in DOMAIN w : w[i] # r /\ Claims(d, w[i])
                        /\ \A j \in DOMAIN w : w[j] = w[i] => Sooner(d, r, i, j)}

Candidates(d, r) ==
  [n \in 1..Cardinality(Kept(d, r)) |->
     Wanted(d, r)[CHOOSE i \in Kept(d, r) : Cardinality({j \in Kept(d, r) : Sooner(d, r, j, i)}) = n]]

IsDsd(s) == s.kind = "Dsd"
Resample(u, s) == CASE IsDsd(s) -> NoRate
                       [] ~IsDsd(s) /\ u.fixed \notin {NoRate, s.rate} -> u.fixed
                       [] OTHER -> FindRate(u.claims, s.rate)

Sizes(u, s) == IF IsDsd(s) THEN 1 ELSE u.sizes
Build(r) == <<[do |-> "Build", rate |-> r, size |-> 0, late |-> FALSE]>>
Opens(u, s, r, late) ==
  [i \in 1..Sizes(u, s) |-> [do |-> "Open", rate |-> r, size |-> i, late |-> late]]

\* The sequences of b, of k steps each, one after the other.
InTurn(b, k) == [n \in 1..(Len(b) * k) |-> b[((n - 1) \div k) + 1][((n - 1) % k) + 1]]

\* Mutant: the fallback opens with the equaliser of the rate refused.
FallbacksStale(u, s, late) ==
  LET c == Candidates(u.claims, s.rate)
  IN  InTurn([i \in DOMAIN c |-> Opens(u, s, c[i], late)], Sizes(u, s))

\* Mutant: only multiples of the rate are tried.
FallbacksMultiples(u, s, late) ==
  LET c == SelectSeq(Candidates(u.claims, s.rate), LAMBDA x : x % s.rate = 0)
  IN  InTurn([i \in DOMAIN c |-> Build(c[i]) \o Opens(u, s, c[i], late)], 1 + Sizes(u, s))

Fallbacks(u, s, late) ==
  LET c == Candidates(u.claims, s.rate)
  IN  InTurn([i \in DOMAIN c |-> Build(c[i]) \o Opens(u, s, c[i], late)], 1 + Sizes(u, s))

\* One call of AudioOutput::new, as the steps it takes until one opens.
New(u, s, late) ==
  LET other == Resample(u, s)
      rate  == IF other = NoRate THEN s.rate ELSE other
  IN  (IF IsDsd(s) THEN <<>> ELSE Build(rate))
      \o Opens(u, s, rate, late)
      \o (IF IsDsd(s) \/ other # NoRate THEN <<>> ELSE Fallbacks(u, s, late))

\* play_file calls it once, and again for each candidate; what that opens is too
\* late, the song fails all the same. A follower's sink calls it once.
Ladder == [u \in Setups |-> [s \in UNION {v.songs : v \in Setups} |->
  LET again == FindRate(u.claims, s.rate) = NoRate /\ s.kind # "Session"
      c == IF again THEN Candidates(u.claims, s.rate) ELSE <<>>
  IN  New(u, s, FALSE) \o InTurn([i \in DOMAIN c |-> Build(c[i]) \o New(u, s, TRUE)],
                                 1 + Len(New(u, s, TRUE)))]]

-----------------------------------------------------------------------------
(* Equalisers. *)

None == [set |-> "Flat", gain |-> 0, rate |-> NoRate]
Equaliser(r) == [set |-> filters, gain |-> gain, rate |-> r]
Active(eq)   == eq.rate # NoRate /\ (eq.set # "Flat" \/ eq.gain # 0)

Closed == [open |-> FALSE, rate |-> NoRate, eq |-> None]
NoSong == CHOOSE s \in UNION {u.songs : u \in Setups} : TRUE
Unspoiled == [skipped |-> FALSE, raced |-> FALSE, misfit |-> FALSE]

Resting == [at |-> "Idle", song |-> NoSong, try |-> 0, packets |-> 0, left |-> 0,
            eq |-> None, retries |-> 0, result |-> "None", cut |-> FALSE]
NoUpdate == [at |-> "Idle", eq |-> None]

TypeOK ==
  /\ thread.at \in {"Idle", "Loop", "Open", "Build", "Built", "Prefill", "Push", "Drain", "End"}
  /\ thread.packets \in 0..Packets /\ thread.left \in Nat
  /\ ring \in 0..Room /\ errors \in 0..Threshold
  /\ {pending, out.eq, update.eq, thread.eq} \subseteq
       [set : Filters, gain : Nat, rate : Nat]
  /\ {stop, flag, held, out.open} \subseteq BOOLEAN
  /\ update.at \in {"Idle", "Build", "Slot", "Flag"}

Init ==
  /\ setup \in Setups
  /\ thread = Resting /\ out = Closed
  /\ ring = 0 /\ errors = 0 /\ stop = FALSE
  /\ pending = None /\ flag = FALSE /\ filters \in Filters /\ gain = 0 /\ held = FALSE
  /\ update = NoUpdate /\ known = NoRate /\ infos = <<>>
  /\ songs = 0 /\ updates = 0
  /\ due = 0 /\ heard = 0 /\ spoiled = Unspoiled

-----------------------------------------------------------------------------
(* The playback thread. *)

\* The thread takes a song, sets its gain, and play_file announces its rate. A
\* session of a follower has its gain in the samples and leaves the handle's alone.
Starts(s, retries) ==
  /\ thread' = [Resting EXCEPT !.at = "Loop", !.song = s, !.packets = Packets,
                               !.retries = retries]
  /\ gain' = IF s.kind = "Session" THEN gain ELSE s.gain
  /\ infos' = IF s.kind = "Session" THEN infos ELSE Append(infos, s.rate)
  /\ due' = 0 /\ heard' = 0

Begin ==
  /\ songs < MaxSongs /\ songs' = songs + 1
  /\ \/ thread.at = "Idle" /\ stop' = FALSE
        /\ \E s \in setup.songs : Starts(s, 0)
     \/ thread.at = "End" /\ thread.result = "Finished" /\ UNCHANGED stop
        /\ \E s \in setup.songs : /\ "Session" \notin {s.kind, thread.song.kind}
                          /\ Starts(s, 0)
  /\ UNCHANGED <<setup, out, ring, errors, pending, flag, filters, held, update, known,
                 updates, spoiled>>

Again ==
  /\ thread.at = "End" /\ thread.result = "Failed"
  /\ thread.retries < MaxRetries /\ ~stop
  /\ songs < MaxSongs /\ songs' = songs + 1
  /\ Starts(thread.song, thread.retries + 1)
  /\ UNCHANGED <<setup, out, ring, errors, stop, pending, flag, filters, held, update,
                 known, updates, spoiled>>

Exit ==
  /\ thread.at = "End"
  /\ \/ thread.result \in {"Stopped", "Lost"}
     \/ thread.result = "Failed" /\ (thread.retries >= MaxRetries \/ stop \/ songs = MaxSongs)
     \/ thread.result = "Finished"
  /\ thread' = Resting
  /\ due' = 0 /\ heard' = 0 /\ spoiled' = Unspoiled
  /\ UNCHANGED <<setup, out, ring, errors, stop, dsp, update, songs, updates>>

\* An output that is closed takes what is in its ring with it.
Closes == out' = Closed /\ ring' = 0 /\ errors' = 0

EndWith(result) == thread' = [thread EXCEPT !.at = "End", !.result = result,
                                            !.cut = @ \/ result # "Finished"]

Stopped ==
  /\ thread.at = "Loop" /\ stop
  /\ EndWith("Stopped") /\ Closes
  /\ UNCHANGED <<setup, stop, dsp, update, songs, updates, ghosts>>

\* A packet is decoded; without an output, one is opened for it.
Decode ==
  /\ thread.at = "Loop" /\ ~stop /\ thread.packets > 0 /\ ~out.open
  /\ thread' = [thread EXCEPT !.at = "Open", !.packets = @ - 1, !.try = 1]
  /\ UNCHANGED <<setup, out, ring, errors, stop, dsp, update, songs, updates, ghosts>>

Failure == IF thread.song.kind = "Session" THEN "Lost" ELSE "Failed"

Swapped == IF pending # None /\ ~IsDsd(thread.song) THEN [out EXCEPT !.eq = pending] ELSE out

\* write: take a new equaliser, then push; it is refused when the device is broken.
AtWrite == \/ thread.at = "Loop" /\ ~stop /\ thread.packets > 0 /\ out.open
           \/ thread.at = "Prefill" /\ thread.left = 0
Unread  == IF thread.at = "Loop" THEN thread.packets - 1 ELSE thread.packets

\* What the writers make of a packet: as many samples, or those of another rate.
Samples == IF IsDsd(thread.song) \/ out.rate = thread.song.rate THEN Chunk
           ELSE (Chunk * out.rate) \div thread.song.rate

\* The equaliser they apply: none unless the flag is up.
Applied == IF flag THEN out.eq ELSE None

WritePacket ==
  /\ AtWrite /\ errors < Threshold
  /\ out' = Swapped
  /\ pending' = IF IsDsd(thread.song) THEN pending ELSE None
  /\ thread' = [thread EXCEPT !.at = IF Samples = 0 THEN "Loop" ELSE "Push",
                              !.packets = Unread, !.left = Samples]
  /\ due' = due + Samples
  /\ UNCHANGED <<setup, ring, errors, stop, flag, filters, gain, held, update, known,
                 infos, songs, updates, heard, spoiled>>

\* A write that fails drops the output: a song opens another for its next packet,
\* a session is over.
Drops ==
  /\ thread' = IF thread.song.kind = "Session"
               THEN [thread EXCEPT !.at = "End", !.result = "Lost", !.cut = TRUE, !.left = 0]
               ELSE [thread EXCEPT !.at = "Loop", !.packets = Unread, !.cut = TRUE, !.left = 0]
  /\ Closes

WriteBroken ==
  /\ AtWrite /\ errors >= Threshold
  /\ Drops
  /\ UNCHANGED <<setup, stop, dsp, update, songs, updates, ghosts>>

Pushing == thread.at \in {"Prefill", "Push"} /\ thread.left > 0
Least(a, b) == IF a < b THEN a ELSE b

\* Mutant: what does not fit is dropped.
PushOnce ==
  /\ Pushing /\ errors < Threshold /\ ring < Room
  /\ ring' = ring + Least(thread.left, Room - ring)
  /\ thread' = [thread EXCEPT !.left = 0,
                 !.at = IF thread.at = "Push" THEN "Loop" ELSE @]
  /\ UNCHANGED <<setup, out, errors, stop, dsp, update, songs, updates, ghosts>>

\* push_to_ring: as much as fits, until nothing is left.
PushPart ==
  /\ Pushing /\ errors < Threshold /\ ring < Room
  /\ LET n == Least(thread.left, Room - ring)
     IN  /\ ring' = ring + n
         /\ thread' = [thread EXCEPT !.left = @ - n,
                        !.at = IF @ = "Push" /\ n = thread.left THEN "Loop" ELSE @]
  /\ UNCHANGED <<setup, out, errors, stop, dsp, update, songs, updates, ghosts>>

\* Mutant: a full ring is waited for without a limit.
PushWaits ==
  /\ Pushing /\ errors >= Threshold
  /\ IF thread.at = "Push" THEN Drops
     ELSE /\ thread' = [thread EXCEPT !.left = 0, !.cut = TRUE]
          /\ UNCHANGED <<out, ring, errors>>
  /\ UNCHANGED <<setup, stop, dsp, update, songs, updates, ghosts>>

\* The device is broken, or has taken nothing for a second. A prefill that fails is
\* given up, the song goes on.
PushFails ==
  /\ Pushing /\ (errors >= Threshold \/ ring = Room)
  /\ IF thread.at = "Push" THEN Drops
     ELSE /\ thread' = [thread EXCEPT !.left = 0, !.cut = TRUE]
          /\ UNCHANGED <<out, ring, errors>>
  /\ UNCHANGED <<setup, stop, dsp, update, songs, updates, ghosts>>

\* The song has no more packets: its tail is played out, unless something is wrong.
LastPacket ==
  /\ thread.at = "Loop" /\ ~stop /\ thread.packets = 0
  /\ IF out.open THEN thread' = [thread EXCEPT !.at = "Drain"] ELSE EndWith("Finished")
  /\ UNCHANGED <<setup, out, ring, errors, stop, dsp, update, songs, updates, ghosts>>

\* Mutant: the output is closed at once.
DrainNothing ==
  /\ thread.at = "Drain"
  /\ EndWith("Finished") /\ Closes
  /\ UNCHANGED <<setup, stop, dsp, update, songs, updates, ghosts>>

Drained ==
  /\ thread.at = "Drain"
  /\ ring = 0
  /\ EndWith("Finished") /\ Closes
  /\ UNCHANGED <<setup, stop, dsp, update, songs, updates, ghosts>>

\* A stop, a broken device, or fifteen seconds are over.
DrainCut ==
  /\ thread.at = "Drain" /\ ring > 0
  /\ thread' = [thread EXCEPT !.at = "End", !.result = "Finished", !.cut = TRUE]
  /\ Closes
  /\ UNCHANGED <<setup, stop, dsp, update, songs, updates, ghosts>>

Tries == Ladder[setup][thread.song]
Trying(what) == /\ thread.at = "Open" /\ thread.try <= Len(Tries)
                /\ Tries[thread.try].do = what

\* DspHandle::rebuild: read the settings and lock them, fill the slot, set the flag.
Rebuild ==
  /\ Trying("Build")
  /\ thread' = [thread EXCEPT !.at = "Build", !.eq = Equaliser(Tries[thread.try].rate)]
  /\ held' = TRUE
  /\ spoiled' = [Unspoiled EXCEPT !.raced = update.at # "Idle"]
  /\ UNCHANGED <<setup, out, ring, errors, stop, pending, flag, filters, gain, update, known,
                 infos, songs, updates, due, heard>>

PutSlot ==
  /\ thread.at = "Build"
  /\ pending' = thread.eq
  /\ thread' = [thread EXCEPT !.at = "Built"]
  /\ spoiled' = [spoiled EXCEPT !.misfit = FALSE]
  /\ UNCHANGED <<setup, out, ring, errors, stop, flag, filters, gain, held, update, known,
                 infos, songs, updates, due, heard>>

RaiseFlag ==
  /\ thread.at = "Built"
  /\ flag' = Active(thread.eq) /\ held' = FALSE
  /\ thread' = [thread EXCEPT !.at = "Open", !.try = @ + 1]
  /\ UNCHANGED <<setup, out, ring, errors, stop, pending, filters, gain, update, known,
                 infos, songs, updates, ghosts>>

\* open_with_format: the device accepts, and the output takes the equaliser.
Accepted ==
  /\ Trying("Open")
  /\ LET try == Tries[thread.try]
         prefill == IF thread.song.kind = "Song" THEN setup.prefill ELSE 0
     IN  /\ out' = IF try.late THEN Closed
                   ELSE [open |-> TRUE, rate |-> try.rate,
                         eq |-> IF IsDsd(thread.song) THEN None ELSE pending]
         /\ pending' = IF IsDsd(thread.song) THEN pending ELSE None
         /\ IF try.late THEN EndWith("Failed")
            ELSE thread' = [thread EXCEPT !.at = "Prefill", !.left = prefill]
         /\ due' = prefill
  /\ ring' = 0 /\ errors' = 0 /\ heard' = 0
  /\ UNCHANGED <<setup, stop, flag, filters, gain, held, update, known, infos, songs,
                 updates, spoiled>>

Refused ==
  /\ Trying("Open")
  /\ thread' = [thread EXCEPT !.try = @ + 1]
  /\ UNCHANGED <<setup, out, ring, errors, stop, dsp, update, songs, updates, due, heard,
                 spoiled>>

\* The device that is configured is not there.
NotFound ==
  /\ thread.at = "Open" /\ thread.try = 1
  /\ EndWith(Failure)
  /\ UNCHANGED <<setup, out, ring, errors, stop, dsp, update, songs, updates, ghosts>>

GiveUp ==
  /\ thread.at = "Open" /\ thread.try > Len(Tries)
  /\ EndWith(Failure)
  /\ UNCHANGED <<setup, out, ring, errors, stop, dsp, update, songs, updates, ghosts>>

-----------------------------------------------------------------------------
(* The device. *)

Play ==
  /\ out.open /\ (ring > 0 \/ errors > 0)
  /\ LET n == Least(Period, ring) IN ring' = ring - n /\ heard' = heard + n
  /\ errors' = 0
  /\ UNCHANGED <<setup, thread, out, stop, dsp, update, songs, updates, due, spoiled>>

Error ==
  /\ out.open /\ errors < Threshold /\ errors' = errors + 1
  /\ UNCHANGED <<setup, thread, out, ring, stop, dsp, update, songs, updates, ghosts>>

-----------------------------------------------------------------------------
(* The command thread and the task of events. *)

Stop ==
  /\ thread.at # "Idle" /\ ~stop /\ stop' = TRUE
  /\ UNCHANGED <<setup, thread, out, ring, errors, dsp, update, songs, updates, ghosts>>

\* PlayerInfoEvent: DspProcessor learns the rate of the song, not of the output.
Learn ==
  /\ infos # <<>> /\ update.at = "Idle"
  /\ known' = Head(infos) /\ infos' = Tail(infos)
  /\ UNCHANGED <<setup, thread, out, ring, errors, stop, pending, flag, filters, gain, held,
                 update, songs, updates, ghosts>>

\* Mutant: the settings are replaced while the playback thread builds with them.
Unlocked == TRUE

Lockable == ~held

\* update_settings: the settings, then an equaliser for the rate known, then the flag.
SetFilters ==
  /\ update.at = "Idle" /\ Lockable
  /\ updates < MaxUpdates /\ updates' = updates + 1
  /\ \E f \in Filters \ {filters} : filters' = f
  /\ update' = [NoUpdate EXCEPT !.at = "Build"]
  /\ UNCHANGED <<setup, thread, out, ring, errors, stop, pending, flag, gain, held, known,
                 infos, songs, ghosts>>

BuildUpdate ==
  /\ update.at = "Build"
  /\ update' = IF known = NoRate THEN [at |-> "Flag", eq |-> None]
               ELSE [at |-> "Slot", eq |-> Equaliser(known)]
  /\ UNCHANGED <<setup, thread, out, ring, errors, stop, dsp, songs, updates, ghosts>>

FillSlot ==
  /\ update.at = "Slot"
  /\ pending' = update.eq
  /\ update' = [update EXCEPT !.at = "Flag"]
  /\ spoiled' = [spoiled EXCEPT !.misfit = update.eq.rate # thread.eq.rate]
  /\ UNCHANGED <<setup, thread, out, ring, errors, stop, flag, filters, gain, held, known,
                 infos, songs, updates, due, heard>>

\* Without a rate nothing is built and filtering is off.
SetFlag ==
  /\ update.at = "Flag"
  /\ flag' = Active(update.eq)
  /\ update' = NoUpdate
  /\ spoiled' = [spoiled EXCEPT !.skipped = @ \/ update.eq = None]
  /\ UNCHANGED <<setup, thread, out, ring, errors, stop, pending, filters, gain, held, known,
                 infos, songs, updates, due, heard>>

Playback == \/ Again \/ Exit \/ Stopped \/ Decode \/ WritePacket \/ WriteBroken
            \/ PushPart \/ PushFails \/ LastPacket \/ Drained \/ DrainCut
            \/ Rebuild \/ PutSlot \/ RaiseFlag \/ Accepted \/ Refused \/ NotFound \/ GiveUp
Updating == SetFilters \/ BuildUpdate \/ FillSlot \/ SetFlag
Next == Begin \/ Playback \/ Play \/ Error \/ Stop \/ Learn \/ Updating

\* The thread runs, and what it waits for has a time limit; the device need not.
Spec == Init /\ [][Next]_vars /\ WF_vars(Playback)

-----------------------------------------------------------------------------
(* Properties. *)

Settled == out.open /\ ~IsDsd(thread.song) /\ pending = None /\ update.at = "Idle"

\* Between updates, what plays goes through an equaliser with the settings applied
\* last, built for the rate of the output and the gain of the song, and it is
\* applied if it has a filter. An update before the first rate is known
\* switches it off, one that overlaps the building of an output may leave its flag
\* and gain, and one while the output resamples is built for the wrong rate
\* (DspHandle, DspProcessor::update_settings).
EqualiserFits ==
  Settled =>
    /\ spoiled.skipped \/ out.eq.set = filters
    /\ spoiled.skipped \/ spoiled.raced \/ Applied = out.eq \/ ~Active(out.eq)
    /\ spoiled.misfit \/ out.eq.rate = out.rate
    /\ spoiled.raced \/ thread.song.kind = "Session" \/ out.eq.gain = thread.song.gain

\* A song that ends by itself has been heard to its last sample, unless the device
\* failed or stood still (push_to_ring, drain).
HeardOut == thread.at = "End" /\ thread.result = "Finished" /\ ~thread.cut /\ due > 0
              => heard = due

\* A song fails to open on a device that is there only when that has refused every
\* usual rate it claims, in every buffer size, provided it claims the song's own
\* (AudioOutput::new, fallback_rate_candidates).
EveryRateTried ==
  /\ thread.at = "End" /\ thread.result = "Failed" /\ ~IsDsd(thread.song)
  /\ thread.try > 1
  /\ Resample(setup, thread.song) = NoRate
  => {r \in Range(Standard) : Claims(setup.claims, r)} \X (1..Sizes(setup, thread.song))
       \subseteq {<<Tries[i].rate, Tries[i].size>> : i \in 1..(thread.try - 1)}

\* A stop always ends the thread, even when the device takes nothing any more: the
\* command thread waits for it (push_to_ring, drain).
StopEnds == stop ~> thread.at = "Idle"
=============================================================================
