------------------------------- MODULE SyncSink -------------------------------
(***************************************************************************)
(* The sink of a follower, that plays each chunk at the time it is         *)
(* scheduled for (Pipeline of src/crates/playback/src/rsp/sync_sink.rs) by *)
(* what the output believes of its latency (audio_output.rs).              *)
(*                                                                         *)
(* Time is in ticks, a frame lasts one, a chunk ChunkLen. What matters of the *)
(* output is how late the next frame will really be heard (error), and     *)
(* what the measurement makes of it.                                       *)
(***************************************************************************)
EXTENDS Integers

CONSTANTS
  ChunkLen,        \* frames of a chunk
  Hard,         \* HARD_CORRECTION_MICROS (20 000)
  SlewStart, SlewStop,          \* hysteresis of the slow correction (5000, 1500)
  Slew,         \* frames a chunk may be stretched by
  Persistence,  \* chunks of evidence for a hard correction (8)
  Cooldown, Warmup,             \* chunks without corrections after one (2 s, 7 s)
  Smooth,       \* both filters take one part in Smooth of a new value (8)
  Freeze,       \* callbacks whose latency is taken into account (64)
  Latency,      \* how long the device really takes
  Reports,      \* what the driver may say of it
  Noise,        \* what a measurement may be off by
  Onsets,       \* how late the first chunk may be (negative: early)
  Jolts,        \* what else may happen to the error
  MaxJolts,     \* bound: how often
  Precision     \* the filtered error is kept in 1/Precision ticks

ASSUME SinkAssumption ==
  /\ {ChunkLen, Hard, SlewStart, SlewStop, Slew, Persistence, Smooth, Precision} \subseteq Nat \ {0}
  /\ {Cooldown, Warmup, Freeze, Latency, Noise, MaxJolts} \subseteq Nat
  /\ Reports \subseteq Nat \ {0} /\ Onsets \subseteq Int /\ Jolts \subseteq Int
  /\ SlewStop < SlewStart /\ SlewStart < Hard

VARIABLES
  pipeline,        \* the Pipeline
  error,       \* how late the next frame will really be heard
  latency,     \* device_latency_micros of the output
  callbacks,   \* cb_samples_taken of the output
  jolts,       \* disturbances so far
  side         \* the sides of its time the sink may be on, for cause

sinkVars == <<pipeline, error, latency, callbacks, jolts, side>>

Abs(x)        == IF x < 0 THEN -x ELSE x
Smaller(a, b)   == IF a < b THEN a ELSE b
Sign(x)       == IF x > 0 THEN 1 ELSE -1
RoundUp(x)    == IF x < 0 THEN -((Precision - 2 * x) \div (2 * Precision))
                 ELSE (2 * x + Precision) \div (2 * Precision)

Unaligned == [aligned |-> FALSE, streak |-> 0, sign |-> 0, cool |-> 0, ewma |-> 0,
              slewing |-> FALSE]

\* The error as a perfect measurement would have it.
Seen == error + latency - Latency

\* The sides a sink that is off by x may be found on.
Sides(x) == {s \in {-1, 1} : s * x >= 0}

SinkInit ==
  /\ pipeline = Unaligned /\ error \in Onsets
  /\ latency = 0 /\ callbacks = 0 /\ jolts = 0 /\ side = {-1, 1}

\* The callback of the output takes what the driver reports into account, as long as it
\* has not done so Freeze times.
Callback ==
  /\ callbacks < Freeze /\ callbacks' = callbacks + 1
  /\ \E r \in Reports :
       latency' = IF latency = 0 THEN r ELSE (latency * (Smooth - 1) + r) \div Smooth
  /\ side' = side \union Sides(error + latency' - Latency)
  /\ UNCHANGED <<pipeline, error, jolts>>

\* Drift of the device, a new estimate of the leader's clock, a chunk that was dropped on
\* the way, a ring that ran dry.
Jolt ==
  /\ jolts < MaxJolts /\ jolts' = jolts + 1
  /\ \E j \in Jolts : error' = error + j
  /\ side' = {-1, 1}
  /\ UNCHANGED <<pipeline, latency, callbacks>>

\* The error is filtered, but for the first chunk.
Filtered(raw) ==
  IF pipeline.aligned THEN pipeline.ewma + (Precision * raw - pipeline.ewma) \div Smooth
  ELSE Precision * raw

InCooldown == pipeline.aligned /\ pipeline.cool > 0

\* hard_streak: chunks in a row that call for a hard correction on the same side.
Streak(err) ==
  CASE Abs(err) <= Hard -> 0
    [] Abs(err) > Hard /\ (InCooldown \/ ~pipeline.aligned) -> pipeline.streak
    [] OTHER -> IF Sign(err) = pipeline.sign THEN pipeline.streak + 1 ELSE 1

StreakSign(err) ==
  IF Abs(err) > Hard /\ pipeline.aligned /\ ~InCooldown THEN Sign(err) ELSE pipeline.sign

\* Mutant: the slow correction starts where the hard one does.
SlewingLate(err) == Abs(err) > Hard

Slewing(err) == IF pipeline.slewing THEN Abs(err) >= SlewStop ELSE Abs(err) > SlewStart

\* full_correction.
Corrects(err) ==
  /\ Abs(err) > Hard
  /\ ~pipeline.aligned \/ (~InCooldown /\ Streak(err) >= Persistence)

\* Frames by which a late chunk is shortened, or an early one made longer.
Stretched(err) ==
  IF InCooldown \/ ~Slewing(err) THEN 0
  ELSE Smaller(Smaller(Abs(err), Slew), ChunkLen \div 2) * Sign(err)

\* Frames left out of a late chunk, all of them at most; or silence before an early one.
Spliced(err) == IF err > 0 THEN Smaller(err, ChunkLen) ELSE err

\* Mutant: the filter is not told of a stretch.
Untold(filtered, err) == filtered

\* The filtered error after a stretch.
Told(filtered, err) == filtered - Precision * Stretched(err)

Correct(err) ==
  /\ error' = error - Spliced(err)
  /\ pipeline' = [aligned |-> TRUE, streak |-> 0, sign |-> StreakSign(err), ewma |-> 0,
              slewing |-> FALSE, cool |-> IF pipeline.aligned THEN Cooldown ELSE Warmup]

Write(err, filtered) ==
  /\ error' = error - Stretched(err)
  /\ pipeline' = [aligned |-> TRUE, streak |-> Streak(err), sign |-> StreakSign(err),
              ewma |-> IF pipeline.aligned THEN Told(filtered, err) ELSE 0,
              slewing |-> Slewing(err),
              cool |-> IF ~pipeline.aligned THEN Warmup
                       ELSE IF pipeline.cool > 0 THEN pipeline.cool - 1 ELSE 0]

\* Pipeline::handle_chunk.
HandleChunk ==
  /\ \E noise \in -Noise..Noise :
       LET filtered == Filtered(Seen + noise)
           err      == RoundUp(filtered)
       IN  IF Corrects(err) THEN Correct(err) ELSE Write(err, filtered)
  /\ side' = IF pipeline.aligned THEN side ELSE Sides(error' + latency - Latency)
  /\ UNCHANGED <<latency, callbacks, jolts>>

SinkNext == Callback \/ Jolt \/ HandleChunk

\* Chunks keep coming, and so do the callbacks of the output.
SinkSpec == SinkInit /\ [][SinkNext]_sinkVars /\ WF_sinkVars(HandleChunk) /\ WF_sinkVars(Callback)

-----------------------------------------------------------------------------
(* Properties. *)

\* A correction never carries the sink past its time: a room that was late and that
\* nothing else disturbs is never made early, beyond what the sensor is off by
\* (handle_chunk: "the EWMA lags ~8 chunks behind and would overshoot otherwise").
NoOvershoot ==
  \A s \in {-1, 1} : s \notin side => s * Seen <= Noise + 1

\* Whatever happened, once nothing disturbs it any more the sink is within the band the
\* slow correction leaves alone, and stays there.
InBand == Abs(Seen) <= SlewStart + Noise + 1
Settles == <>[]InBand
=============================================================================
