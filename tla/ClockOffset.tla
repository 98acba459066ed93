------------------------------ MODULE ClockOffset ------------------------------
(***************************************************************************)
(* The follower's estimate of its leader's clock                           *)
(* (src/crates/sync/src/clock.rs), from the pings that run_clock of        *)
(* follower.rs sends and run_clock_responder of leader.rs answers.         *)
(*                                                                         *)
(* Pings and answers are datagrams: they take any time within Delays, and  *)
(* one that is lost gives no sample. What the code keeps as a floating     *)
(* point number is a number of 1/Scale ticks here.                         *)
(***************************************************************************)
EXTENDS Integers, FiniteSets, Sequences, TLC

CONSTANTS
  Window, BestOf, MinSamples,   \* samples kept, used, and needed (30, 5, 5)
  Alpha,         \* a new median counts one part in Alpha (10)
  Theta,         \* leader clock - follower clock
  Delays,        \* how long a datagram may take
  Scale,         \* precision of the smoothed estimate
  MaxExchanges   \* bound: exchanges of a connection

ASSUME ClockAssumption ==
  /\ {Window, BestOf, MinSamples, Alpha, Scale, MaxExchanges} \subseteq Nat \ {0}
  /\ BestOf <= MinSamples /\ MinSamples <= Window
  /\ Theta \in Int /\ Delays \subseteq Nat

VARIABLES
  window,      \* the samples <<rtt, offset>> of the estimator, oldest first
  smoothed,    \* its estimate before rounding, in 1/Scale ticks
  published,      \* ClockState: an estimate has been published
  offset,      \* ClockState: offset_micros
  exchanges,   \* exchanges so far
  slowest      \* the largest round trip among those an estimate had to rest on

clockVars == <<window, smoothed, published, offset, exchanges, slowest>>

ClockInit ==
  /\ window = <<>> /\ smoothed = 0
  /\ published = FALSE /\ offset = 0
  /\ exchanges = 0 /\ slowest = 0

\* What the leader answers to a ping sent at t1 that took there to arrive, and when the
\* answer is received.
Exchange(there, back) ==
  [t1 |-> 0, t2 |-> there + Theta, t3 |-> there + Theta, t4 |-> there + back]

\* i64::midpoint rounds towards zero.
Midpoint(a, b) == IF a + b < 0 THEN -(-(a + b) \div 2) ELSE (a + b) \div 2

OffsetOf(x) == Midpoint(x.t2 - x.t1, x.t3 - x.t4)
RttOf(x)    == (x.t4 - x.t1) - (x.t3 - x.t2)

RttFirst(a, b) == a[1] < b[1] \/ (a[1] = b[1] /\ a[2] < b[2])

\* Mutant: the longest round trips are kept.
BestLast(samples) == SubSeq(SortSeq(samples, RttFirst), Len(samples) - BestOf + 1, Len(samples))

\* The samples with the shortest round trips.
Best(samples) == SubSeq(SortSeq(samples, RttFirst), 1, BestOf)

Median(best) ==
  LET offsets == SortSeq([i \in DOMAIN best |-> best[i][2]], <)
  IN  offsets[Len(offsets) \div 2 + 1]

\* f64::round of a number of 1/Scale ticks: halves away from zero.
RoundScaled(x) == IF x < 0 THEN -((Scale - 2 * x) \div (2 * Scale))
                  ELSE (2 * x + Scale) \div (2 * Scale)

\* The round trip within which BestOf of the samples were answered.
QuickOnes(samples) ==
  CHOOSE r \in {samples[i][1] : i \in DOMAIN samples} :
    /\ Cardinality({i \in DOMAIN samples : samples[i][1] <= r}) >= BestOf
    /\ Cardinality({i \in DOMAIN samples : samples[i][1] < r}) < BestOf

\* OffsetEstimator::add_sample.
AddSample ==
  /\ exchanges < MaxExchanges /\ exchanges' = exchanges + 1
  /\ \E there, back \in Delays :
       LET x    == Exchange(there, back)
           kept == IF Len(window) = Window THEN Tail(window) ELSE window
           now  == Append(kept, <<RttOf(x), OffsetOf(x)>>)
           new  == Scale * Median(Best(now))
       IN  /\ RttOf(x) >= 0
           /\ window' = now
           /\ IF Len(now) < MinSamples
              THEN UNCHANGED <<smoothed, published, offset, slowest>>
              ELSE /\ smoothed' = IF published THEN smoothed + (new - smoothed) \div Alpha ELSE new
                   /\ offset' = RoundScaled(smoothed')
                   /\ published' = TRUE
                   /\ slowest' = IF QuickOnes(now) > slowest THEN QuickOnes(now) ELSE slowest

\* A new connection starts with a new estimator and a new ClockState (run_clock).
Reconnect ==
  /\ exchanges > 0
  /\ window' = <<>> /\ smoothed' = 0 /\ published' = FALSE /\ offset' = 0
  /\ exchanges' = 0 /\ slowest' = 0

ClockNext == AddSample \/ Reconnect

ClockSpec == ClockInit /\ [][ClockNext]_clockVars

\* The published offset is off by at most half the longest round trip that BestOf of
\* the samples in the window needed: what queues and retries do to the other samples
\* never gets into the estimate, neither through the median nor through the smoothing
\* (module comment of clock.rs: "low-RTT samples carry the least asymmetry error").
ClockInBounds ==
  published => 2 * (offset - Theta) \in -(slowest + 2)..(slowest + 2)
=============================================================================
