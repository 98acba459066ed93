------------------------------- MODULE MCOutput -------------------------------
(* Three devices: one claims a range and has a gain to apply, one claims    *)
(* two rates, one is set to the only rate it takes and resamples.          *)
EXTENDS Output

MCStandard == <<4, 3>>
MCSlow    == [rate |-> 3, gain |-> 0, kind |-> "Song"]
MCFast    == [rate |-> 4, gain |-> 1, kind |-> "Song"]
MCSession == [rate |-> 4, gain |-> 0, kind |-> "Session"]
MCDsd     == [rate |-> 6, gain |-> 0, kind |-> "Dsd"]
MCSetups  ==
  {[claims |-> <<<<3, 4>>>>, fixed |-> 0, sizes |-> 1, prefill |-> 1, songs |-> {MCSlow, MCFast}],
   [claims |-> <<<<4, 4>>, <<6, 6>>>>, fixed |-> 0, sizes |-> 2, prefill |-> 0, songs |-> {MCSlow, MCDsd}],
   [claims |-> <<<<3, 3>>>>, fixed |-> 3, sizes |-> 1, prefill |-> 0,
    songs |-> {MCFast, MCSession}]}
=============================================================================
