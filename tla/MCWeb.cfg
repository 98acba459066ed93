CONSTANTS
  Client = {c1, c2}
  Editor = c1
  Wireless = {c1}
  Song = {s1, s2}
  MaxVolume = 1
  Alsa = TRUE
  Room = 1
  Slots = 3
  MaxActs = 2
  MaxFaults = 1
  Shelf <- MCShelf
  Hits <- MCHits
  MaxPending = 2
  MaxSteps = 6
  Title = {"x", "y"}
  PanelSlots = 2
  MaxNews = 2
  MaxPulls = 2
SPECIFICATION WebSpec
INVARIANTS InStep PageFaithful Browsable PanelShows
PROPERTY Reconnects
CHECK_DEADLOCK FALSE
