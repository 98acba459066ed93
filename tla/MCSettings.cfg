CONSTANTS
  Share = {"nas"}
  External = {"ext"}
  Local = {}
  Devices = {"Software", "Firmware"}
  Page = {p, q}
  MaxLevel = 2
  MaxMoves = 2
  MaxPosts = 2
SPECIFICATION Spec
INVARIANTS MountsAreSources Synced VolumeKept
PROPERTIES MuteRestores
SYMMETRY Browsers
CHECK_DEADLOCK FALSE
