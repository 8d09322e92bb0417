SPECIFICATION BeatSpec
CONSTANTS
  MaximumHeartbeatDelay = 1
  MaxTimestamp = 4
  MaxBreak = 1
INVARIANTS AliveMeansHeard
