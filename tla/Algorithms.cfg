SPECIFICATION Spec
CONSTANTS
  ChunkTarget = 3
  MaxChunks = 5
  MaxInt = 7
  Threshold = 3
  Malformed = Malformed
  Star = Star
  Starts = {0, 1, 7}
  Sizes = {1, 2, 3, 4, 5, 6, 7, 8, 9, 10, 11, 12, 13, 14, 15, 16, 17, 18, 19, 20}
  MaxLinks = 3
  Weights = {0, 1, 2, 3}
  Turns = {0, 1, 2, 3, 4, 5, 7, 11}
  Capacity = 4
  ra = ra
  rb = rb
  Records = {ra, rb}
  NoRecord = NoRecord
INVARIANTS Tiling DecisionIsSound FairShare
PROPERTY SnapshotIsRecent
CHECK_DEADLOCK FALSE
