SPECIFICATION FairSpec
CONSTANTS
  l1 = l1
  l2 = l2
  Links = {l1, l2}
  WorkersPerLink = 1
  MaxAttempts = 2
  MaxSlice = 1
  Overrun = 0
  DrainBuf = 1
  ChunkTarget = 2
  MaxChunks = 2
  Decisions <- MiddleThree
  Totals <- NoTotals
  Faulty = {}
  ClientMayLeave = TRUE
  SpoolFaults = FALSE
CHECK_DEADLOCK FALSE
PROPERTIES SpoolsRemoved
