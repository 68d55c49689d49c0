SPECIFICATION Spec
CONSTANTS
  l1 = l1
  l2 = l2
  Links = {l1, l2}
  WorkersPerLink = 1
  MaxAttempts = 2
  MaxSlice = 2
  Overrun = 0
  DrainBuf = 1
  ChunkTarget = 2
  MaxChunks = 2
  Decisions <- Uneven
  Totals <- NoTotals
  Faulty = {}
  ClientMayLeave = FALSE
  SpoolFaults = TRUE
INVARIANT DeliveredPrefix
