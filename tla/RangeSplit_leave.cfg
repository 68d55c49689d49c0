SPECIFICATION StallSpec
CONSTANTS
  l1 = l1
  l2 = l2
  Links = {l1, l2}
  WorkersPerLink = 1
  MaxAttempts = 2
  MaxSlice = 1
  Overrun = 0
  DrainBuf = 1
  ChunkTarget = 1
  MaxChunks = 3
  Decisions <- MiddleThree
  Totals <- FewTotals
  Faulty = {l1, l2}
  ClientMayLeave = TRUE
  SpoolFaults = FALSE
CHECK_DEADLOCK FALSE
INVARIANT DeliveryInv
PROPERTIES KeepsPromise SpoolAppendOnly FetchersStop
