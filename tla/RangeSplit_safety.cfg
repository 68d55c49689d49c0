SPECIFICATION Spec
CONSTANTS
  l1 = l1
  l2 = l2
  Links = {l1, l2}
  WorkersPerLink = 2
  MaxAttempts = 2
  MaxSlice = 2
  Overrun = 1
  DrainBuf = 2
  ChunkTarget = 2
  MaxChunks = 2
  Decisions <- Uneven
  Totals <- ProbeTotals
  Faulty = {l1, l2}
  ClientMayLeave = FALSE
  SpoolFaults = FALSE
SYMMETRY Symmetric
INVARIANTS TypeOK PromisedIsThere DeliveredPrefix TruncationHasCause
           OneFetcherPerChunk ActiveIsAttempts NoSpoolLeak NoOrphanChunk
