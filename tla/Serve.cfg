SPECIFICATION ServeSpec
CONSTANTS
  Requests = {"tunnel", "plain", "intercept", "upgrade"}
  MaxUnits = 3
  Eager = TRUE
  MaxLines = 3
  DiskFaults = TRUE
INVARIANTS TypeOK InOrder CleanEnd EndHasCause EachLineOnce FileInOrder ExitKeeps
PROPERTIES ConnectionEnds LinesReachFile
CHECK_DEADLOCK FALSE
