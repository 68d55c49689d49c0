SPECIFICATION ServeSpec
CONSTANTS
  Requests = {"tunnel", "plain", "intercept", "upgrade"}
  MaxUnits = 3
  Eager = TRUE
  MaxLines = 3
  DiskFaults = FALSE
INVARIANT UploadServed
CHECK_DEADLOCK FALSE
