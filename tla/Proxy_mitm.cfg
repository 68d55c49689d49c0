SPECIFICATION Spec
CONSTANTS
  l1 = l1
  l2 = l2
  h1 = h1
  r1 = r1
  r2 = r2
  Links = {l1, l2}
  Hosts = {h1}
  Conns = {}
  Reqs = {r1, r2}
  Kinds = {"get", "post", "upload", "upgrade"}
  Scored = TRUE
  ColdStart = 1
  Latencies = {1}
  LatencyUnit = 2
  Rates = {1}
  Addresses = {1, 2}
  Flaky = {}
  MaxFlaps = 1
  MaxDials = 2
  Refusing = {}
  MaxUnits = 1
  Failing = {l1, l2}
  BadCerts = TRUE
INVARIANTS TypeOK ActiveIsInUse SentOnce
PROPERTY PinHolds
