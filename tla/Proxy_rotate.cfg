SPECIFICATION Spec
CONSTANTS
  l1 = l1
  l2 = l2
  h1 = h1
  c1 = c1
  Links = {l1, l2}
  Hosts = {h1}
  Conns = {c1}
  Reqs = {}
  Kinds = {}
  Scored = TRUE
  ColdStart = 1
  Latencies = {1, 2}
  LatencyUnit = 2
  Rates = {1}
  Addresses = {1, 2}
  Flaky = {}
  MaxFlaps = 0
  MaxDials = 2
  Refusing = {l1}
  MaxUnits = 0
  Failing = {}
  BadCerts = FALSE
PROPERTY RetryRotates
