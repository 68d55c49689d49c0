SPECIFICATION FairSpec
CONSTANTS
  l1 = l1
  l2 = l2
  h1 = h1
  c1 = c1
  r1 = r1
  Links = {l1, l2}
  Hosts = {h1}
  Conns = {c1}
  Reqs = {r1}
  Kinds = {"get", "post", "upload", "upgrade"}
  Scored = TRUE
  ColdStart = 1
  Latencies = {1}
  LatencyUnit = 2
  Rates = {1}
  Addresses = {1, 2}
  Flaky = {}
  MaxFlaps = 1
  MaxDials = 2
  Refusing = {l1}
  MaxUnits = 1
  Failing = {l2}
  BadCerts = FALSE
INVARIANT AnswerNamesCause
PROPERTIES LendsLinks EveryClientAnswered ViewSettles
