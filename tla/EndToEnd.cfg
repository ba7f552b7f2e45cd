SPECIFICATION WholeSpec
CONSTANTS
  Jobs = {j1}
  JobOf <- BootstrapJob
  Places = {"evidence", "receipt", "permit"}
  OutOf <- OnePlace
  Packages = {r1}
  Collector = collector
  None = None
  Main = {c1}
  Revisions = {c1}
  Trees <- BothTrees
  GovernanceOf <- OneCommit
  Ids = {gdc}
  Versions = {v1, v2}
  GdcPaths = {doc}
  Documents <- DocumentsOfCodex
  Wires <- OneWire
  Heads = {h1}
  Bases = {b1}
  Paths = {doc}
  OtherReasons = {}
  PageSize = 2
  MaxListed = 4
  MaxPages = 2
  j1 = j1
  h1 = h1
  b1 = b1
  doc = doc
  gdc = gdc
  v1 = v1
  v2 = v2
  r1 = r1
  collector = collector
  c1 = c1
  Invocations = {i1}
  Exports = {e1}
  ExportOf <- OneInvocation
  Runs = {q1}
  Configurations <- Candidates
  Unarmed = Unarmed
  PullStates <- ReadyPull
  MaxTime = 0
  ReviewOf <- Named
  i1 = i1
  e1 = e1
  q1 = q1
INVARIANT ChecksRestOnEvidence
