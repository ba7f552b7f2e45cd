SPECIFICATION Spec
CONSTANTS
  Jobs = {j1}
  JobOf <- AttestedJob
  Places = {"evidence", "receipt", "permit"}
  OutOf <- OnePlace
  Packages = {r1, h2}
  Collector = collector
  None = None
  Main = {c1, c2}
  Revisions = {c1, c2, c3}
  Trees <- AllTrees
  GovernanceOf <- History
  Ids = {gdc}
  Versions = {v1, v2}
  GdcPaths = {doc}
  Documents <- DocumentsOfCodex
  Wires <- SomeWires
  Heads = {h1, h2}
  Bases = {b1}
  Paths = {doc, code}
  OtherReasons = {other}
  PageSize = 2
  MaxListed = 4
  MaxPages = 2
  j1 = j1
  j2 = j2
  h1 = h1
  h2 = h2
  b1 = b1
  doc = doc
  code = code
  gdc = gdc
  v1 = v1
  v2 = v2
  r1 = r1
  collector = collector
  c1 = c1
  c2 = c2
  c3 = c3
  other = other
INVARIANT AttestedRuntimeIsGoverned
