SPECIFICATION Spec
CONSTANTS
  Jobs = {j1, j2}
  JobOf <- BothPrograms
  Places = {"evidence", "permit"}
  OutOf <- SamePlaces
  None = None
  Main = {c1, c2}
  Revisions = {c1, c2}
  Trees <- TwoTrees
  GovernanceOf <- TwoCommits
  Wires <- SomeWires
  Heads = {h1, h2}
  Bases = {b1}
  Paths = {doc, code}
  OtherReasons = {other}
  PageSize = 2
  MaxListed = 4
  MaxPages = 2
  j1 = j1
  j2 = j2
  h1 = h1
  h2 = h2
  b1 = b1
  doc = doc
  code = code
  other = other
  c1 = c1
  c2 = c2
INVARIANTS
  TypeOK
  PermitIsEarned
PROPERTY PermitFollowsEvidence
