SPECIFICATION FairSpec
CONSTANTS
  Jobs = {j1, j2}
  JobOf <- OneApproved
  Places = {"evidence", "receipt", "permit"}
  OutOf <- SamePlaces
  Packages = {r1, h2}
  Collector = collector
  None = None
  Main = {c1}
  Revisions = {c1}
  Trees <- ApprovedTrees
  GovernanceOf <- ApprovedHistory
  Ids = {gdc}
  Versions = {v1, v2}
  GdcPaths = {doc}
  Documents <- DocumentsOfCodex
  Wires <- SomeWires
  Heads = {h1, h2}
  Bases = {b1}
  Paths = {doc, code}
  OtherReasons = {other}
  PageSize = 2
  MaxListed = 4
  MaxPages = 2
  j1 = j1
  j2 = j2
  h1 = h1
  h2 = h2
  b1 = b1
  doc = doc
  code = code
  gdc = gdc
  v1 = v1
  v2 = v2
  r1 = r1
  collector = collector
  c1 = c1
  c2 = c2
  c3 = c3
  other = other
INVARIANTS
  TypeOK
  PermitFollowsRecord
  ReportsAreTrue
  PromotionsAreApproved
PROPERTIES
  FilesInTurn
  JobsEnd
