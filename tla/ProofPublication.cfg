SPECIFICATION FairSpec
CONSTANTS
  Invocations = {p1}
  Heads = {h1, h2}
  Bases = {b1, b2}
  Sources = {s1, s2}
  Permits <- SomePermits
  Configs <- SomeConfigs
  None = None
  PullStates <- AnyPull
  p1 = p1
  h1 = h1
  h2 = h2
  b1 = b1
  b2 = b2
  s1 = s1
  s2 = s2
INVARIANTS
  TypeOK
  ReportIsProven
  HeldTokensAreReturned
PROPERTIES
  OnlyPromotedPermitsArePosted
  OnlyOpenCandidatesArePosted
  InvocationsEnd
