SPECIFICATION FairSpec
CONSTANTS
  Invocations = {p1}
  Exports = {e1}
  Heads = {h1, h2}
  Bases = {b1, b2}
  Runs = {q1}
  p1 = p1
  p2 = p2
  e1 = e1
  h1 = h1
  h2 = h2
  b1 = b1
  b2 = b2
  q1 = q1
  q2 = q2
  ExportOf <- OneExport
  Activations <- OneActivation
  Disabled = Disabled
  PullStates <- AnyPull
  MaxTime = 1
PROPERTIES
  OnlyLiveCandidatesArePosted
  InvocationsEnd
