SPECIFICATION Spec
CONSTANTS
  Invocations = {p1, p2}
  Exports = {e1}
  Heads = {h1}
  Bases = {b1, b2}
  Runs = {q1}
  p1 = p1
  p2 = p2
  e1 = e1
  h1 = h1
  h2 = h2
  b1 = b1
  b2 = b2
  q1 = q1
  q2 = q2
  ExportOf <- OneExport
  Activations <- Renewals
  Disabled = Disabled
  PullStates <- AlwaysReady
  MaxTime = 1
SYMMETRY Interchangeable
INVARIANTS
  TypeOK
  AtMostOneCheckPost
  CredentialsNeedReservation
  OutcomeTruthful
  SuccessIsProven
  TokensAreReturned
PROPERTIES
  JournalIsAppendOnly
  ConclusiveOutcomesAreFinal
  PublishesOnce
