SPECIFICATION Spec
CONSTANTS
  Requests = {q1, q2}
  Heads = {h1, h2}
  Pulls = {n1, n2}
  None = None
  Proposals <- SomeProposals
  MaxMain = 3
  q1 = q1
  q2 = q2
  h1 = h1
  h2 = h2
  n1 = n1
  n2 = n2
SYMMETRY AnyRequest
INVARIANTS
  TypeOK
  MainIsMaintained
  AttestationsArePermanent
