SPECIFICATION FairSpec
CONSTANTS
  Capacity = 1
  MaxResult = 2
  MaxWritten = 3
  PackageFiles = {"attested_runtime.py", "dependency.py"}
  ResultChunks = 2
INVARIANTS
  AdapterTypeOK
  ReturnedIsWhole
  EnvelopeIsPromoted
PROPERTY EvaluationEnds
