\* The records of a server.
SPECIFICATION ServerSpec
CHECK_DEADLOCK FALSE
CONSTANTS
  k1 = k1
  k2 = k2
  V4 <- MCV4
  V6 <- MCV6
  Sequence = {0, 1}
  MaxSequence = 16384
  Load = {}
  Key = {k1, k2}
  Scheme <- MCScheme
  SigLen = 2
  MaxCalls = 1
  None = None
INVARIANT
  SignedCarriesSignature
