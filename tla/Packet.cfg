\* Messages of one question and two records; a pointer reaches half of a message.
SPECIFICATION Spec
CHECK_DEADLOCK FALSE
CONSTANTS
  k1 = k1
  k2 = k2
  V4 <- MCV4
  V6 <- MCV6
  Sequence = {0, 1, 64}
  MaxSequence = 16384
  Load <- MCLoad
  Key = {k1, k2}
  Scheme <- MCScheme
  SigLen = 2
  MaxCalls = 2
  None = None
  Name <- MCName
  Plain <- MCPlain
  Lost = {0, 1, 15}
  MaxRecords = 2
  MaxOffset = 31
  MaxMessage = 80
  Id = 7
INVARIANTS
  FieldsAreFlagged
  VerifyExact
  LegacyKept
  ReadsBack
  NothingInvented
  GoodPrefixKept
