\* Deliveries of up to three response records, every kind of query.
CONSTANTS
  Bodies <- MCBodies
  Queries <- MCQueries
  HeaderSets <- MCHeaderSets
  MaxRecords = 3
  None = None
SPECIFICATION DecodeSpec
CHECK_DEADLOCK FALSE
INVARIANTS
  OnlyUsable
  ExactGroups
  CachedNoLongerThanFresh
  EmptyIsExplained
  StreamIsOneChain
