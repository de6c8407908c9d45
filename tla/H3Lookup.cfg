\* Two lookups, a publication of their name, other publishers, a bounded clock.
CONSTANTS
  Name = {own}
  Self = own
  Kind = {k1}
  Lookup = {l1, l2}
  Publisher = {p1}
  Attempts = 2
  Timeout = 1
  MaxTtl = 1
  MaxVersion = 1
  MaxNow = 2
  None = None
SPECIFICATION FairSpec
CHECK_DEADLOCK FALSE
INVARIANTS
  OnlyCrossedIsOld
PROPERTIES
  BoundedStaleness
  LookupsEnd
