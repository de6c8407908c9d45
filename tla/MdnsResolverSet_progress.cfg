\* Every call returns, unless its caller drops it.
CONSTANTS
  Binding = {b1}
  Slot = {s1, s2}
  Caller = {c1, c2}
  Maintainer = {}
  Ops = {"upsert", "remove", "shutdown", "stop", "hold", "cancel"}
  None = None
SPECIFICATION FairSpec
INVARIANTS
  UnownedOnlyAfterClose
PROPERTIES
  CallsReturn
  ImplementsRegistry
