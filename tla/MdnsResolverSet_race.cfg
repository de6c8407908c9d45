\* Concurrent upsert, remove and shutdown on one binding.
CONSTANTS
  Binding = {b1}
  Slot = {s1, s2, s3}
  Caller = {c1, c2, c3}
  Maintainer = {}
  Ops = {"upsert", "remove", "shutdown", "hold"}
  None = None
SYMMETRY Symmetry
SPECIFICATION Spec
INVARIANTS
  TypeOK
  ClosedStaysEmpty
  LiveIsOwned
  QuiescentAfterShutdown
  LiveHandleIsRegistered
  RegisteredIsUnstopped
