\* Maintenance of two bindings, with a shutdown beside it.
CONSTANTS
  Binding = {b1, b2}
  Slot = {s1, s2}
  Caller = {c1}
  Maintainer = {m1}
  Ops = {"maintain", "shutdown"}
  None = None
SPECIFICATION RetrySpec
PROPERTIES
  ShutdownStopsMaintenance
  MaintenanceConverges
