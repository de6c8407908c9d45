\* A single caller that serializes its calls.
CONSTANTS
  Binding = {b1, b2, b3}
  Slot = {s1, s2}
  Caller = {c1}
  Maintainer = {}
  Ops = {"upsert", "remove", "reconcile", "shutdown"}
  None = None
SPECIFICATION Spec
INVARIANTS
  RetireBeforeCreate
  ReconcileConverges
PROPERTY
  DesiredSurvives
