\* Two queries of names one of which contains the other, with equal or different ids.
CONSTANTS
  host = host
  sub = sub
  Node = {n1}
  Name = {host, sub}
  Endpoint = {e}
  Query = {q1, q2}
  Id = {1, 2}
  Attempts = 1
  MaxDeque = 1
  Contains <- MCContains
  Foreign <- NoForeign
  None = None
SYMMETRY Symmetry
SPECIFICATION Spec
INVARIANTS
  OwnAnswer
  RegistrationIsRunning
  RegisteredUnlessShared
  NoStaleAnswer
