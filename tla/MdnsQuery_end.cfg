\* One query in a flood of responses.
CONSTANTS
  host = host
  sub = sub
  Node = {n1}
  Name = {host, sub}
  Endpoint = {e}
  Query = {q1}
  Id = {0, 1}
  Attempts = 3
  MaxDeque = 2
  Contains <- MCContains
  Foreign <- MCForeign
  None = None
SPECIFICATION FairSpec
PROPERTIES
  QueriesEnd
