\* Three threads install, retry after failures and install again.
CONSTANTS
  Thread = {t1, t2, t3}
  Requests <- MCRequests
  Fallible = {"h3", "http"}
  Nil = Nil
SYMMETRY Symmetry
SPECIFICATION InstallSpec
INVARIANTS
  NoDuplicateSource
  OkIsComplete
