SPECIFICATION Spec
CONSTANTS
  None = None
  Login = Login
  Admins = {a1, a2}
  Installations = {i1, i2}
  Apps = {p1, p2}
  Repos = {r1}
  Tokens = {t1}
  Checks = {k1}
  MaxRows = 2
SYMMETRY Symmetry
INVARIANTS PendingStateIsOwners VerifiedTwice LiveReadsWereOffered
CHECK_DEADLOCK FALSE
