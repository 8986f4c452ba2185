SPECIFICATION Spec
CONSTANTS
  r1 = r1
  r2 = r2
  r3 = r3
  owner = owner
  other = other
  guest = guest
  d1 = d1
  n1 = n1
  n2 = n2
  s1 = s1
  s2 = s2
  None = None
  Request <- Requests
  Account <- Accounts
  Members <- Known
  Id <- Ids
  Name <- Names
  Shape <- Shapes
  Saved <- Stored
SYMMETRY Alike
INVARIANTS OneAccountPerEmail SnapshotMatchesResult
PROPERTY SavesStayApart
CHECK_DEADLOCK FALSE
