CONSTANTS
  Calls = {r1}
  Paths = {p1}
SPECIFICATION Spec
CHECK_DEADLOCK FALSE
INVARIANT RequestReleasesSocket
