CONSTANTS
  Calls = {r1, r2}
  Paths = {p1, p2}
SPECIFICATION ResponsiveSpec
CHECK_DEADLOCK FALSE
INVARIANT OnlyFailedReadsLeak
PROPERTY RequestSettles
