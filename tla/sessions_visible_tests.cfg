SPECIFICATION SessionsSpec
CONSTANTS
  run1 = run1
  run2 = run2
  demo1 = demo1
  headless1 = headless1
  Demos = {}
  VisibleTests = {run1, run2}
  HeadlessTests = {}
  KeepArtifacts = {run2}
  MaxStarts = 2
CHECK_DEADLOCK FALSE
INVARIANTS
  LockedWhileVisible
  CleanedUp
PROPERTIES
  NoRelaunchAfterSignature
  StartSettles
