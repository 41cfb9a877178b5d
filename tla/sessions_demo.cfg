SPECIFICATION SessionsSpec
CONSTANTS
  run1 = run1
  run2 = run2
  demo1 = demo1
  headless1 = headless1
  Demos = {demo1}
  VisibleTests = {}
  HeadlessTests = {headless1}
  KeepArtifacts = {headless1}
  MaxStarts = 1
CHECK_DEADLOCK FALSE
PROPERTIES
  DemoEnds
