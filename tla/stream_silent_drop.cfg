CONSTANTS
  Consumers = {c1}
  Closers = {}
  Cancellable = {}
  Capacity = 1
  Mode = "DROP_OLDEST"
  MaxEvents = 1
SPECIFICATION Spec
CHECK_DEADLOCK FALSE
INVARIANT OnlyWarnedDrops
