CONSTANTS
  Consumers = {c1, c2}
  Closers = {k1, k2}
  Cancellable = {k1}
  Capacity = 2
  Mode = "DROP_OLDEST"
  MaxEvents = 3
SPECIFICATION Spec
SYMMETRY Symmetry
CHECK_DEADLOCK FALSE
INVARIANTS
  TypeOK
  NoLostWakeup
  ClosedIsQuiescent
  TerminalLast
  WireOrder
  KeepsNewest
  OnlyPoisonedSocketsLeak
PROPERTY ImplementsSubscription
