\* One consumer; nobody is cancelled, so that every close() must return.
CONSTANTS
  Consumers = {c1}
  Closers = {k1, k2}
  Cancellable = {}
  Capacity = 3
  Mode = "FAIL_FAST"
  MaxEvents = 4
SPECIFICATION FairSpec
CHECK_DEADLOCK FALSE
INVARIANTS
  GaplessWhileOpen
  FailureStaysObservable
  NobodyParkedAfterTerminal
  TerminalReportsAgree
PROPERTIES
  CloseReturns
  ParkedNextSettles
  ClosingEnds
