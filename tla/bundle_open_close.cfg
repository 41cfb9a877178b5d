\* Two tasks close the bundle, one of which may be cancelled, and a third
\* closes the stream on its own.
SPECIFICATION FairBundleSpec
CONSTANTS
  Consumers = {c1}
  Closers = {k1, k2, k3}
  BundleClosers = {k1, k2}
  Cancellable = {k1}
  Capacity = 1
  Mode = "DROP_OLDEST"
  MaxEvents = 2
INVARIANTS UncancelledCloseCloses EventsCloseRepairs
PROPERTY BundleCloseReturns
CHECK_DEADLOCK FALSE
