--------------------------- MODULE MCEventStream ---------------------------
(***************************************************************************)
(* Instances of EventStream for TLC.                                       *)
(***************************************************************************)
EXTENDS EventStreamProperties, TLC

\* Consumers are interchangeable, and so are closers that may not be cancelled.
Symmetry == Permutations(Consumers) \cup Permutations(Closers \ Cancellable)
=============================================================================
