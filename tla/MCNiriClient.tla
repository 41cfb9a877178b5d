---------------------------- MODULE MCNiriClient ----------------------------
(***************************************************************************)
(* Instances of NiriClient for TLC.                                        *)
(***************************************************************************)
EXTENDS NiriClient, TLC

\* The calls are interchangeable, and so are the paths.
Symmetry == Permutations(Calls) \cup Permutations(Paths)
=============================================================================
