------------------------- MODULE MCConnectionBundle -------------------------
(***************************************************************************)
(* Instances of ConnectionBundle for TLC.                                  *)
(***************************************************************************)
EXTENDS ConnectionBundle, TLC
=============================================================================
