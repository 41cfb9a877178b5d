------------------------- MODULE MCNestedSessions -------------------------
(***************************************************************************)
(* Instances of NestedSessions: sessions that share a lock, and sessions    *)
(* that do not.                                                            *)
(***************************************************************************)
EXTENDS NestedSessions, TLC
CONSTANTS run1, run2, demo1, headless1
=============================================================================
