--------------------------- MODULE MCFrameReader ---------------------------
(***************************************************************************)
(* Instances of FrameReader for TLC: one whose stream limit comes from     *)
(* max_frame_size and one where the default limit is the larger.           *)
(***************************************************************************)
EXTENDS FrameReader, TLC
=============================================================================
