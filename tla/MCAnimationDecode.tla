-------------------------- MODULE MCAnimationDecode --------------------------
(* Up to three frames of up to two rows; the job may start past the last frame. *)
EXTENDS AnimationDecode

MCHeights == {1, 2}
MCPictures == 0..2
=============================================================================
