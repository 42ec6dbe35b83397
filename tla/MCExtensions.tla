----------------------------- MODULE MCExtensions ----------------------------
(* Two or three clones, two types, three values: enough for a value shared by *)
(* clones that insert, remove and drop at the same time.                     *)
EXTENDS Extensions
=============================================================================
