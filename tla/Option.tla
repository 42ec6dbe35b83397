------------------------------- MODULE Option --------------------------------
(* Option::None, where it is a value of its own.                             *)
CONSTANT None
=============================================================================
