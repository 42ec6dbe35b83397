-------------------------- MODULE MCEncodePipeline ---------------------------
(* Images of up to three rows and animations of up to three frames; a pixel  *)
(* of RGBA is as wide as two of RGB, so rows of different shapes can agree    *)
(* in bytes.                                                                 *)
EXTENDS EncodePipeline

MCBytesPerPixel == [rgb |-> 1, rgba |-> 2]

MCSrgba8 == [make_opaque \in BOOLEAN |-> "rgba"]

MCSettings == {"loop_count", "extensions"}
MCArguments == [loop_count |-> {None, 0}, extensions |-> {1}]
=============================================================================
