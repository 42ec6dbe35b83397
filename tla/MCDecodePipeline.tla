-------------------------- MODULE MCDecodePipeline ---------------------------
(* Images of one or two rows against limits of one row and two; a job's      *)
(* start frame may be 0 or 1; gain maps are left to the trait's no-op.       *)
EXTENDS DecodePipeline

MCSupported == {"stop", "limits", "start_frame"}
MCSettings == MCSupported \cup {"extract_gain_map"}
MCArguments == [stop |-> {1}, limits |-> {1, 2}, start_frame |-> {0, 1}, extract_gain_map |-> {1}]
MCHeights == {1, 2}
MCPictures == {0}
=============================================================================
