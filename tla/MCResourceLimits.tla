--------------------------- MODULE MCResourceLimits --------------------------
(* A u32 of 2 bits, hence a u64 of 4: 3 x 3 pixels wrap in 2 frames, and in  *)
(* 3 bytes each.                                                             *)
EXTENDS ResourceLimits

MCMeasures == {"input_size"}
MCMaxima == [l \in Limits |->
  CASE l = "width" -> {1}
    [] l = "height" -> {2}
    [] l = "pixels" -> {4, 15}
    [] l = "frames" -> {1}
    [] l = "total_pixels" -> {5, 15}
    [] l = "memory" -> {2, 15}
    [] l = "input_size" -> {0}]
MCDimensions == {0, 1, 3}
MCBytesPerPixel == {1, 3}
MCCounts == {2, None}
MCAmounts == {0, 1}
=============================================================================
