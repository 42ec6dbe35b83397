---------------------------- MODULE Capabilities ----------------------------
(***************************************************************************)
(* What a codec says of itself (src/src/capabilities.rs): the set of its      *)
(* flags that are on.  The tuning and thread ranges are left out.            *)
(***************************************************************************)
EncodeFlags ==
  {"icc", "exif", "xmp", "cicp", "stop", "animation", "push_rows", "encode_from", "lossy",
   "lossless", "hdr", "gain_map", "native_gray", "native_16bit", "native_f32",
   "native_alpha", "enforces_max_pixels", "enforces_max_memory"}

DecodeFlags ==
  {"icc", "exif", "xmp", "cicp", "stop", "animation", "multi_image", "cheap_probe",
   "decode_into", "streaming", "hdr", "gain_map", "native_gray", "native_16bit",
   "native_f32", "native_alpha", "enforces_max_pixels", "enforces_max_memory",
   "enforces_max_input_bytes"}

EncodeCapabilities == SUBSET EncodeFlags
DecodeCapabilities == SUBSET DecodeFlags

(* EncodeCapabilities::EMPTY, DecodeCapabilities::EMPTY: every flag is off. *)
EncodeEmpty == {}
DecodeEmpty == {}

(* with_*(v): each sets or clears its flag.                                  *)
encode_with(caps, flag, v) == IF v THEN caps \cup {flag} ELSE caps \ {flag}
decode_with(caps, flag, v) == IF v THEN caps \cup {flag} ELSE caps \ {flag}

EncodeOperations == {"RowLevelEncode", "PullEncode", "AnimationEncode"}
DecodeOperations == {"DecodeInto", "RowLevelDecode", "AnimationDecode", "MultiImageDecode"}
UnsupportedOperation == EncodeOperations \cup DecodeOperations \cup {"PixelFormat"}

(* EncodeCapabilities::supports: an operation of the other side is not.      *)
encode_supports(caps, op) ==
  \/ op = "RowLevelEncode" /\ "push_rows" \in caps
  \/ op = "PullEncode" /\ "encode_from" \in caps
  \/ op = "AnimationEncode" /\ "animation" \in caps

decode_supports(caps, op) ==
  \/ op = "DecodeInto" /\ "decode_into" \in caps
  \/ op = "RowLevelDecode" /\ "streaming" \in caps
  \/ op = "AnimationDecode" /\ "animation" \in caps
  \/ op = "MultiImageDecode" /\ "multi_image" \in caps
=============================================================================
