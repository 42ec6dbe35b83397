----------------------------- MODULE SourceColor ----------------------------
(***************************************************************************)
(* What a codec says about the colours of an image (SourceColor of          *)
(* src/src/info.rs) and what is made of it (src/src/helpers/icc.rs).  CICP   *)
(* code points and an ICC profile may both be there; color_authority says    *)
(* which of them counts.  A colour is a pair of primaries and a transfer     *)
(* function; CICP code points are the pair they name.  A profile is what     *)
(* zenpixels finds in it: the pair identify_common knows it by, or None, and *)
(* the CICP in its cicp tag, or None.                                       *)
(***************************************************************************)
EXTENDS Option

CONSTANTS Cicps,         (* colours that CICP code points may name           *)
          Profiles       (* ICC profiles                                     *)

Colour(p, t) == [primaries |-> p, transfer |-> t]
Unknown == Colour("Unknown", "Unknown")
LegacyDefault == Colour("Bt709", "Srgb")

(* Transfer characteristics 16 and 18. *)
IsHdr(colour) == colour.transfer \in {"Pq", "Hlg"}

(* A profile zenpixels identifies as PQ or HLG has a cicp tag that says so.  *)
ASSUME ColorAssumption ==
  /\ None \notin Cicps \cup Profiles
  /\ \A c \in Cicps : c = Colour(c.primaries, c.transfer)
  /\ \A p \in Profiles : p.identified # None /\ IsHdr(p.identified)
                           => p.cicp # None /\ IsHdr(p.cicp)

(* SourceColor as far as colour goes; bit depth and channel count are set    *)
(* and read one by one, like the HDR volumes.                                *)
SourceColors ==
  [cicp : Cicps \cup {None}, icc_profile : Profiles \cup {None}, color_authority : {"Cicp", "Icc"}]

DefaultColor == [cicp |-> None, icc_profile |-> None, color_authority |-> "Icc"]

(* with_cicp, with_icc_profile, with_color_authority *)
With(color, field, value) == [color EXCEPT ![field] = value]

(* Mutant of has_hdr_transfer: CICP, where there is one, decides. *)
has_hdr_transfer_cicp_decides(color) ==
  IF color.cicp # None THEN IsHdr(color.cicp)
  ELSE color.icc_profile # None /\ color.icc_profile.cicp # None /\ IsHdr(color.icc_profile.cicp)

has_hdr_transfer(color) ==
  \/ color.cicp # None /\ IsHdr(color.cicp)
  \/ /\ color.icc_profile # None
     /\ color.icc_profile.cicp # None
     /\ IsHdr(color.icc_profile.cicp)

(* What CICP alone says of a SourceColor, of an ImageInfo and of Metadata; a   *)
(* code point that is not known names Unknown.                                *)
transfer_function(described) ==
  IF described.cicp = None THEN "Unknown" ELSE described.cicp.transfer

color_primaries(described) ==
  IF described.cicp = None THEN "Bt709" ELSE described.cicp.primaries

(* Only the authoritative field, or whatever is there in its absence.        *)
to_color_context(color) ==
  IF color.color_authority = "Cicp" /\ color.cicp # None
  THEN [icc |-> None, cicp |-> color.cicp]
  ELSE IF color.color_authority = "Icc" /\ color.icc_profile # None
  THEN [icc |-> color.icc_profile, cicp |-> None]
  ELSE [icc |-> color.icc_profile, cicp |-> color.cicp]

(* ColorContext::as_profile_source and resolve_profile_source; what the       *)
(* pixels were corrected to goes before both.                                 *)
Identified(profile) == IF profile.identified = None THEN Unknown ELSE profile.identified

resolve_color(color, corrected_to) ==
  LET context == to_color_context(color)
  IN IF corrected_to # None THEN corrected_to
     ELSE IF context.cicp # None THEN context.cicp
     ELSE IF context.icc # None THEN Identified(context.icc)
     ELSE LegacyDefault

descriptor_for_decoded_pixels(format, color, corrected_to) ==
  [format |-> format, colour |-> resolve_color(color, corrected_to)]
=============================================================================
