---------------------------- MODULE MCTranscode -----------------------------
(* Colours and profiles that agree, disagree, are HDR or unknown; decoders   *)
(* of up to two formats; lists that want or take them in other colours.      *)
EXTENDS Transcode

P3 == Colour("DisplayP3", "Srgb")
BT2100 == Colour("Bt2020", "Pq")

Profile(identified, cicp) == [identified |-> identified, cicp |-> cicp]

MCCicps == {P3, BT2100}
MCProfiles == {Profile(P3, None), Profile(BT2100, BT2100), Profile(None, BT2100)}

D(format, colour) == [format |-> format, colour |-> colour]

MCNatives == {<<"rgb8">>, <<"rgba16", "rgb8">>, <<>>}
MCLists ==
  {<<>>, <<D("rgba8", P3), D("rgb8", LegacyDefault)>>,
   <<D("rgba16", LegacyDefault), D("rgba16", BT2100)>>, <<D("rgb8", P3), D("rgba16", P3)>>}
MCCorrections == {LegacyDefault}

(* Named levels, and each with an exception. *)
MCDecodePolicies ==
  {none, strict, Override(strict, "allow_icc", TRUE), Override(permissive, "allow_exif", FALSE)}
MCEncodePolicies ==
  {strip_all, OverrideEmbed(preserve_all, "embed_exif", FALSE)}

(* Codecs that carry everything, and such as know profiles only.              *)
MCDecoders == {DecodeFlags, decode_with(DecodeEmpty, "icc", TRUE)}
MCEncoders == {encode_with(EncodeFlags, "xmp", FALSE), encode_with(encode_with(EncodeEmpty, "icc", TRUE), "exif", TRUE)}
=============================================================================
