------------------------------ MODULE Transcode ------------------------------
(***************************************************************************)
(* An image goes from file to file: a codec reports its colour and metadata  *)
(* call by call, as far as it is capable and its decode policy lets it, the   *)
(* decoder and the caller negotiate the pixels' descriptor, and an encoder    *)
(* that supports them writes them with what Metadata::from(&ImageInfo) kept   *)
(* and its own policy embeds.  The codecs are external: they use the crate    *)
(* as its docs say.                                                          *)
(***************************************************************************)
EXTENDS SourceColor, PixelNegotiation, Policy, Capabilities

CONSTANTS Extras,        (* metadata beside cicp and icc_profile             *)
          Natives,       (* what decoders can produce: sequences of formats  *)
          Lists,         (* what callers prefer and encoders support:        *)
                         (* sequences of descriptors                         *)
          Corrections,   (* colours a decoder may convert pixels to          *)
          DecodePolicies, EncodePolicies,   (* what callers allow            *)
          Decoders, Encoders,               (* capabilities of codecs        *)
          MaxHops        (* bound: how often the image is written again      *)

Embedded == {"exif", "xmp"}
HdrVolume == {"content_light_level", "mastering_display"}

IsList(s) == Len(s) \in Nat /\ s = [i \in 1..Len(s) |-> s[i]]

ASSUME TranscodeAssumption ==
  /\ \A s \in Natives : IsList(s)
  /\ \A s \in Lists : IsList(s) /\ \A i \in DOMAIN s : s[i] # None
  /\ Extras \subseteq Embedded \cup HdrVolume
  /\ DecodePolicies \subseteq DecodePolicy /\ EncodePolicies \subseteq EncodePolicy
  /\ Decoders \subseteq DecodeCapabilities /\ Encoders \subseteq EncodeCapabilities
  /\ MaxHops \in Nat

VARIABLES file,          (* what the file says: colour and metadata          *)
          pixels,        (* history: the colour its pixels really have       *)
          original,      (* history: the metadata of the first file          *)
          todo,          (* with_* calls the codec has still to make         *)
          info,          (* ImageInfo                                        *)
          corrected_to,  (* what decode() was asked to convert to, or None   *)
          available, preferred, supported,  (* the parties' lists            *)
          output,        (* the descriptor negotiated, or None               *)
          careless,      (* history: what was lost on the way, and how       *)
          hops

lists == <<available, preferred, supported>>
vars == <<file, pixels, original, todo, info, corrected_to, lists, output, careless, hops>>

ColorFields == {"cicp", "icc_profile", "color_authority"}
Files == [color : SourceColors, extras : SUBSET Extras]

(* ImageInfo as far as a transcode hands it on; its dimensions are ResourceLimits', *)
(* its orientation is Metadata's.                                              *)
ImageInfo == [color : SourceColors, extras : SUBSET Extras]
NewInfo == [color |-> DefaultColor, extras |-> {}]

(* What a file's colour is, said without contexts and sources: the authority's *)
(* field, in its absence the other one, in the absence of both the default.    *)
CicpCounts(color) ==
  color.cicp # None /\ (color.color_authority = "Cicp" \/ color.icc_profile = None)
ProfileCounts(color) ==
  color.icc_profile # None /\ (color.color_authority = "Icc" \/ color.cicp = None)

Meaning(color) ==
  CASE CicpCounts(color) -> color.cicp
    [] ProfileCounts(color) -> Identified(color.icc_profile)
    [] OTHER -> LegacyDefault

(* The fields there are in a file.                                             *)
Carried(f) ==
  {field \in {"cicp", "icc_profile"} : f.color[field] # None} \cup {"color_authority"} \cup f.extras

(* The flags a field hangs on: of the codec's capabilities and of the policy.  *)
Flag == [icc_profile |-> "icc", cicp |-> "cicp", exif |-> "exif", xmp |-> "xmp"]
Allow == [icc_profile |-> "allow_icc", exif |-> "allow_exif", xmp |-> "allow_xmp"]
Embed == [icc_profile |-> "embed_icc", exif |-> "embed_exif", xmp |-> "embed_xmp"]

Capable(caps, field) == field \in DOMAIN Flag => Flag[field] \in caps

Extracted(f, policy, caps) ==
  {field \in Carried(f) :
     Capable(caps, field) /\ (field \in DOMAIN Allow => resolve(policy, Allow[field], TRUE))}

(* Fields left behind that matter.                                             *)
Lost(f, kept) ==
  {field \in Carried(f) \ kept :
     \/ field \in Extras
     \/ field = "cicp" /\ CicpCounts(f.color)
     \/ field = "icc_profile" /\ ProfileCounts(f.color)}

(* The codec opens a file: what it may not extract, it will not report.        *)
Open(f, policy, caps) ==
  /\ file' = f
  /\ todo' = Extracted(f, policy, caps)
  /\ info' = NewInfo
  /\ corrected_to' = None
  /\ available' = <<>> /\ preferred' = <<>> /\ supported' = <<>>
  /\ output' = None

Init ==
  /\ file \in Files
  /\ \E policy \in DecodePolicies, caps \in Decoders :
       todo = Extracted(file, policy, caps)
  /\ careless = Lost(file, todo)
  /\ pixels = Meaning(file.color)
  /\ original = file.extras
  /\ info = NewInfo
  /\ corrected_to = None
  /\ available = <<>> /\ preferred = <<>> /\ supported = <<>>
  /\ output = None
  /\ hops = 0

(* with_cicp, with_icc_profile, with_color_authority, in any order with those  *)
(* below.                                                                      *)
DescribeColor(field) ==
  /\ field \in todo
  /\ info' = [info EXCEPT !.color = With(@, field, file.color[field])]
  /\ todo' = todo \ {field}
  /\ UNCHANGED <<file, pixels, original, corrected_to, lists, output, careless, hops>>

(* EmbeddedMetadata::with_exif, with_xmp: a field that is there.               *)
WithExtra(extras, field) == extras \cup {field}

(* with_exif, with_xmp, with_content_light_level, with_mastering_display       *)
DescribeExtra(field) ==
  /\ field \in todo
  /\ info' = [info EXCEPT !.extras = WithExtra(@, field)]
  /\ todo' = todo \ {field}
  /\ UNCHANGED <<file, pixels, original, corrected_to, lists, output, careless, hops>>

(* A codec that extracts all of a group replaces it at once, whatever was set   *)
(* before: with_source_color and with_embedded_metadata.                       *)
DescribeGroup(group) ==
  /\ group \cap Carried(file) \subseteq todo
  /\ info' = [color |-> IF group = Embedded THEN info.color ELSE file.color,
              extras |-> (info.extras \ group) \cup (file.extras \cap group)]
  /\ todo' = todo \ group
  /\ UNCHANGED <<file, pixels, original, corrected_to, lists, output, careless, hops>>

(* decoder(preferred): pixels in one of the decoder's formats, labelled by the *)
(* colour they are in; a decoder that has none for this image gives none.      *)
Decode(native, wanted, accepted, target) ==
  /\ todo = {} /\ output = None
  /\ available' = [i \in DOMAIN native |->
                     descriptor_for_decoded_pixels(native[i], info.color, target)]
  /\ preferred' = wanted
  /\ supported' = accepted
  /\ output' = negotiate_pixel_format(wanted, available', None)
  /\ corrected_to' = IF output' = None THEN None ELSE target
  /\ pixels' = IF corrected_to' = None THEN pixels ELSE target
  /\ UNCHANGED <<file, original, todo, info, careless, hops>>

(* Mutant of FromInfo: a profile makes CICP superfluous. *)
FromInfoProfileFirst ==
  [cicp |-> IF info.color.icc_profile = None THEN info.color.cicp ELSE None,
   icc_profile |-> info.color.icc_profile,
   extras |-> info.extras]

(* ImageInfo::metadata, From<&ImageInfo> for Metadata: both colour fields, and not which one counts. *)
FromInfo ==
  [cicp |-> info.color.cicp, icc_profile |-> info.color.icc_profile, extras |-> info.extras]

(* What the encoder embeds of it.                                              *)
Kept(policy, caps) ==
  {field \in Carried(info) \ {"color_authority"} :
     Capable(caps, field) /\ (field \in DOMAIN Embed => resolve_embed(policy, Embed[field], TRUE))}

(* The file it writes; the new format has an authority of its own.             *)
Written(kept, authority) ==
  LET metadata == FromInfo
  IN [color |-> [cicp |-> IF "cicp" \in kept THEN metadata.cicp ELSE None,
                 icc_profile |-> IF "icc_profile" \in kept THEN metadata.icc_profile ELSE None,
                 color_authority |-> authority],
      extras |-> metadata.extras \cap kept]

(* What an encode does beside dropping fields that may lose the colour: it     *)
(* passes on the source's metadata with corrected pixels, or turns the         *)
(* precedence of two fields that disagree.                                     *)
Mistakes(authority) ==
  {why \in {"corrected", "authority turned"} :
     \/ why = "corrected" /\ corrected_to # None
     \/ /\ why = "authority turned" /\ authority # info.color.color_authority
        /\ info.color.cicp # None /\ info.color.icc_profile # None
        /\ info.color.cicp # Identified(info.color.icc_profile)}

(* The encoder takes the pixels, if it supports them, and the file is opened   *)
(* again.                                                                      *)
Encode(embed, encoder, authority, allow, decoder) ==
  /\ hops < MaxHops
  /\ output # None
  /\ best_encode_format(output, supported, None) # None
  /\ LET f == Written(Kept(embed, encoder), authority)
     IN /\ Open(f, allow, decoder)
        /\ careless' = careless \cup Lost(info, Kept(embed, encoder)) \cup Mistakes(authority)
                                \cup Lost(f, Extracted(f, allow, decoder))
  /\ hops' = hops + 1
  /\ UNCHANGED <<pixels, original>>

Next ==
  \/ \E field \in ColorFields : DescribeColor(field)
  \/ \E field \in Extras : DescribeExtra(field)
  \/ \E group \in {Embedded, ColorFields \cup HdrVolume} : DescribeGroup(group)
  \/ \E native \in Natives, wanted, accepted \in Lists, target \in Corrections \cup {None} :
       Decode(native, wanted, accepted, target)
  \/ \E embed \in EncodePolicies, allow \in DecodePolicies, authority \in {"Cicp", "Icc"},
        encoder \in Encoders, decoder \in Decoders :
       Encode(embed, encoder, authority, allow, decoder)

Spec == Init /\ [][Next]_vars

-----------------------------------------------------------------------------
(* The lists are what the parties gave; the rest stays of its type.            *)
TypeOK ==
  /\ file \in Files
  /\ info \in ImageInfo
  /\ original \subseteq Extras
  /\ todo \subseteq ColorFields \cup Extras
  /\ hops \in 0..MaxHops

ColourKept ==
  careless \cap {"cicp", "icc_profile", "corrected", "authority turned"} = {}

(* Whatever the caller prefers and in whatever order the codec reported, the   *)
(* pixels are labelled with the colour they have, as long as nobody refused or *)
(* lost what tells it before; and a caller that asks transfer_function and     *)
(* color_primaries of the image or of its metadata is told the same as the     *)
(* label, where CICP is what counts.                                           *)
OutputIsLabelledTruly ==
  /\ output # None /\ ColourKept => output.colour = pixels
  /\ output # None /\ corrected_to = None /\ CicpCounts(info.color) =>
       \A described \in {info.color, FromInfo} :
         output.colour = Colour(color_primaries(described), transfer_function(described))

(* A transcode that is not careless hands the colour on from file to file,     *)
(* although Metadata does not say which field counts; and a file still has     *)
(* what metadata the first one had, but for what a policy or a codec that      *)
(* cannot carry it kept back, in whatever order the codecs reported it.        *)
FileTellsTruth ==
  /\ ColourKept /\ corrected_to = None => Meaning(file.color) = pixels
  /\ original \ file.extras \subseteq careless
  /\ file.extras \subseteq original

(* Pixels are never labelled PQ or HLG without has_hdr_transfer having said so, *)
(* unless they were converted; a caller that asks it before a CMS transform to *)
(* SDR does not clip the highlights of such an image.                          *)
HdrIsNoticed ==
  output # None /\ corrected_to = None /\ IsHdr(output.colour) => has_hdr_transfer(info.color)

(* A caller that prefers only what the encoder takes gets something it takes,   *)
(* if the decoder can produce any of it.                                        *)
CommonFormatIsFound ==
  ( /\ output # None
    /\ \A i \in DOMAIN preferred : is_format_available(preferred[i].format, supported)
    /\ \E i \in DOMAIN preferred : is_format_available(preferred[i].format, available) )
  => best_encode_format(output, supported, None) # None
=============================================================================
