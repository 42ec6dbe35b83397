-------------------------- MODULE GainMapIso21496 ---------------------------
(***************************************************************************)
(* ISO 21496-1 gain map metadata (src/src/gainmap.rs) on its way through    *)
(* containers: parameters are serialised in a container's format, a reader  *)
(* receives the bytes piece by piece and parses what it has, and what was   *)
(* parsed may be written again in another format.  Files of other writers   *)
(* (a version, unknown flags, the compact layout, zero denominators) arrive *)
(* too.  A file is its fields; how many of its bytes have arrived is a      *)
(* count of bytes.                                                          *)
(***************************************************************************)
EXTENDS GainMapFractions, Sequences, FiniteSetsExt, Option

CONSTANTS Originals,     (* parameters an encoder starts from                *)
          Foreign,       (* files other programs wrote                       *)
          Formats,       (* Iso21496Format                                   *)
          Chunks,        (* how many bytes may arrive at once                *)
          MaxHops        (* how often a map is written again                 *)

AllFormats == {"JpegApp2", "AvifTmap", "JxlJhgm", "JpegApp2BodyWithUrn"}
Flags == {"multi_channel", "use_base_colour_space", "backward_direction",
          "common_denominator", "reserved"}

ASSUME FormatsAssumption ==
  /\ Formats \subseteq AllFormats
  /\ Chunks \subseteq Nat \ {0}
  /\ MaxHops \in Nat

VARIABLES file,          (* the file being read                              *)
          received,      (* how many of its bytes the reader has             *)
          outcome,       (* what the last parse returned, or None            *)
          source,        (* the parameters the file was written from         *)
          hops,          (* how often the map has been written by this crate *)
          gain_map       (* GainMapPresence, in the ImageInfo of the last    *)
                         (* probe, which the caller still has when more      *)
                         (* bytes have arrived                               *)

gainMapVars == <<file, received, outcome, source, hops, gain_map>>

-----------------------------------------------------------------------------
(* Parameters                                                               *)

Fields == {"min", "max", "gamma", "base_offset", "alternate_offset"}

GainMapChannel == [Fields -> Float]

GainMapParams ==
  [channels : [1..3 -> GainMapChannel],
   base_hdr_headroom : Float, alternate_hdr_headroom : Float,
   use_base_color_space : BOOLEAN, backward_direction : BOOLEAN]

ASSUME ParamsAssumption == Originals \subseteq GainMapParams

(* What a builder starts from: no boost.                                     *)
DefaultChannel ==
  [min |-> Whole(0), max |-> Whole(0), gamma |-> Whole(1),
   base_offset |-> Ratio(1, 64), alternate_offset |-> Ratio(1, 64)]

DefaultParams ==
  [channels |-> [c \in 1..3 |-> DefaultChannel],
   base_hdr_headroom |-> Whole(0), alternate_hdr_headroom |-> Whole(0),
   use_base_color_space |-> TRUE, backward_direction |-> FALSE]

(* Channels compare as f64 do: NaN equals nothing, itself included.          *)
SameChannel(a, b) == a = b /\ \A k \in DOMAIN a : a[k] # NaN

is_single_channel(p) ==
  SameChannel(p.channels[1], p.channels[2]) /\ SameChannel(p.channels[2], p.channels[3])

NumChannels(p) == IF is_single_channel(p) THEN 1 ELSE 3

direction(p) ==
  IF Less(p.alternate_hdr_headroom, p.base_hdr_headroom) THEN "BaseIsHdr" ELSE "BaseIsSdr"

(* GainMapParams::validate, which no parser calls: finite values, a positive *)
(* gamma and min <= max in every channel.                                    *)
validate(p) ==
  /\ IsFinite(p.base_hdr_headroom) /\ IsFinite(p.alternate_hdr_headroom)
  /\ \A c \in 1..3 : LET ch == p.channels[c] IN
       /\ \A k \in DOMAIN ch : IsFinite(ch[k])
       /\ ch.gamma[1] > 0
       /\ AtMost(ch.min, ch.max)

-----------------------------------------------------------------------------
(* Serialising                                                              *)

ISO_21496_1_URN == "urn:iso:std:iso:ts:21496:-1"
UrnSize == 28
JPEG_HEADER_SIZE == 5
AVIF_HEADER_SIZE == 6
FRACTION_SIZE == 8

(* Mutant of build_flags: the direction is left to the headrooms. *)
build_flags_by_headroom(p) ==
  {f \in Flags : \/ f = "multi_channel" /\ ~is_single_channel(p)
                 \/ f = "use_base_colour_space" /\ p.use_base_color_space
                 \/ f = "backward_direction" /\ direction(p) = "BaseIsHdr"}

build_flags(p) ==
  {f \in Flags : \/ f = "multi_channel" /\ ~is_single_channel(p)
                 \/ f = "use_base_colour_space" /\ p.use_base_color_space
                 \/ f = "backward_direction" /\ p.backward_direction}

(* Each fraction is two words of four bytes.                                 *)
Words(f) == <<f.numerator, f.denominator>>

write_channel(ch) ==
  Words(SignedFraction(ch.min)) \o Words(SignedFraction(ch.max))
    \o Words(UnsignedFraction(ch.gamma))
    \o Words(SignedFraction(ch.base_offset)) \o Words(SignedFraction(ch.alternate_offset))

(* Mutant of write_payload: the headrooms change places. *)
write_payload_swapped(p) ==
  Words(UnsignedFraction(p.alternate_hdr_headroom)) \o Words(UnsignedFraction(p.base_hdr_headroom))
    \o write_channel(p.channels[1])
    \o IF is_single_channel(p) THEN <<>>
       ELSE write_channel(p.channels[2]) \o write_channel(p.channels[3])

write_payload(p) ==
  Words(UnsignedFraction(p.base_hdr_headroom)) \o Words(UnsignedFraction(p.alternate_hdr_headroom))
    \o write_channel(p.channels[1])
    \o IF is_single_channel(p) THEN <<>>
       ELSE write_channel(p.channels[2]) \o write_channel(p.channels[3])

serialize(p, format) ==
  [format |-> format, urn |-> ISO_21496_1_URN, version |-> 0, minimum_version |-> 0,
   flags |-> build_flags(p), words |-> write_payload(p)]

HeaderSize(format) ==
  CASE format = "AvifTmap" -> AVIF_HEADER_SIZE
    [] format \in {"JxlJhgm", "JpegApp2"} -> JPEG_HEADER_SIZE
    [] format = "JpegApp2BodyWithUrn" -> UrnSize + JPEG_HEADER_SIZE

serialized_size(p, format) ==
  HeaderSize(format) + 2 * FRACTION_SIZE + NumChannels(p) * 5 * FRACTION_SIZE

(* What the primary image of an Ultra HDR JPEG carries: the URN and the two   *)
(* version numbers, to say that the map is with the secondary image.         *)
ISO_21496_1_PRIMARY_APP2_BODY ==
  [format |-> "JpegApp2BodyWithUrn", urn |-> ISO_21496_1_URN, version |-> 0,
   minimum_version |-> 0, flags |-> {}, words |-> <<>>]

Size(f) ==
  IF f = ISO_21496_1_PRIMARY_APP2_BODY THEN UrnSize + 4
  ELSE HeaderSize(f.format) + 4 * Len(f.words)

-----------------------------------------------------------------------------
(* Parsing the first `len` bytes                                            *)

Parsed(p) == [is |-> "ok", params |-> p]
TruncatedData(expected, actual) ==
  [is |-> "TruncatedData", expected |-> expected, actual |-> actual]
Refused(why) == [is |-> why]   (* UrnMismatch, UnsupportedVersion, ZeroDenominator *)

Compact(f) == "common_denominator" \in f.flags
Channels(f) == IF "multi_channel" \in f.flags THEN 3 ELSE 1

(* Mutant of WordsNeeded: the headrooms count as one fraction. *)
WordsNeededShort(f) == IF Compact(f) THEN 3 + 5 * Channels(f) ELSE 2 + 10 * Channels(f)

(* How many words the layout has, and which of them are denominators.        *)
WordsNeeded(f) == IF Compact(f) THEN 3 + 5 * Channels(f) ELSE 4 + 10 * Channels(f)
Denominators(f) ==
  IF Compact(f) THEN {1} ELSE {k \in 1..WordsNeeded(f) : k % 2 = 0}

(* Files of other writers: the URN or other bytes in its place, and a         *)
(* denominator that is a u32, zero included.                                 *)
Files ==
  [format : AllFormats, urn : {ISO_21496_1_URN, "other"}, version : Nat, minimum_version : Nat,
   flags : SUBSET Flags, words : Seq(Int)]

ASSUME ForeignAssumption ==
  \A f \in Foreign :
    f \in Files /\ \A k \in Denominators(f) \cap DOMAIN f.words : f.words[k] \in 0..U32Max

(* Mutant of ValueAt: the shared denominator is not shared by the headrooms. *)
ValueAtAlone(f, i) ==
  IF Compact(f) THEN ToF64([numerator |-> f.words[i + 1],
                            denominator |-> IF i <= 2 THEN 1 ELSE f.words[1]])
  ELSE ToF64([numerator |-> f.words[2 * i - 1], denominator |-> f.words[2 * i]])

(* The i-th value of the payload: two headrooms, then five per channel.      *)
ValueAt(f, i) ==
  IF Compact(f) THEN ToF64([numerator |-> f.words[i + 1], denominator |-> f.words[1]])
  ELSE ToF64([numerator |-> f.words[2 * i - 1], denominator |-> f.words[2 * i]])

ChannelAt(f, c) ==
  [min |-> ValueAt(f, 5 * c - 2), max |-> ValueAt(f, 5 * c - 1), gamma |-> ValueAt(f, 5 * c),
   base_offset |-> ValueAt(f, 5 * c + 1), alternate_offset |-> ValueAt(f, 5 * c + 2)]

(* parse_payload_full and parse_payload_common_denom; `header` is where the  *)
(* words start.  The first word that is missing, or is a zero denominator,   *)
(* ends the parse.                                                           *)
parse_payload(f, header, len) ==
  LET Missing(k) == header + 4 * k > len
      ZeroAt(k) == k \in Denominators(f) /\ f.words[k] = 0
      bad == {k \in 1..WordsNeeded(f) : Missing(k) \/ ZeroAt(k)}
  IN IF bad # {}
     THEN LET k == Min(bad)
          IN IF Missing(k) THEN TruncatedData(header + 4 * k, len) ELSE Refused("ZeroDenominator")
     ELSE Parsed([channels |-> [c \in 1..3 |-> ChannelAt(f, IF Channels(f) = 1 THEN 1 ELSE c)],
              base_hdr_headroom |-> ValueAt(f, 1),
              alternate_hdr_headroom |-> ValueAt(f, 2),
              use_base_color_space |-> "use_base_colour_space" \in f.flags,
              backward_direction |-> "backward_direction" \in f.flags])

parse_after_version(f, header, len) ==
  IF f.minimum_version > 0 THEN Refused("UnsupportedVersion") ELSE parse_payload(f, header, len)

parse_no_version(f, len) ==
  IF len < JPEG_HEADER_SIZE THEN TruncatedData(JPEG_HEADER_SIZE, len)
  ELSE parse_after_version(f, JPEG_HEADER_SIZE, len)

parse_avif(f, len) ==
  IF len < AVIF_HEADER_SIZE THEN TruncatedData(AVIF_HEADER_SIZE, len)
  ELSE IF f.version # 0 THEN Refused("UnsupportedVersion")
  ELSE parse_after_version(f, AVIF_HEADER_SIZE, len)

(* The URN is cut off before the rest is parsed, as a slice of its own.      *)
parse_with_urn(f, len) ==
  IF len < UrnSize \/ f.urn # ISO_21496_1_URN THEN Refused("UrnMismatch")
  ELSE parse_no_version(f, len - UrnSize)

parse_iso21496_fmt(f, len) ==
  CASE f.format = "AvifTmap" -> parse_avif(f, len)
    [] f.format \in {"JxlJhgm", "JpegApp2"} -> parse_no_version(f, len)
    [] f.format = "JpegApp2BodyWithUrn" -> parse_with_urn(f, len)

-----------------------------------------------------------------------------
(* What a probe tells of it                                                 *)

(* Dimensions and the alternate's colour come from the container.            *)
GainMapInfo(params) == [params |-> params, channels |-> NumChannels(params)]

Unknown == [is |-> "Unknown"]
NoMap == [is |-> "Absent"]
Available(info) == [is |-> "Available", info |-> info]

is_present(presence) == presence.is = "Available"
is_absent(presence) == presence.is = "Absent"

(* Mutant of Presence: no URN, no map.                                       *)
PresenceByError(answer, len) ==
  CASE answer.is = "ok" -> Available(GainMapInfo(answer.params))
    [] answer.is = "TruncatedData" -> Unknown
    [] OTHER -> NoMap

(* What a codec makes of an answer: it cannot tell where bytes are missing,   *)
(* be it bytes of the URN, and what is refused otherwise is no map.           *)
Presence(answer, len) ==
  CASE answer.is = "ok" -> Available(GainMapInfo(answer.params))
    [] answer.is = "TruncatedData" -> Unknown
    [] answer.is = "UrnMismatch" /\ len < UrnSize -> Unknown
    [] OTHER -> NoMap

-----------------------------------------------------------------------------
(* A map on its way                                                         *)

GainMapInit ==
  /\ \/ \E p \in Originals, format \in Formats :
          file = serialize(p, format) /\ source = p /\ hops = 1
     \/ file \in Foreign /\ source = None /\ hops = 0
  /\ received = 0
  /\ outcome = None
  /\ gain_map = Unknown

(* More bytes arrive at the reader.                                          *)
Receive(n) ==
  /\ received < Size(file)
  /\ received' = Min({received + n, Size(file)})
  /\ outcome' = None
  /\ UNCHANGED <<file, source, hops, gain_map>>

Parse ==
  /\ outcome = None
  /\ outcome' = parse_iso21496_fmt(file, received)
  /\ gain_map' = Presence(outcome', received)
  /\ UNCHANGED <<file, received, source, hops>>

(* The parsed map is written again, perhaps into another container.          *)
Rewrite(format) ==
  /\ outcome # None /\ outcome.is = "ok"
  /\ hops < MaxHops
  /\ file' = serialize(outcome.params, format)
  /\ source' = outcome.params
  /\ hops' = hops + 1
  /\ received' = 0
  /\ outcome' = None
  /\ gain_map' = Unknown

GainMapNext ==
  \/ \E n \in Chunks : Receive(n)
  \/ Parse
  \/ \E format \in Formats : Rewrite(format)

GainMapSpec == GainMapInit /\ [][GainMapNext]_gainMapVars

-----------------------------------------------------------------------------
Signed == Fields \ {"gamma"}

Delivered == source # None /\ outcome # None /\ outcome.is = "ok"

(* What this crate writes, whatever the parameters (not a number, infinite,  *)
(* out of range), has the announced size and is parsed once it has all        *)
(* arrived: no fraction it writes has a zero denominator.                     *)
WholeFileParses ==
  source # None =>
    /\ Size(file) = serialized_size(source, file.format)
    /\ (received = Size(file) /\ outcome # None) => outcome.is = "ok"

(* A prefix of such a file is never taken for a gain map.  The reader is told *)
(* to get more, never more than there is; in the URN format the counts are    *)
(* those of the part behind the URN.                                          *)
PrefixAsksForMore ==
  LET behind == IF file.format = "JpegApp2BodyWithUrn" THEN UrnSize ELSE 0
  IN (source # None /\ outcome # None /\ received < Size(file)) =>
       IF received < behind THEN outcome = Refused("UrnMismatch")
       ELSE /\ outcome.is = "TruncatedData"
            /\ outcome.actual = received - behind
            /\ outcome.expected > outcome.actual
            /\ outcome.expected <= Size(file) - behind

(* The signal of a primary image, alike in its bytes to the beginning of a    *)
(* map, is never taken for one: all there is of it still lacks the flags.     *)
SignalIsNoMap ==
  (file = ISO_21496_1_PRIMARY_APP2_BODY /\ outcome # None) =>
    outcome = IF received < UrnSize THEN Refused("UrnMismatch")
              ELSE TruncatedData(JPEG_HEADER_SIZE, received - UrnSize)

(* What a probe of some bytes said is what the whole file says, this crate's  *)
(* or another writer's: Absent is definitive, as GainMapPresence has it, and   *)
(* a map once found does not change when more bytes arrive.                   *)
ProbeStaysTrue ==
  LET whole == parse_iso21496_fmt(file, Size(file))
  IN /\ is_absent(gain_map) => whole.is # "ok"
     /\ is_present(gain_map) => whole.is = "ok" /\ gain_map.info = GainMapInfo(whole.params)

(* However a file arrives, its reader knows what to do next.                  *)
ArrivalIsAnswered == WholeFileParses /\ PrefixAsksForMore /\ SignalIsNoMap /\ ProbeStaysTrue

InRange(v, max) == IsFinite(v) /\ AtMost(AsF32(Abs(v)), Whole(max))

(* What one value in range (v written, w read) keeps.  Its sign, unless it is  *)
(* read as 0.  All of an f32 that is a quotient by no more than 2^F32Bits; of   *)
(* another one what f32 holds of it, since neither the fraction nor the f64     *)
(* arithmetic on the way is off by as much as an f32's rounding.  Only a value  *)
(* below the smallest step, 1/U32Max, is read as 0.                           *)
Faithful(v, w, max) ==
  LET abs == AsF32(Abs(v))
  IN InRange(v, max) =>
       /\ IF w[1] = 0 THEN abs[1] * U32Max < abs[2]
          ELSE (w[1] < 0 <=> v[1] < 0) /\ AsF32(Abs(w)) = abs
       /\ abs[2] <= pow2[F32Bits] => Abs(w) = abs

(* Every hop keeps every value, and the flags with them: also a direction     *)
(* flag the headrooms contradict, and one that came with the compact layout.  *)
ValuesSurvive ==
  Delivered =>
    /\ \A c \in 1..3, k \in Signed :
         Faithful(source.channels[c][k], outcome.params.channels[c][k], I32Max)
    /\ \A c \in 1..3 : LET v == source.channels[c].gamma IN
         v[1] >= 0 => Faithful(v, outcome.params.channels[c].gamma, U32Max)
    /\ \A k \in {"base_hdr_headroom", "alternate_hdr_headroom"} :
         source[k][1] >= 0 => Faithful(source[k], outcome.params[k], U32Max)
    /\ outcome.params.backward_direction = source.backward_direction
    /\ outcome.params.use_base_color_space = source.use_base_color_space

(* A map that validates and fits the fractions (no gamma that is, as an f32,  *)
(* below the smallest step, no boost and no gamma out of range) still validates *)
(* when parsed, where nothing checks it: min and max, rounded one by one, do   *)
(* not cross, nor do headrooms in range, so the direction they imply is not   *)
(* turned round.                                                             *)
StaysValid ==
  (Delivered /\ validate(source)) =>
    /\ (\A c \in 1..3 : LET ch == source.channels[c] IN
         /\ InRange(ch.min, I32Max) /\ InRange(ch.max, I32Max)
         /\ InRange(ch.gamma, U32Max) /\ AtMost(Ratio(1, U32Max), AsF32(ch.gamma)))
       => validate(outcome.params)
    /\ ( /\ InRange(source.base_hdr_headroom, U32Max)
          /\ InRange(source.alternate_hdr_headroom, U32Max)
          /\ direction(outcome.params) = "BaseIsHdr" ) => direction(source) = "BaseIsHdr"

(* Loss happens once: from the second hop on, whatever the containers, a map  *)
(* that went through this crate is read as it was written.                    *)
LossHappensOnce == (Delivered /\ hops >= 2) => outcome.params = source

(* The file a compact one abbreviates: every numerator with the shared        *)
(* denominator behind it.                                                     *)
Expanded(f) ==
  [f EXCEPT !.flags = @ \ {"common_denominator"},
            !.words = [k \in 1..2 * (Len(@) - 1) |->
                         IF k % 2 = 1 THEN @[(k + 1) \div 2 + 1] ELSE @[1]]]

(* A compact file, which this crate reads and never writes, means the same as *)
(* the full one it abbreviates.                                               *)
CompactMeansFull ==
  (Compact(file) /\ outcome # None /\ outcome.is = "ok") =>
    outcome = parse_iso21496_fmt(Expanded(file), Size(Expanded(file)))
=============================================================================
