--------------------------- MODULE TranscodeProofs --------------------------
(**************************************************************************)
(* Proofs about what travels with an image: Transcode, for images that go  *)
(* from file to file with any colours, profiles, policies, codecs and lists,*)
(* and any number of hops; and Extensions, for any finite set of owners, any*)
(* types and any number of values.                                         *)
(**************************************************************************)
EXTENDS Transcode, Extensions, WellFoundedInduction, SequenceTheorems,
        FiniteSetTheorems, TLAPS

Codes == {"cicp", "icc_profile"}

CountsIn(color, field) ==
  \/ field = "cicp" /\ CicpCounts(color)
  \/ field = "icc_profile" /\ ProfileCounts(color)

(* What has been reported so far is what the file says, and what has not is   *)
(* still to come, does not matter, or is written down as lost.               *)
ReportedOf(f, i, awaited, lost) ==
  /\ awaited \subseteq Carried(f)
  /\ \A field \in Codes :
       /\ i.color[field] \in {f.color[field], None}
       /\ CountsIn(f.color, field) =>
            i.color[field] = f.color[field] \/ field \in awaited \cup lost
  /\ i.color.color_authority = f.color.color_authority \/ "color_authority" \in awaited
  /\ i.extras \subseteq f.extras
  /\ f.extras \subseteq i.extras \cup awaited \cup lost

Reported == ReportedOf(file, info, todo, careless)

(* The lists, and what was made of them.                                     *)
Agreed ==
  /\ IsList(available)
  /\ preferred \in Lists \cup {<<>>} /\ supported \in Lists \cup {<<>>}
  /\ output = negotiate_pixel_format(preferred, available, None)
  /\ output # None =>
       \A i \in DOMAIN available :
         available[i].colour = resolve_color(info.color, corrected_to)
  /\ todo # {} => available = <<>>
  /\ corrected_to # None => output # None

Corrected == corrected_to # None => pixels = corrected_to

IInv == TypeOK /\ Reported /\ Agreed /\ Corrected /\ FileTellsTruth

-----------------------------------------------------------------------------
(* The first of some numbers is one of them.                                 *)
LEMMA LeastIsOne ==
  ASSUME NEW S \in SUBSET Nat, S # {}
  PROVE  Least(S) \in S
<1>1. PICK i \in S : \A j \in S : ~(<<j, i>> \in OpToRel(<, Nat))
  BY NatLessThanWellFounded, WFMin
<1>2. ASSUME NEW j \in S, j < i PROVE FALSE
  <2>1. <<j, i>> \in OpToRel(<, Nat)
    BY <1>2, Zenon DEF OpToRel
  <2>2. QED
    BY <1>1, <2>1
<1>3. \A j \in S : i <= j
  BY <1>2
<1>4. QED
  BY <1>3 DEF Least

(* The indices of a list are natural numbers.                                *)
LEMMA Indices ==
  ASSUME NEW s, IsList(s)
  PROVE  DOMAIN s \in SUBSET Nat
BY DEF IsList

(* A list is empty or has a first element.                                   *)
LEMMA FirstOrNone ==
  ASSUME NEW s, IsList(s), s # <<>>
  PROVE  1 \in DOMAIN s
<1>1. Len(s) \in Nat /\ s = [i \in 1..Len(s) |-> s[i]]
  BY DEF IsList
<1>2. CASE Len(s) = 0
  <2>1. 1..Len(s) = {}
    BY <1>2
  <2>2. s = [i \in {} |-> s[i]]
    BY <1>1, <2>1
  <2>3. [i \in {} |-> s[i]] = <<>>
    OBVIOUS
  <2>4. QED
    BY <2>2, <2>3
<1>3. CASE Len(s) # 0
  <2>1. 1 \in 1..Len(s)
    BY <1>1, <1>3
  <2>2. QED
    BY <1>1, <2>1
<1>4. QED
  BY <1>2, <1>3

(* The empty list is one. *)
LEMMA EmptyIsList == IsList(<<>>) /\ DOMAIN <<>> = {}
<1>1. Len(<<>>) = 0 /\ DOMAIN <<>> = {}
  OBVIOUS
<1>2. <<>> = [i \in 1..0 |-> <<>>[i]]
  OBVIOUS
<1>3. QED
  BY <1>1, <1>2 DEF IsList

(* The lists of the parties are lists, and an empty one is.                  *)
LEMMA ListsAreLists ==
  ASSUME NEW s \in Lists \cup {<<>>}
  PROVE  IsList(s) /\ \A i \in DOMAIN s : s[i] # None
BY TranscodeAssumption, EmptyIsList

(* The best match of a descriptor is in the list, and of its format.         *)
LEMMA BestMatchIsThere ==
  ASSUME NEW d, NEW list, IsList(list), SameFormat(d, list) # {}
  PROVE  \E i \in DOMAIN list : BestMatch(d, list) = list[i] /\ list[i].format = d.format
<1>1. CASE Exact(d, list) # {}
  BY <1>1 DEF BestMatch, Exact
<1>2. CASE Exact(d, list) = {}
  <2>1. SameFormat(d, list) \in SUBSET Nat
    BY Indices DEF SameFormat
  <2>2. Least(SameFormat(d, list)) \in SameFormat(d, list)
    BY <2>1, LeastIsOne
  <2>3. BestMatch(d, list) = list[Least(SameFormat(d, list))]
    BY <1>2 DEF BestMatch
  <2>4. QED
    BY <2>2, <2>3 DEF SameFormat
<1>3. QED
  BY <1>1, <1>2

(* Whatever is negotiated, the decoder can produce it.                       *)
LEMMA NegotiatedIsAvailable ==
  ASSUME NEW wanted, IsList(wanted), NEW offered, IsList(offered),
         negotiate_pixel_format(wanted, offered, None) # None
  PROVE  \E i \in DOMAIN offered : negotiate_pixel_format(wanted, offered, None) = offered[i]
<1> DEFINE matched == {i \in DOMAIN wanted : SameFormat(wanted[i], offered) # {}}
<1>1. offered # <<>>
  BY DEF negotiate_pixel_format
<1>2. CASE matched = {}
  <2>1. negotiate_pixel_format(wanted, offered, None) = offered[1]
    BY <1>1, <1>2 DEF negotiate_pixel_format
  <2>2. QED
    BY <1>1, <2>1, FirstOrNone
<1>3. CASE matched # {}
  <2>1. Least(matched) \in matched
    BY <1>3, Indices, LeastIsOne
  <2>2. negotiate_pixel_format(wanted, offered, None) = BestMatch(wanted[Least(matched)], offered)
    BY <1>1, <1>3 DEF negotiate_pixel_format
  <2>3. SameFormat(wanted[Least(matched)], offered) # {}
    BY <2>1
  <2> HIDE DEF matched
  <2>4. PICK i \in DOMAIN offered :
          BestMatch(wanted[Least(matched)], offered) = offered[i]
    BY <2>3, BestMatchIsThere
  <2>5. QED
    BY <2>2, <2>4
<1>4. QED
  BY <1>2, <1>3

(* Pixels are labelled by what the colour means, unless they were converted.  *)
LEMMA ResolvedIsMeant ==
  ASSUME NEW color \in SourceColors, NEW target
  PROVE  resolve_color(color, target) = IF target # None THEN target ELSE Meaning(color)
<1>1. color.color_authority \in {"Cicp", "Icc"}
  BY DEF SourceColors
<1>2. CASE target # None
  BY <1>2 DEF resolve_color
<1>3. CASE target = None /\ CicpCounts(color)
  <2>1. ~ProfileCounts(color)
    BY <1>1, <1>3 DEF CicpCounts, ProfileCounts
  <2>2. Meaning(color) = color.cicp
    BY <1>3, <2>1 DEF Meaning
  <2>3. to_color_context(color).cicp = color.cicp /\ color.cicp # None
    BY <1>1, <1>3 DEF to_color_context, CicpCounts
  <2>4. QED
    BY <1>3, <2>2, <2>3 DEF resolve_color
<1>4. CASE target = None /\ ~CicpCounts(color)
  <2>1. CASE color.cicp = None /\ color.icc_profile = None
    BY <1>4, <2>1 DEF resolve_color, to_color_context, Meaning, CicpCounts, ProfileCounts
  <2>2. CASE color.cicp = None /\ color.icc_profile # None
    BY <1>1, <1>4, <2>2 DEF resolve_color, to_color_context, Meaning, CicpCounts, ProfileCounts
  <2>3. CASE color.cicp # None
    BY <1>1, <1>4, <2>3 DEF resolve_color, to_color_context, Meaning, CicpCounts, ProfileCounts
  <2>4. QED
    BY <2>1, <2>2, <2>3
<1>5. QED
  BY <1>2, <1>3, <1>4

(* What is kept of a colour still means the same, if what counts is kept and   *)
(* the precedence of two fields that disagree is.                             *)
LEMMA MeaningKept ==
  ASSUME NEW c \in SourceColors, NEW d \in SourceColors,
         d.cicp \in {c.cicp, None}, d.icc_profile \in {c.icc_profile, None},
         CicpCounts(c) => d.cicp = c.cicp,
         ProfileCounts(c) => d.icc_profile = c.icc_profile,
         \/ d.color_authority = c.color_authority
         \/ c.cicp = None \/ c.icc_profile = None \/ c.cicp = Identified(c.icc_profile)
  PROVE  Meaning(d) = Meaning(c)
<1>1. /\ c.color_authority \in {"Cicp", "Icc"} /\ d.color_authority \in {"Cicp", "Icc"}
  BY DEF SourceColors
<1>2. CASE c.cicp = None
  BY <1>1, <1>2 DEF Meaning, CicpCounts, ProfileCounts
<1>3. CASE c.cicp # None /\ c.icc_profile = None
  BY <1>1, <1>3 DEF Meaning, CicpCounts, ProfileCounts
<1>4. CASE c.cicp # None /\ c.icc_profile # None /\ CicpCounts(c)
  BY <1>1, <1>4 DEF Meaning, CicpCounts, ProfileCounts
<1>5. CASE c.cicp # None /\ c.icc_profile # None /\ ~CicpCounts(c)
  BY <1>1, <1>5 DEF Meaning, CicpCounts, ProfileCounts
<1>6. QED
  BY <1>2, <1>3, <1>4, <1>5

(* When the codec has reported all, and nothing that counts was lost, what it  *)
(* reported means what the file does.                                         *)
LEMMA ReportedMeansTheSame ==
  ASSUME TypeOK, Reported, todo = {}, ColourKept
  PROVE  Meaning(info.color) = Meaning(file.color)
<1>1. info.color \in SourceColors /\ file.color \in SourceColors
  BY DEF TypeOK, Files, ImageInfo
<1>2. "cicp" \notin careless /\ "icc_profile" \notin careless
  BY DEF ColourKept
<1>3. /\ info.color["cicp"] \in {file.color["cicp"], None}
      /\ info.color["icc_profile"] \in {file.color["icc_profile"], None}
      /\ CicpCounts(file.color) => info.color["cicp"] = file.color["cicp"]
      /\ ProfileCounts(file.color) => info.color["icc_profile"] = file.color["icc_profile"]
      /\ info.color.color_authority = file.color.color_authority
  BY <1>2 DEF Reported, ReportedOf, Codes, CountsIn
<1>4. QED
  BY <1>1, <1>3, MeaningKept

(* A file as it is opened: nothing reported, and what is not extracted but     *)
(* counts is lost.                                                            *)
LEMMA OpenedIsReported ==
  ASSUME NEW f \in Files, NEW policy, NEW caps, NEW lost,
         Lost(f, Extracted(f, policy, caps)) \subseteq lost
  PROVE  ReportedOf(f, [color |-> DefaultColor, extras |-> {}], Extracted(f, policy, caps), lost)
<1> DEFINE kept == Extracted(f, policy, caps)
           opened == [color |-> DefaultColor, extras |-> {}]
<1>1. kept \subseteq Carried(f)
  BY DEF Extracted
<1>2. \A field \in Carried(f) \ kept :
        field \in Extras \/ CountsIn(f.color, field) => field \in lost
  BY DEF Lost, CountsIn
<1>3. f.extras \subseteq Carried(f) /\ f.extras \subseteq Extras
  BY DEF Carried, Files
<1>4. "color_authority" \in kept
  BY DEF Extracted, Carried, Capable, Flag, Allow
<1>5. ASSUME NEW field \in Codes, CountsIn(f.color, field)
      PROVE  field \in Carried(f)
  BY <1>5 DEF Codes, CountsIn, CicpCounts, ProfileCounts, Carried
<1>6. \A field \in Codes : opened.color[field] = None
  BY DEF DefaultColor, Codes
<1>7. \A field \in Codes : CountsIn(f.color, field) => field \in kept \cup lost
  BY <1>2, <1>5
<1>8. f.extras \subseteq kept \cup lost
  BY <1>2, <1>3
<1>9. opened.extras = {}
  OBVIOUS
<1> HIDE DEF kept, opened
<1>10. ReportedOf(f, opened, kept, lost)
  BY <1>1, <1>4, <1>6, <1>7, <1>8, <1>9 DEF ReportedOf
<1>11. QED
  BY <1>10 DEF kept, opened

THEOREM InitIInv == Init => IInv
<1> SUFFICES ASSUME Init PROVE IInv
  OBVIOUS
<1>1. PICK policy \in DecodePolicies, caps \in Decoders : todo = Extracted(file, policy, caps)
  BY DEF Init
<1>2. TypeOK
  <2>1. DefaultColor \in SourceColors
    BY DEF DefaultColor, SourceColors
  <2>2. info \in ImageInfo
    BY <2>1 DEF Init, Files, ImageInfo, NewInfo
  <2>3. todo \subseteq ColorFields \cup Extras
    BY <1>1 DEF Init, Files, ImageInfo, NewInfo, Extracted, Carried, ColorFields
  <2>4. QED
    BY <2>2, <2>3, TranscodeAssumption DEF Init, TypeOK, Files, ImageInfo, NewInfo
<1>3. Reported
  BY <1>1, OpenedIsReported DEF Init, NewInfo, Reported
<1>4. Agreed
  <2>1. negotiate_pixel_format(preferred, available, None) = None
    BY DEF Init, negotiate_pixel_format
  <2>2. QED
    BY <2>1, EmptyIsList DEF Init, Agreed
<1>5. Corrected /\ FileTellsTruth
  BY DEF Init, Corrected, FileTellsTruth
<1>6. QED
  BY <1>2, <1>3, <1>4, <1>5 DEF IInv

(* Nothing is negotiated while the codec still reports.                       *)
LEMMA NothingYet ==
  ASSUME Agreed, todo # {}
  PROVE  output = None
BY DEF Agreed, negotiate_pixel_format

-----------------------------------------------------------------------------
(* The calls by which a codec describes the image.                            *)
LEMMA DescribeColorStep ==
  ASSUME IInv, NEW field \in ColorFields, DescribeColor(field)
  PROVE  IInv'
<1>1. info.color \in SourceColors /\ file.color \in SourceColors
  BY DEF IInv, TypeOK, Files, ImageInfo
<1>2. /\ info' = [info EXCEPT !.color = [info.color EXCEPT ![field] = file.color[field]]]
      /\ field \in todo /\ todo' = todo \ {field}
  BY DEF DescribeColor, With
<1>3. info'.color = [info.color EXCEPT ![field] = file.color[field]] /\ info'.extras = info.extras
  BY <1>2 DEF IInv, TypeOK, Files, ImageInfo
<1>4. TypeOK'
  <2>1. info'.color \in SourceColors
    BY <1>1, <1>3 DEF SourceColors, ColorFields
  <2>2. info' \in ImageInfo
    BY <1>2, <2>1, <1>3 DEF IInv, TypeOK, Files, ImageInfo
  <2>3. QED
    BY <1>2, <2>2 DEF IInv, TypeOK, DescribeColor
<1>5. Reported'
  <2>1. \A g \in Codes : info'.color[g] = IF g = field THEN file.color[g] ELSE info.color[g]
    BY <1>1, <1>3 DEF SourceColors, Codes
  <2>2. info'.color.color_authority =
          IF field = "color_authority" THEN file.color.color_authority
          ELSE info.color.color_authority
    BY <1>1, <1>3 DEF SourceColors
  <2>3. field \notin Extras
    BY TranscodeAssumption DEF ColorFields, Embedded, HdrVolume
  <2>4. file.extras \subseteq Extras
    BY DEF IInv, TypeOK, Files, ImageInfo
  <2>5. file' = file /\ careless' = careless
    BY DEF DescribeColor
  <2>6. QED
    BY <1>2, <1>3, <2>1, <2>2, <2>3, <2>4, <2>5 DEF IInv, Reported, ReportedOf, Codes
<1>6. Agreed'
  BY <1>2, NothingYet DEF IInv, Agreed, DescribeColor, lists
<1>7. Corrected' /\ FileTellsTruth'
  BY DEF IInv, Corrected, FileTellsTruth, ColourKept, DescribeColor
<1>8. QED
  BY <1>4, <1>5, <1>6, <1>7 DEF IInv

LEMMA DescribeExtraStep ==
  ASSUME IInv, NEW field \in Extras, DescribeExtra(field)
  PROVE  IInv'
<1>1. field \notin ColorFields
  BY TranscodeAssumption DEF ColorFields, Embedded, HdrVolume
<1>2. field \in todo /\ todo' = todo \ {field} /\ file' = file /\ careless' = careless
  BY DEF DescribeExtra
<1>3. info'.color = info.color /\ info'.extras = info.extras \cup {field} /\ info' \in ImageInfo
  BY DEF DescribeExtra, WithExtra, IInv, TypeOK, Files, ImageInfo
<1>4. field \in file.extras
  BY <1>1, <1>2 DEF IInv, Reported, ReportedOf, Carried, ColorFields
<1>5. TypeOK'
  BY <1>2, <1>3 DEF IInv, TypeOK, DescribeExtra
<1>6. Reported'
  BY <1>1, <1>2, <1>3, <1>4 DEF IInv, Reported, ReportedOf, ColorFields, Codes
<1>7. Agreed'
  BY <1>2, <1>3, NothingYet DEF IInv, Agreed, DescribeExtra, lists
<1>8. Corrected' /\ FileTellsTruth'
  BY DEF IInv, Corrected, FileTellsTruth, ColourKept, DescribeExtra
<1>9. QED
  BY <1>5, <1>6, <1>7, <1>8 DEF IInv

LEMMA DescribeGroupStep ==
  ASSUME IInv, NEW group \in {Embedded, ColorFields \cup HdrVolume}, DescribeGroup(group)
  PROVE  IInv'
<1>1. /\ todo' = todo \ group /\ file' = file /\ careless' = careless
      /\ group \cap Carried(file) \subseteq todo
  BY DEF DescribeGroup
<1>2. /\ info'.color = (IF group = Embedded THEN info.color ELSE file.color)
      /\ info'.extras = (info.extras \ group) \cup (file.extras \cap group)
      /\ info' \in ImageInfo
  BY DEF DescribeGroup, IInv, TypeOK, Files, ImageInfo
<1>3. TypeOK'
  BY <1>1, <1>2 DEF IInv, TypeOK, DescribeGroup
<1>4. file.extras \subseteq Carried(file) /\ "color_authority" \in Carried(file)
  BY DEF Carried
<1>5. CASE group = Embedded
  <2>1. group \cap ColorFields = {}
    BY <1>5 DEF Embedded, ColorFields
  <2>2. Reported'
    BY <1>1, <1>2, <1>4, <1>5, <2>1 DEF IInv, Reported, ReportedOf, ColorFields, Codes
  <2>3. Agreed'
    BY <1>1, <1>2, <1>5 DEF IInv, Agreed, DescribeGroup, lists
  <2>4. QED
    BY <1>3, <2>2, <2>3 DEF IInv, Corrected, FileTellsTruth, ColourKept, DescribeGroup
<1>6. CASE group = ColorFields \cup HdrVolume
  <2>1. group # Embedded
    BY <1>6 DEF Embedded, ColorFields
  <2>2. todo # {}
    BY <1>1, <1>4, <1>6 DEF ColorFields
  <2>3. Reported'
    BY <1>1, <1>2, <1>4, <2>1 DEF IInv, Reported, ReportedOf, ColorFields, Codes
  <2>4. Agreed'
    BY <1>1, <2>2, NothingYet DEF IInv, Agreed, DescribeGroup, lists
  <2>5. QED
    BY <1>3, <2>3, <2>4 DEF IInv, Corrected, FileTellsTruth, ColourKept, DescribeGroup
<1>7. QED
  BY <1>5, <1>6

(* The parties give their lists; pixels that cannot be are not corrected.     *)
LEMMA DecodeStep ==
  ASSUME IInv, NEW native \in Natives, NEW wanted \in Lists, NEW accepted \in Lists,
         NEW target \in Corrections \cup {None}, Decode(native, wanted, accepted, target)
  PROVE  IInv'
<1> DEFINE label(i) == descriptor_for_decoded_pixels(native[i], info.color, target)
<1>1. /\ available' = [i \in DOMAIN native |-> label(i)]
      /\ preferred' = wanted /\ supported' = accepted
      /\ output' = negotiate_pixel_format(wanted, available', None)
      /\ corrected_to' = IF output' = None THEN None ELSE target
      /\ pixels' = IF corrected_to' = None THEN pixels ELSE target
      /\ file' = file /\ original' = original /\ todo' = todo /\ info' = info
      /\ careless' = careless /\ hops' = hops
      /\ todo = {} /\ output = None
  BY DEF Decode
<1>2. TypeOK' /\ Reported'
  BY <1>1 DEF IInv, TypeOK, Reported
<1>3. IsList(available')
  <2>1. IsList(native)
    BY TranscodeAssumption
  <2>2. Len(native) \in Nat /\ DOMAIN native = 1..Len(native)
    BY <2>1 DEF IsList
  <2> HIDE DEF label
  <2>3. available' = [i \in 1..Len(native) |-> label(i)]
    BY <1>1, <2>2
  <2>4. Len(available') = Len(native)
    BY <2>2, <2>3
  <2>5. QED
    BY <2>2, <2>3, <2>4 DEF IsList
<1>4. \A i \in DOMAIN available' : available'[i].colour = resolve_color(info.color, target)
  BY <1>1 DEF descriptor_for_decoded_pixels
<1>5. Agreed'
  BY <1>1, <1>3, <1>4 DEF Agreed
<1>6. corrected_to = None
  BY <1>1 DEF IInv, Agreed
<1>7. Corrected' /\ FileTellsTruth'
  BY <1>1, <1>6 DEF IInv, Corrected, FileTellsTruth, ColourKept
<1>8. QED
  BY <1>2, <1>5, <1>7 DEF IInv

(* What is written is a file, and what it lost is written down.               *)
LEMMA WrittenIsFile ==
  ASSUME TypeOK, NEW kept, NEW authority \in {"Cicp", "Icc"}
  PROVE  /\ Written(kept, authority) \in Files
         /\ Written(kept, authority).color.cicp = IF "cicp" \in kept THEN info.color.cicp ELSE None
         /\ Written(kept, authority).color.icc_profile
              = IF "icc_profile" \in kept THEN info.color.icc_profile ELSE None
         /\ Written(kept, authority).color.color_authority = authority
         /\ Written(kept, authority).extras = info.extras \cap kept
BY DEF TypeOK, Files, ImageInfo, SourceColors, Written, FromInfo

LEMMA EncodeStep ==
  ASSUME IInv, NEW embed \in EncodePolicies, NEW encoder \in Encoders,
         NEW authority \in {"Cicp", "Icc"}, NEW allow \in DecodePolicies, NEW decoder \in Decoders,
         Encode(embed, encoder, authority, allow, decoder)
  PROVE  IInv'
<1> DEFINE kept == Kept(embed, encoder)
           f == Written(kept, authority)
<1>1. /\ Open(f, allow, decoder)
      /\ careless' = careless \cup Lost(info, kept) \cup Mistakes(authority)
                              \cup Lost(f, Extracted(f, allow, decoder))
      /\ hops < MaxHops /\ hops' = hops + 1 /\ output # None
      /\ pixels' = pixels /\ original' = original
  BY DEF Encode
<1>2. /\ f \in Files
      /\ f.color.cicp = (IF "cicp" \in kept THEN info.color.cicp ELSE None)
      /\ f.color.icc_profile = (IF "icc_profile" \in kept THEN info.color.icc_profile ELSE None)
      /\ f.color.color_authority = authority
      /\ f.extras = info.extras \cap kept
  BY WrittenIsFile DEF IInv
<1> HIDE DEF kept, f
<1>3. /\ file' = f /\ todo' = Extracted(f, allow, decoder)
      /\ info' = [color |-> DefaultColor, extras |-> {}]
      /\ corrected_to' = None /\ output' = None
      /\ available' = <<>> /\ preferred' = <<>> /\ supported' = <<>>
  BY <1>1 DEF Open, NewInfo
<1>4. todo = {}
  BY <1>1, NothingYet DEF IInv
<1>5. TypeOK'
  <2>1. DefaultColor \in SourceColors
    BY DEF DefaultColor, SourceColors
  <2>2. info' \in ImageInfo
    BY <1>3, <2>1 DEF Files, ImageInfo
  <2>3. todo' \subseteq ColorFields \cup Extras
    BY <1>2, <1>3 DEF Files, Extracted, Carried, ColorFields
  <2>4. hops' \in 0..MaxHops
    BY <1>1, TranscodeAssumption DEF IInv, TypeOK
  <2>5. QED
    BY <1>1, <1>2, <1>3, <2>2, <2>3, <2>4 DEF IInv, TypeOK
<1>6. Reported'
  <2>1. ReportedOf(f, [color |-> DefaultColor, extras |-> {}], Extracted(f, allow, decoder), careless')
    BY <1>1, <1>2, OpenedIsReported
  <2>2. QED
    BY <1>3, <2>1 DEF Reported
<1>7. Agreed' /\ Corrected'
  <2>1. negotiate_pixel_format(<<>>, <<>>, None) = None
    BY DEF negotiate_pixel_format
  <2>2. QED
    BY <1>3, <2>1, EmptyIsList DEF Agreed, Corrected
<1>8. FileTellsTruth'
  <2>1. info.extras \subseteq Extras
    BY DEF IInv, TypeOK, Files, ImageInfo
  <2>2. \A field \in info.extras \ kept : field \in careless'
    BY <1>1, <2>1 DEF Lost, Carried
  <2>3. info.extras \subseteq file.extras /\ file.extras \subseteq info.extras \cup careless
    BY <1>4 DEF IInv, Reported, ReportedOf
  <2>4. original \ f.extras \subseteq careless'
    BY <1>1, <1>2, <2>2, <2>3 DEF IInv, FileTellsTruth
  <2>5. f.extras \subseteq original
    BY <1>2, <2>3 DEF IInv, FileTellsTruth
  <2>6. ASSUME ColourKept' PROVE Meaning(f.color) = pixels
    <3>1. /\ ColourKept
          /\ "corrected" \notin Mistakes(authority) /\ "authority turned" \notin Mistakes(authority)
          /\ "cicp" \notin Lost(info, kept) /\ "icc_profile" \notin Lost(info, kept)
      BY <1>1, <2>6 DEF ColourKept
    <3>2. corrected_to = None
      BY <3>1 DEF Mistakes
    <3>3. Meaning(info.color) = pixels
      BY <1>4, <3>1, <3>2, ReportedMeansTheSame DEF IInv, FileTellsTruth
    <3>4. CicpCounts(info.color) => f.color.cicp = info.color.cicp
      BY <1>2, <3>1 DEF Lost, Carried, CicpCounts
    <3>5. ProfileCounts(info.color) => f.color.icc_profile = info.color.icc_profile
      BY <1>2, <3>1 DEF Lost, Carried, ProfileCounts
    <3>6. \/ authority = info.color.color_authority
          \/ info.color.cicp = None \/ info.color.icc_profile = None
          \/ info.color.cicp = Identified(info.color.icc_profile)
      BY <3>1 DEF Mistakes
    <3>7. info.color \in SourceColors /\ f.color \in SourceColors
      BY <1>2 DEF IInv, TypeOK, Files, ImageInfo
    <3>8. QED
      BY <1>2, <3>3, <3>4, <3>5, <3>6, <3>7, MeaningKept
  <2>7. QED
    BY <1>1, <1>3, <2>4, <2>5, <2>6 DEF FileTellsTruth, ColourKept
<1>9. QED
  BY <1>5, <1>6, <1>7, <1>8 DEF IInv

THEOREM NextIInv == IInv /\ [Next]_vars => IInv'
<1> SUFFICES ASSUME IInv, [Next]_vars PROVE IInv'
  OBVIOUS
<1>1. ASSUME NEW field \in ColorFields, DescribeColor(field) PROVE IInv'
  BY <1>1, DescribeColorStep
<1>2. ASSUME NEW field \in Extras, DescribeExtra(field) PROVE IInv'
  BY <1>2, DescribeExtraStep
<1>3. ASSUME NEW group \in {Embedded, ColorFields \cup HdrVolume}, DescribeGroup(group) PROVE IInv'
  BY <1>3, DescribeGroupStep
<1>4. ASSUME NEW native \in Natives, NEW wanted \in Lists, NEW accepted \in Lists,
             NEW target \in Corrections \cup {None}, Decode(native, wanted, accepted, target)
      PROVE IInv'
  BY <1>4, DecodeStep
<1>5. ASSUME NEW embed \in EncodePolicies, NEW encoder \in Encoders,
             NEW authority \in {"Cicp", "Icc"}, NEW allow \in DecodePolicies,
             NEW decoder \in Decoders, Encode(embed, encoder, authority, allow, decoder)
      PROVE IInv'
  BY <1>5, EncodeStep
<1>6. CASE UNCHANGED vars
  BY <1>6 DEF vars, lists, IInv, TypeOK, Reported, Agreed, Corrected, FileTellsTruth, ColourKept
<1>7. QED
  BY <1>1, <1>2, <1>3, <1>4, <1>5, <1>6 DEF Next

THEOREM IInvAlways == Spec => []IInv
<1>1. Init => IInv
  BY InitIInv
<1>2. IInv /\ [Next]_vars => IInv'
  BY NextIInv
<1>3. QED
  BY <1>1, <1>2, PTL DEF Spec

-----------------------------------------------------------------------------
(* What has been negotiated comes from the decoder's list, with its label.    *)
LEMMA LabelledAsResolved ==
  ASSUME IInv, output # None
  PROVE  output.colour = resolve_color(info.color, corrected_to)
<1>1. IsList(preferred) /\ IsList(available) /\ output = negotiate_pixel_format(preferred, available, None)
  BY ListsAreLists DEF IInv, Agreed
<1>2. PICK i \in DOMAIN available : output = available[i]
  BY <1>1, NegotiatedIsAvailable
<1>3. QED
  BY <1>2 DEF IInv, Agreed

(* The colour, the profiles and the metadata stay of their types.             *)
THEOREM TranscodeTypeOK == Spec => []TypeOK
<1>1. IInv => TypeOK
  BY DEF IInv
<1>2. QED
  BY <1>1, IInvAlways, PTL

(* No caller, codec or order of calls puts a wrong colour on the pixels.      *)
THEOREM LabelledTruly == Spec => []OutputIsLabelledTruly
<1>1. IInv => OutputIsLabelledTruly
  <2> SUFFICES ASSUME IInv, output # None PROVE OutputIsLabelledTruly
    BY DEF OutputIsLabelledTruly
  <2>1. info.color \in SourceColors
    BY DEF IInv, TypeOK, Files, ImageInfo
  <2>2. output.colour = IF corrected_to # None THEN corrected_to ELSE Meaning(info.color)
    BY <2>1, LabelledAsResolved, ResolvedIsMeant
  <2>3. ASSUME ColourKept PROVE output.colour = pixels
    <3>1. CASE corrected_to # None
      BY <2>2, <3>1 DEF IInv, Corrected
    <3>2. CASE corrected_to = None
      <4>1. todo = {}
        BY NothingYet DEF IInv
      <4>2. Meaning(info.color) = Meaning(file.color)
        BY <2>3, <4>1, ReportedMeansTheSame DEF IInv
      <4>3. QED
        BY <2>2, <3>2, <4>2, <2>3 DEF IInv, FileTellsTruth
    <3>3. QED
      BY <3>1, <3>2
  <2>4. ASSUME corrected_to = None, CicpCounts(info.color),
               NEW described \in {info.color, FromInfo}
        PROVE  output.colour = Colour(color_primaries(described), transfer_function(described))
    <3>1. output.colour = info.color.cicp
      <4>1. ~ProfileCounts(info.color)
        BY <2>1, <2>4 DEF SourceColors, CicpCounts, ProfileCounts
      <4>2. Meaning(info.color) = info.color.cicp
        BY <2>4, <4>1 DEF Meaning
      <4>3. QED
        BY <2>2, <2>4, <4>2
    <3>2. described.cicp = info.color.cicp
      BY <2>4 DEF FromInfo
    <3>3. info.color.cicp \in Cicps /\ info.color.cicp # None
      BY <2>1, <2>4 DEF SourceColors, CicpCounts
    <3>4. QED
      BY <3>1, <3>2, <3>3, ColorAssumption DEF color_primaries, transfer_function
  <2>5. QED
    BY <2>3, <2>4 DEF OutputIsLabelledTruly
<1>2. QED
  BY <1>1, IInvAlways, PTL

(* Colour and metadata survive any number of hops that lose nothing.          *)
THEOREM TruthKept == Spec => []FileTellsTruth
<1>1. IInv => FileTellsTruth
  BY DEF IInv
<1>2. QED
  BY <1>1, IInvAlways, PTL

(* Pixels labelled HDR come from a description that says HDR.                 *)
THEOREM HdrNoticed == Spec => []HdrIsNoticed
<1>1. IInv => HdrIsNoticed
  <2> SUFFICES ASSUME IInv, output # None, corrected_to = None, IsHdr(output.colour)
               PROVE has_hdr_transfer(info.color)
    BY DEF HdrIsNoticed
  <2>1. info.color \in SourceColors
    BY DEF IInv, TypeOK, Files, ImageInfo
  <2>2. output.colour = Meaning(info.color)
    BY <2>1, LabelledAsResolved, ResolvedIsMeant
  <2>3. CASE CicpCounts(info.color)
    <3>1. ~ProfileCounts(info.color)
      BY <2>1, <2>3 DEF SourceColors, CicpCounts, ProfileCounts
    <3>2. output.colour = info.color.cicp /\ info.color.cicp # None
      BY <2>2, <2>3, <3>1 DEF Meaning, CicpCounts
    <3>3. QED
      BY <3>2 DEF has_hdr_transfer
  <2>4. CASE ~CicpCounts(info.color) /\ ProfileCounts(info.color)
    <3>1. info.color.icc_profile \in Profiles
      BY <2>1, <2>4 DEF SourceColors, ProfileCounts
    <3>2. output.colour = Identified(info.color.icc_profile)
      BY <2>2, <2>4 DEF Meaning
    <3>3. info.color.icc_profile.identified # None
      BY <3>2 DEF Identified, Unknown, Colour, IsHdr
    <3>4. QED
      BY <2>4, <3>1, <3>2, <3>3, ColorAssumption DEF Identified, has_hdr_transfer, ProfileCounts
  <2>5. CASE ~CicpCounts(info.color) /\ ~ProfileCounts(info.color)
    <3>1. output.colour = LegacyDefault
      BY <2>2, <2>5 DEF Meaning
    <3>2. QED
      BY <3>1 DEF LegacyDefault, Colour, IsHdr
  <2>6. QED
    BY <2>3, <2>4, <2>5
<1>2. QED
  BY <1>1, IInvAlways, PTL

(* Who prefers what the encoder takes gets what it takes.                     *)
THEOREM CommonFound == Spec => []CommonFormatIsFound
<1>1. IInv => CommonFormatIsFound
  <2> SUFFICES ASSUME IInv, output # None,
                      \A i \in DOMAIN preferred : is_format_available(preferred[i].format, supported),
                      \E i \in DOMAIN preferred : is_format_available(preferred[i].format, available)
               PROVE best_encode_format(output, supported, None) # None
    BY DEF CommonFormatIsFound
  <2> DEFINE matched == {i \in DOMAIN preferred : SameFormat(preferred[i], available) # {}}
             m == Least(matched)
  <2>1. /\ IsList(preferred) /\ IsList(available) /\ IsList(supported)
        /\ \A i \in DOMAIN supported : supported[i] # None
        /\ output = negotiate_pixel_format(preferred, available, None)
    BY ListsAreLists DEF IInv, Agreed
  <2>2. matched # {} /\ available # <<>>
    BY EmptyIsList DEF is_format_available, SameFormat
  <2>3. m \in matched
    BY <2>1, <2>2, Indices, LeastIsOne
  <2>4. output = BestMatch(preferred[m], available)
    BY <2>1, <2>2 DEF negotiate_pixel_format
  <2> HIDE DEF m
  <2>5. m \in DOMAIN preferred /\ SameFormat(preferred[m], available) # {}
    BY <2>3
  <2>6. output.format = preferred[m].format
    BY <2>1, <2>4, <2>5, BestMatchIsThere
  <2>7. SameFormat(output, supported) # {}
    BY <2>5, <2>6 DEF is_format_available, SameFormat
  <2>8. \E i \in DOMAIN supported : BestMatch(output, supported) = supported[i]
    BY <2>1, <2>7, BestMatchIsThere
  <2>9. QED
    BY <2>1, <2>7, <2>8 DEF best_encode_format
<1>2. QED
  BY <1>1, IInvAlways, PTL

-----------------------------------------------------------------------------
(* Extensions: first what the operations do to one owner's Vec, then the type *)
(* invariant, then the inductive invariant: ExtensionsTypeOK, OnePerType,     *)
(* StrongCountsHolders and OneFate.                                          *)

(* What swap_remove(i) leaves: every other entry, the last one in slot i. *)
LEMMA SwapRemoveProperties ==
  ASSUME NEW S, NEW s \in Seq(S), NEW i \in 1..Len(s)
  PROVE  /\ SwapRemove(s, i) \in Seq(S)
         /\ Len(SwapRemove(s, i)) = Len(s) - 1
         /\ \A j \in 1..(Len(s) - 1) :
              SwapRemove(s, i)[j] = IF j = i THEN s[Len(s)] ELSE s[j]
<1>1. Len(s) \in Nat /\ Len(s) >= 1
  BY LenProperties
<1>2. \A j \in 1..(Len(s) - 1) : (IF j = i THEN s[Len(s)] ELSE s[j]) \in S
  BY <1>1, ElementOfSeq
<1>3. SwapRemove(s, i) \in [1..(Len(s) - 1) -> S]
  BY <1>2 DEF SwapRemove
<1>4. SwapRemove(s, i) \in Seq(S)
  BY <1>1, <1>3, SeqDef
<1>5. Len(SwapRemove(s, i)) = Len(s) - 1
  BY <1>1, <1>3, <1>4, LenProperties
<1>6. QED
  BY <1>4, <1>5 DEF SwapRemove

(* The type is found where it is, if it is stored at most once. *)
LEMMA PositionFound ==
  ASSUME ExtensionsTypeOK, OnePerType, NEW o \in Owners, NEW t \in Types, Contains(o, t)
  PROVE  /\ Position(o, t) \in DOMAIN entries[o]
         /\ entries[o][Position(o, t)].type = t
<1>1. PICK i \in DOMAIN entries[o] : entries[o][i].type = t
  BY DEF Contains
<1>2. \A j \in 1..(i - 1) : entries[o][j].type # t
  <2> SUFFICES ASSUME NEW j \in 1..(i - 1), entries[o][j].type = t
               PROVE  FALSE
    OBVIOUS
  <2>1. DOMAIN entries[o] = 1..Len(entries[o]) /\ Len(entries[o]) \in Nat
    BY LenProperties DEF ExtensionsTypeOK
  <2>2. j \in DOMAIN entries[o] /\ j # i
    BY <2>1
  <2>3. QED
    BY <1>1, <2>2 DEF OnePerType
<1>3. QED
  BY <1>1, <1>2 DEF Position

(* No map and no call in progress refers to a value not inserted yet. *)
RefsCreated == \A o \in Owners : \A a \in Refs(o) : a <= created

(* ExtensionsTypeOK needs OnePerType, for the entry Position finds to exist, and      *)
(* OnePerType needs RefsCreated, for a new value to disturb no old entry.   *)
Shape == ExtensionsTypeOK /\ OnePerType /\ RefsCreated

(* One Vec's share of OnePerType and RefsCreated. *)
WellKept(s, k, n) ==
  \A i, j \in DOMAIN s : /\ s[i].type = s[j].type => i = j
                         /\ k[s[i].arc] = s[i].type
                         /\ s[i].arc <= n

ArcsOf(s) == {s[i].arc : i \in DOMAIN s}

(* OnePerType and RefsCreated, owner by owner. *)
LEMMA ShapeByOwner ==
  ASSUME ExtensionsTypeOK
  PROVE  OnePerType /\ RefsCreated <=>
           \A o \in Owners : /\ WellKept(entries[o], kind, created)
                             /\ pending[o] # Idle => pending[o].arc <= created
  BY DEF OnePerType, RefsCreated, WellKept, Refs, Held, Disposing

(* Two entries of a well-kept Vec never share a value. *)
LEMMA DistinctArcs ==
  ASSUME NEW s, NEW k, NEW n, WellKept(s, k, n),
         NEW i \in DOMAIN s, NEW j \in DOMAIN s, s[i].arc = s[j].arc
  PROVE  i = j
  BY DEF WellKept

(* swap_remove keeps a Vec well kept and gives up one value, that of slot i. *)
LEMMA SwapRemoveKeeps ==
  ASSUME NEW s \in Seq(Entry), NEW k, NEW n, WellKept(s, k, n), NEW i \in 1..Len(s)
  PROVE  /\ SwapRemove(s, i) \in Seq(Entry)
         /\ WellKept(SwapRemove(s, i), k, n)
         /\ ArcsOf(SwapRemove(s, i)) = ArcsOf(s) \ {s[i].arc}
<1> DEFINE r == SwapRemove(s, i)
<1>0. PICK m \in Nat : /\ m = Len(s)
                       /\ DOMAIN s = 1..m
                       /\ DOMAIN r = 1..(m - 1)
                       /\ i \in 1..m
                       /\ \A j \in 1..(m - 1) : r[j] = IF j = i THEN s[m] ELSE s[j]
  <2>1. Len(s) \in Nat /\ DOMAIN s = 1..Len(s) /\ r \in Seq(Entry)
    BY SwapRemoveProperties, LenProperties
  <2>2. DOMAIN r = 1..(Len(s) - 1)
    BY <2>1, SwapRemoveProperties, LenProperties
  <2>3. QED
    BY <2>1, <2>2, SwapRemoveProperties
<1> HIDE DEF r
<1> DEFINE src(j) == IF j = i THEN m ELSE j
<1>1. \A j \in DOMAIN r : r[j] = s[src(j)]
  BY <1>0
<1>2. \A j \in DOMAIN r : src(j) \in DOMAIN s
  BY <1>0
<1>3. \A j, l \in DOMAIN r : src(j) = src(l) => j = l
  BY <1>0
<1>4. \A j \in DOMAIN r : src(j) # i
  BY <1>0
<1>5. \A l \in DOMAIN s : l # i => \E j \in DOMAIN r : src(j) = l
  <2> SUFFICES ASSUME NEW l \in DOMAIN s, l # i
               PROVE  \E j \in DOMAIN r : src(j) = l
    OBVIOUS
  <2>1. CASE l = m
    <3>1. i \in DOMAIN r /\ src(i) = l
      BY <1>0, <2>1
    <3>2. QED
      BY <3>1
  <2>2. CASE l # m
    <3>1. l \in DOMAIN r /\ src(l) = l
      BY <1>0, <2>2
    <3>2. QED
      BY <3>1
  <2>3. QED
    BY <2>1, <2>2
<1> HIDE DEF src
<1>6. WellKept(r, k, n)
  BY <1>1, <1>2, <1>3 DEF WellKept
<1>7. ArcsOf(r) = ArcsOf(s) \ {s[i].arc}
  <2>1. \A j \in DOMAIN r : r[j].arc # s[i].arc
    BY <1>0, <1>1, <1>2, <1>4, DistinctArcs
  <2>2. QED
    BY <1>1, <1>2, <1>5, <2>1 DEF ArcsOf
<1>8. QED
  BY <1>6, <1>7, SwapRemoveProperties DEF r

(* Pushing an entry of a type not stored yet keeps a Vec well kept. *)
LEMMA PushKeeps ==
  ASSUME NEW s \in Seq(Entry), NEW k, NEW n, WellKept(s, k, n),
         NEW e \in Entry, k[e.arc] = e.type, e.arc <= n,
         \A j \in DOMAIN s : s[j].type # e.type
  PROVE  /\ Append(s, e) \in Seq(Entry)
         /\ WellKept(Append(s, e), k, n)
         /\ ArcsOf(Append(s, e)) = ArcsOf(s) \cup {e.arc}
<1> DEFINE r == Append(s, e)
<1>1. /\ r \in Seq(Entry)
      /\ \A j \in DOMAIN r : \/ j \in DOMAIN s /\ r[j] = s[j]
                             \/ j = Len(s) + 1 /\ r[j] = e
      /\ \A j \in DOMAIN s : j \in DOMAIN r /\ r[j] = s[j]
      /\ Len(s) + 1 \in DOMAIN r /\ r[Len(s) + 1] = e
  BY AppendProperties, LenProperties
<1> HIDE DEF r
<1>2. WellKept(r, k, n)
  BY <1>1 DEF WellKept
<1>3. ArcsOf(r) = ArcsOf(s) \cup {e.arc}
  BY <1>1 DEF ArcsOf
<1>4. QED
  BY <1>1, <1>2, <1>3 DEF r

(* Replacing an entry by one of the same type keeps a Vec well kept, and      *)
(* gives up the value replaced.                                             *)
LEMMA ReplaceKeeps ==
  ASSUME NEW s \in Seq(Entry), NEW k, NEW n, WellKept(s, k, n),
         NEW i \in DOMAIN s, NEW e \in Entry,
         k[e.arc] = e.type, e.arc <= n, s[i].type = e.type
  PROVE  /\ [s EXCEPT ![i] = e] \in Seq(Entry)
         /\ WellKept([s EXCEPT ![i] = e], k, n)
         /\ ArcsOf([s EXCEPT ![i] = e]) = (ArcsOf(s) \ {s[i].arc}) \cup {e.arc}
<1> DEFINE r == [s EXCEPT ![i] = e]
<1>1. /\ r \in Seq(Entry)
      /\ DOMAIN r = DOMAIN s
      /\ \A j \in DOMAIN r : r[j] = IF j = i THEN e ELSE s[j]
  BY ExceptSeq, LenProperties
<1> HIDE DEF r
<1>2. WellKept(r, k, n)
  BY <1>1 DEF WellKept
<1>3. ArcsOf(r) = (ArcsOf(s) \ {s[i].arc}) \cup {e.arc}
  <2>1. \A j \in DOMAIN s : j # i => s[j].arc # s[i].arc
    BY DistinctArcs
  <2>2. QED
    BY <1>1, <2>1 DEF ArcsOf
<1>4. QED
  BY <1>1, <1>2, <1>3 DEF r

(* Dropping the first entry keeps a Vec well kept, and gives up its value. *)
LEMMA TailKeeps ==
  ASSUME NEW s \in Seq(Entry), NEW k, NEW n, WellKept(s, k, n), s # <<>>
  PROVE  /\ Tail(s) \in Seq(Entry)
         /\ WellKept(Tail(s), k, n)
         /\ 1 \in DOMAIN s /\ Head(s) = s[1]
         /\ ArcsOf(Tail(s)) = ArcsOf(s) \ {Head(s).arc}
<1>1. /\ Tail(s) \in Seq(Entry)
      /\ Len(s) \in Nat
      /\ DOMAIN s = 1..Len(s)
      /\ DOMAIN Tail(s) = 1..(Len(s) - 1)
      /\ \A j \in DOMAIN Tail(s) : Tail(s)[j] = s[j + 1]
  BY HeadTailProperties, LenProperties, EmptySeq
<1>2. \A j \in DOMAIN Tail(s) : j + 1 \in DOMAIN s
  BY <1>1
<1>3. \A j, l \in DOMAIN Tail(s) : j + 1 = l + 1 => j = l
  BY <1>1
<1> DEFINE r == Tail(s)
<1> HIDE DEF r
<1>4. WellKept(r, k, n)
  BY <1>1, <1>2, <1>3 DEF WellKept, r
<1>5. 1 \in DOMAIN s /\ Head(s) = s[1]
  BY <1>1, EmptySeq
<1>6. ArcsOf(r) = ArcsOf(s) \ {s[1].arc}
  <2>1. \A j \in DOMAIN r : r[j].arc # s[1].arc
    BY <1>1, <1>2, <1>5, DistinctArcs DEF r
  <2>2. \A l \in DOMAIN s : l # 1 => \E j \in DOMAIN r : r[j] = s[l]
    <3> SUFFICES ASSUME NEW l \in DOMAIN s, l # 1
                 PROVE  l - 1 \in DOMAIN r /\ r[l - 1] = s[l]
      OBVIOUS
    <3>1. QED
      BY <1>1 DEF r
  <2>3. \A j \in DOMAIN r : \E l \in DOMAIN s : r[j] = s[l]
    BY <1>1, <1>2 DEF r
  <2>4. QED
    BY <2>1, <2>2, <2>3 DEF ArcsOf
<1>7. QED
  BY <1>1, <1>4, <1>5, <1>6 DEF r

(* What one step must show of the owners to keep the shape. *)
LEMMA ShapeNext ==
  ASSUME ExtensionsTypeOK',
         \A p \in Owners : /\ WellKept(entries'[p], kind', created')
                           /\ pending'[p] # Idle => pending'[p].arc <= created'
  PROVE  Shape'
  BY DEF Shape, OnePerType, RefsCreated, WellKept, Refs, Held, Disposing

(* What the shape says of one owner. *)
LEMMA OwnerShape ==
  ASSUME Shape, NEW o \in Owners
  PROVE  /\ entries[o] \in Seq(Entry)
         /\ DOMAIN entries[o] = 1..Len(entries[o])
         /\ Len(entries[o]) \in Nat
         /\ \A i \in DOMAIN entries[o] : entries[o][i] \in Entry
         /\ WellKept(entries[o], kind, created)
         /\ pending[o] # Idle => pending[o].arc \in 1..created
         /\ created \in Nat /\ created <= MaxValues
<1>1. entries[o] \in Seq(Entry)
  BY DEF Shape, ExtensionsTypeOK
<1>2. pending[o] # Idle => pending[o].arc \in 1..created
  BY ShapeByOwner DEF Shape, ExtensionsTypeOK, Arcs
<1>3. QED
  BY <1>1, <1>2, ShapeByOwner, LenProperties, ElementOfSeq, ExtensionsAssumption
     DEF Shape, ExtensionsTypeOK

(* The value inserted is new, and disturbs no entry stored before it. *)
LEMMA InsertFacts ==
  ASSUME Shape, NEW o \in Owners, NEW t \in Types, Insert(o, t)
  PROVE  /\ created + 1 \in Arcs /\ created \in Nat
         /\ kind' = [kind EXCEPT ![created + 1] = t]
         /\ created' = created + 1
         /\ kind'[created + 1] = t
         /\ \A a \in 1..created : kind'[a] = kind[a]
         /\ \A p \in Owners : WellKept(entries[p], kind', created')
<1> DEFINE new == created + 1
<1>1. new \in Arcs /\ created \in Nat
  BY ExtensionsAssumption, OwnerShape DEF Insert, Arcs
<1>2. /\ kind' = [kind EXCEPT ![new] = t]
      /\ created' = new
      /\ kind'[new] = t
      /\ \A a \in 1..created : kind'[a] = kind[a]
  BY <1>1 DEF Insert, Shape, ExtensionsTypeOK, Arcs
<1>3. \A p \in Owners : WellKept(entries[p], kind', created')
  <2> SUFFICES ASSUME NEW p \in Owners, NEW i \in DOMAIN entries[p]
               PROVE  kind'[entries[p][i].arc] = entries[p][i].type
                      /\ entries[p][i].arc <= created'
    BY OwnerShape DEF WellKept
  <2>1. entries[p][i].arc \in 1..created
    BY OwnerShape DEF WellKept, Entry, Arcs
  <2>2. QED
    BY <1>1, <1>2, <2>1, OwnerShape DEF WellKept
<1>4. QED
  BY <1>1, <1>2, <1>3

(* insert keeps the shape, whether it replaces or pushes. *)
LEMMA InsertShape ==
  ASSUME Shape, NEW o \in Owners, NEW t \in Types, Insert(o, t)
  PROVE  Shape'
<1> DEFINE new == created + 1
<1>1. new \in Arcs /\ created \in Nat
  BY InsertFacts
<1>2. /\ kind' = [kind EXCEPT ![new] = t]
      /\ created' = new
      /\ kind'[new] = t
      /\ \A a \in 1..created : kind'[a] = kind[a]
  BY InsertFacts
<1>3. \A p \in Owners : WellKept(entries[p], kind', created')
  BY InsertFacts
<1> HIDE DEF new
<1>4. CASE Contains(o, t)
  <2> DEFINE i == Position(o, t)
             old == entries[o][i]
             e == [type |-> t, arc |-> new]
             s == [entries[o] EXCEPT ![i] = e]
             d == Dispose(old.arc, t)
  <2>1. i \in DOMAIN entries[o] /\ old.type = t /\ old \in Entry
    BY <1>4, PositionFound, OwnerShape DEF Shape
  <2>2. e \in Entry /\ [old EXCEPT !.arc = new] = e
    BY <2>1, <1>1 DEF Entry
  <2>3. entries' = [entries EXCEPT ![o] = s] /\ pending' = [pending EXCEPT ![o] = d]
    BY <1>4, <2>2 DEF Insert, new
  <2>4. s \in Seq(Entry) /\ WellKept(s, kind', created')
    <3>1. kind'[e.arc] = e.type /\ e.arc <= created' /\ old.type = e.type
      BY <1>1, <1>2, <2>1 DEF Arcs
    <3>2. QED
      BY <1>3, <2>1, <2>2, <3>1, OwnerShape, ReplaceKeeps
  <2>5. d \in [stage : Stages, arc : Arcs] /\ d.arc <= created'
    BY <2>1, <1>3 DEF Dispose, Stages, Entry, WellKept
  <2> HIDE DEF s, d
  <2>6. ExtensionsTypeOK'
    BY <1>1, <1>2, <2>3, <2>4, <2>5 DEF Shape, ExtensionsTypeOK, Insert, Arcs, new
  <2>7. ASSUME NEW p \in Owners
        PROVE  /\ WellKept(entries'[p], kind', created')
               /\ pending'[p] # Idle => pending'[p].arc <= created'
    <3>1. CASE p = o
      BY <3>1, <2>3, <2>4, <2>5 DEF Shape, ExtensionsTypeOK
    <3>2. CASE p # o
      <4>1. entries'[p] = entries[p] /\ pending'[p] = pending[p]
        BY <3>2, <2>3 DEF Shape, ExtensionsTypeOK
      <4>2. pending[p] # Idle => pending[p].arc \in 1..created
        BY OwnerShape
      <4>3. \A a \in 1..created : a <= created'
        BY <1>1, <1>2 DEF new
      <4>4. QED
        BY <4>1, <4>2, <4>3, <1>3
    <3>3. QED
      BY <3>1, <3>2
  <2>8. QED
    BY <2>6, <2>7, ShapeNext
<1>5. CASE ~Contains(o, t)
  <2> DEFINE e == [type |-> t, arc |-> new]
             s == Append(entries[o], e)
  <2>1. entries' = [entries EXCEPT ![o] = s] /\ pending' = pending
    BY <1>5 DEF Insert, new
  <2>2. e \in Entry /\ kind'[e.arc] = e.type /\ e.arc <= created'
    BY <1>1, <1>2 DEF Entry, Arcs
  <2>3. s \in Seq(Entry) /\ WellKept(s, kind', created')
    <3>1. \A j \in DOMAIN entries[o] : entries[o][j].type # e.type
      BY <1>5 DEF Contains
    <3>2. QED
      BY <1>3, <2>2, <3>1, OwnerShape, PushKeeps
  <2> HIDE DEF s
  <2>4. ExtensionsTypeOK'
    BY <1>1, <1>2, <2>1, <2>3 DEF Shape, ExtensionsTypeOK, Insert, Arcs, new
  <2>5. ASSUME NEW p \in Owners
        PROVE  /\ WellKept(entries'[p], kind', created')
               /\ pending'[p] # Idle => pending'[p].arc <= created'
    <3>1. WellKept(entries'[p], kind', created')
      BY <2>1, <2>3, <1>3 DEF Shape, ExtensionsTypeOK
    <3>2. QED
      BY <3>1, <2>1, <1>1, <1>2, OwnerShape DEF new
  <2>6. QED
    BY <2>4, <2>5, ShapeNext
<1>6. QED
  BY <1>4, <1>5

-----------------------------------------------------------------------------
(* Disposals in progress, and what an owner holds when d is its disposal. *)
Disposals == [stage : Stages, arc : Arcs] \cup {Idle}

Arc(d) == IF d = Idle THEN {} ELSE {d.arc}

(* An owner reaches the values of its Vec and of its disposal. *)
LEMMA RefsOfVec ==
  ASSUME NEW o \in Owners
  PROVE  /\ Held(o) = ArcsOf(entries[o])
         /\ Disposing(o) = Arc(pending[o])
         /\ Refs(o) = ArcsOf(entries[o]) \cup Arc(pending[o])
  BY DEF Held, ArcsOf, Disposing, Arc, Refs

(* Most steps change the Vec and the disposal of one owner only. *)
LEMMA OneOwner ==
  ASSUME Shape, NEW o \in Owners, NEW s \in Seq(Entry), NEW d \in Disposals,
         entries' = [entries EXCEPT ![o] = s], pending' = [pending EXCEPT ![o] = d]
  PROVE  \A p \in Owners :
           /\ entries'[p] = IF p = o THEN s ELSE entries[p]
           /\ pending'[p] = IF p = o THEN d ELSE pending[p]
           /\ Held(p)' = IF p = o THEN ArcsOf(s) ELSE Held(p)
           /\ Disposing(p)' = IF p = o THEN Arc(d) ELSE Disposing(p)
<1>1. entries \in [Owners -> Seq(Entry)] /\ pending \in [Owners -> Disposals]
  BY DEF Shape, ExtensionsTypeOK, Disposals
<1>2. \A p \in Owners : /\ entries'[p] = IF p = o THEN s ELSE entries[p]
                        /\ pending'[p] = IF p = o THEN d ELSE pending[p]
  BY <1>1
<1>3. ASSUME NEW p \in Owners
      PROVE  /\ Held(p)' = IF p = o THEN ArcsOf(s) ELSE Held(p)
             /\ Disposing(p)' = IF p = o THEN Arc(d) ELSE Disposing(p)
  <2>1. CASE p = o
    BY <1>2, <2>1 DEF Held, ArcsOf, Disposing, Arc
  <2>2. CASE p # o
    BY <1>2, <2>2 DEF Held, Disposing
  <2>3. QED
    BY <2>1, <2>2
<1>4. QED
  BY <1>2, <1>3

(* Such a step keeps the shape if the Vec it writes is well kept. *)
LEMMA OneOwnerShape ==
  ASSUME Shape, NEW o \in Owners, NEW s \in Seq(Entry), NEW d \in Disposals,
         entries' = [entries EXCEPT ![o] = s], pending' = [pending EXCEPT ![o] = d],
         created' = created, kind' = kind,
         WellKept(s, kind, created), d # Idle => d.arc <= created,
         live' \subseteq Owners, strong' \in [Arcs -> Nat],
         taken' \subseteq Arcs, dropped' \subseteq Arcs
  PROVE  Shape'
<1>0. \A p \in Owners : /\ entries'[p] = IF p = o THEN s ELSE entries[p]
                        /\ pending'[p] = IF p = o THEN d ELSE pending[p]
  <2>1. entries \in [Owners -> Seq(Entry)] /\ pending \in [Owners -> Disposals]
    BY DEF Shape, ExtensionsTypeOK, Disposals
  <2>2. QED
    BY <2>1
<1>1. ExtensionsTypeOK'
  BY DEF Shape, ExtensionsTypeOK, Disposals
<1>2. ASSUME NEW p \in Owners
      PROVE  /\ WellKept(entries'[p], kind', created')
             /\ pending'[p] # Idle => pending'[p].arc <= created'
  <2>1. CASE p = o
    <3>1. entries'[p] = s /\ pending'[p] = d
      BY <1>0, <2>1
    <3>2. QED
      BY <3>1
  <2>2. CASE p # o
    <3>1. entries'[p] = entries[p] /\ pending'[p] = pending[p]
      BY <1>0, <2>2
    <3>2. WellKept(entries[p], kind, created)
          /\ (pending[p] # Idle => pending[p].arc <= created)
      BY ShapeByOwner DEF Shape
    <3>3. QED
      BY <3>1, <3>2
  <2>3. QED
    BY <2>1, <2>2
<1>3. QED
  BY <1>1, <1>2, ShapeNext

(* The owners that reach a value change as the step says, and the value an  *)
(* owner is disposing of is not in its own map.                             *)
Apart == \A o \in Owners : Disposing(o) \cap Held(o) = {}

SameRefs == \A p \in Owners : Refs(p)' = Refs(p)

(* An idle owner holds the entries of its map and nothing else. *)
LEMMA IdleRefs ==
  ASSUME NEW o \in Owners, pending[o] = Idle
  PROVE  Refs(o) = Held(o) /\ Disposing(o) = {}
  BY DEF Refs, Disposing

(* remove turns a reference of the map into one of the disposal. *)
LEMMA RemoveStep ==
  ASSUME Shape, Apart, NEW o \in Owners, NEW t \in Types, Remove(o, t)
  PROVE  Shape' /\ Apart' /\ SameRefs
<1> DEFINE i == Position(o, t)
           old == entries[o][i]
           s == SwapRemove(entries[o], i)
           d == Dispose(old.arc, t)
<1>1. i \in DOMAIN entries[o] /\ old \in Entry /\ i \in 1..Len(entries[o])
  BY PositionFound, OwnerShape DEF Shape, Remove
<1>2. entries' = [entries EXCEPT ![o] = s] /\ pending' = [pending EXCEPT ![o] = d]
  BY DEF Remove
<1>3. /\ s \in Seq(Entry)
      /\ WellKept(s, kind, created)
      /\ ArcsOf(s) = ArcsOf(entries[o]) \ {old.arc}
  BY <1>1, OwnerShape, SwapRemoveKeeps
<1>4. /\ d \in Disposals /\ d # Idle /\ d.arc = old.arc
      /\ d.arc <= created
  BY <1>1, OwnerShape DEF Disposals, Dispose, Stages, Entry, Idle, WellKept
<1>5. old.arc \in ArcsOf(entries[o])
  BY <1>1 DEF ArcsOf
<1> HIDE DEF s, d, old
<1>6. Shape'
  BY <1>2, <1>3, <1>4, OneOwnerShape DEF Remove, Shape, ExtensionsTypeOK
<1>7. \A p \in Owners : /\ Held(p)' = IF p = o THEN Held(o) \ {old.arc} ELSE Held(p)
                        /\ Disposing(p)' = IF p = o THEN {old.arc} ELSE Disposing(p)
  <2>1. Arc(d) = {old.arc} /\ ArcsOf(s) = Held(o) \ {old.arc}
    BY <1>3, <1>4, RefsOfVec DEF Arc
  <2>2. QED
    BY <1>2, <1>3, <1>4, <2>1, OneOwner
<1>8. Apart'
  BY <1>7 DEF Apart
<1>9. SameRefs
  <2>1. Refs(o) = Held(o) /\ old.arc \in Held(o)
    BY <1>5, IdleRefs, RefsOfVec DEF Remove, CanAct
  <2>2. QED
    BY <1>7, <2>1 DEF SameRefs, Refs
<1>10. QED
  BY <1>6, <1>8, <1>9

(* What a pending reference is. *)
LEMMA PendingReference ==
  ASSUME Shape, NEW o \in Owners, pending[o] # Idle
  PROVE  /\ pending[o].arc \in Arcs
         /\ pending[o].stage \in Stages
         /\ pending[o].arc <= created
         /\ Disposing(o) = {pending[o].arc}
         /\ pending[o].arc \in Refs(o)
  BY OwnerShape DEF Shape, ExtensionsTypeOK, Disposing, Refs

(* A step that ends a disposal leaves the owner with its map alone. *)
LEMMA EndDisposal ==
  ASSUME Shape, Apart, NEW o \in Owners, pending[o] # Idle,
         pending' = [pending EXCEPT ![o] = Idle],
         UNCHANGED <<entries, live, created, kind>>,
         strong' \in [Arcs -> Nat], taken' \subseteq Arcs, dropped' \subseteq Arcs
  PROVE  /\ Shape' /\ Apart'
         /\ \A p \in Owners : Refs(p)' = IF p = o THEN Refs(o) \ {pending[o].arc}
                                                  ELSE Refs(p)
<1>1. entries' = [entries EXCEPT ![o] = entries[o]] /\ entries[o] \in Seq(Entry)
  BY DEF Shape, ExtensionsTypeOK
<1>2. Idle \in Disposals /\ WellKept(entries[o], kind, created)
  BY OwnerShape DEF Disposals
<1>3. Shape'
  BY <1>1, <1>2, OneOwnerShape DEF Shape, ExtensionsTypeOK
<1>4. \A p \in Owners : /\ Held(p)' = Held(p)
                        /\ Disposing(p)' = IF p = o THEN {} ELSE Disposing(p)
  <2>1. Arc(Idle) = {} /\ ArcsOf(entries[o]) = Held(o)
    BY RefsOfVec DEF Arc
  <2>2. \A p \in Owners : /\ Held(p)' = IF p = o THEN ArcsOf(entries[o]) ELSE Held(p)
                          /\ Disposing(p)' = IF p = o THEN Arc(Idle) ELSE Disposing(p)
    BY <1>1, <1>2, OneOwner
  <2>3. QED
    BY <2>1, <2>2
<1>5. Apart'
  BY <1>4 DEF Apart
<1>6. Refs(o) = Held(o) \cup {pending[o].arc} /\ pending[o].arc \notin Held(o)
  BY PendingReference DEF Refs, Apart
<1>7. QED
  BY <1>3, <1>4, <1>5, <1>6 DEF Refs

(* try_unwrap that fails only turns to dropping the reference. *)
LEMMA UnwrapFails ==
  ASSUME Shape, Apart, NEW o \in Owners, TryUnwrap(o), strong[pending[o].arc] # 1
  PROVE  Shape' /\ Apart' /\ SameRefs
<1> DEFINE s == entries[o]
           d == [pending[o] EXCEPT !.stage = "drop"]
<1>1. pending[o] # Idle
  BY DEF TryUnwrap, Idle
<1>2. pending[o] \in [stage : Stages, arc : Arcs]
  BY <1>1 DEF Shape, ExtensionsTypeOK
<1>3. d \in Disposals /\ d # Idle /\ d.arc = pending[o].arc /\ d.arc <= created
  BY <1>1, <1>2, PendingReference DEF Disposals, Stages, Idle
<1>4. pending' = [pending EXCEPT ![o] = d]
  BY DEF TryUnwrap
<1>5. entries' = [entries EXCEPT ![o] = s] /\ s \in Seq(Entry)
  BY DEF TryUnwrap, Shape, ExtensionsTypeOK
<1>6. WellKept(s, kind, created) /\ ArcsOf(s) = Held(o)
  BY OwnerShape, RefsOfVec
<1> HIDE DEF d, s
<1>7. Shape'
  BY <1>3, <1>4, <1>5, <1>6, OneOwnerShape DEF TryUnwrap, Shape, ExtensionsTypeOK
<1>8. \A p \in Owners : Held(p)' = Held(p) /\ Disposing(p)' = Disposing(p)
  <2>1. Arc(d) = Disposing(o)
    BY <1>1, <1>3, PendingReference DEF Arc
  <2> d \in Disposals
    BY <1>3
  <2>2. \A p \in Owners : /\ Held(p)' = IF p = o THEN ArcsOf(s) ELSE Held(p)
                          /\ Disposing(p)' = IF p = o THEN Arc(d) ELSE Disposing(p)
    BY <1>4, <1>5, OneOwner
  <2>3. QED
    BY <1>6, <2>1, <2>2
<1>9. QED
  BY <1>7, <1>8 DEF Apart, SameRefs, Refs

(* A dying map turns its first reference into one of the disposal. *)
LEMMA DropEntryStep ==
  ASSUME Shape, Apart, NEW o \in Owners, DropEntry(o)
  PROVE  Shape' /\ Apart' /\ SameRefs
<1> DEFINE s == Tail(entries[o])
           a == Head(entries[o]).arc
           d == [stage |-> "drop", arc |-> a]
<1>1. /\ s \in Seq(Entry)
      /\ WellKept(s, kind, created)
      /\ 1 \in DOMAIN entries[o] /\ Head(entries[o]) = entries[o][1]
      /\ ArcsOf(s) = ArcsOf(entries[o]) \ {a}
  BY OwnerShape, TailKeeps DEF DropEntry
<1>2. a \in ArcsOf(entries[o]) /\ a \in Arcs /\ a <= created
  BY <1>1, OwnerShape DEF ArcsOf, Entry, WellKept
<1>3. entries' = [entries EXCEPT ![o] = s] /\ pending' = [pending EXCEPT ![o] = d]
  BY DEF DropEntry
<1>4. d \in Disposals /\ d # Idle /\ d.arc = a
  BY <1>2 DEF Disposals, Stages, Idle
<1> HIDE DEF s, d, a
<1>5. Shape'
  BY <1>1, <1>2, <1>3, <1>4, OneOwnerShape DEF DropEntry, Shape, ExtensionsTypeOK
<1>6. \A p \in Owners : /\ Held(p)' = IF p = o THEN Held(o) \ {a} ELSE Held(p)
                        /\ Disposing(p)' = IF p = o THEN {a} ELSE Disposing(p)
  <2>1. Arc(d) = {a} /\ ArcsOf(s) = Held(o) \ {a}
    BY <1>1, <1>4, RefsOfVec DEF Arc
  <2>2. \A p \in Owners : /\ Held(p)' = IF p = o THEN ArcsOf(s) ELSE Held(p)
                          /\ Disposing(p)' = IF p = o THEN Arc(d) ELSE Disposing(p)
    BY <1>1, <1>3, <1>4, OneOwner
  <2>3. QED
    BY <2>1, <2>2
<1>7. Apart'
  BY <1>6 DEF Apart
<1>8. SameRefs
  <2>1. Refs(o) = Held(o) /\ a \in Held(o)
    BY <1>2, IdleRefs, RefsOfVec DEF DropEntry
  <2>2. QED
    BY <1>6, <2>1 DEF SameRefs, Refs
<1>9. QED
  BY <1>5, <1>7, <1>8

(* A map that goes out of scope still reaches its values. *)
LEMMA DiscardStep ==
  ASSUME Shape, Apart, NEW o \in Owners, Discard(o)
  PROVE  Shape' /\ Apart' /\ SameRefs
  BY DEF Discard, Shape, ExtensionsTypeOK, OnePerType, RefsCreated, Apart, SameRefs, Refs, Held,
         Disposing

(* The clone reaches what its original reaches. *)
LEMMA CloneStep ==
  ASSUME Shape, Apart, NEW o \in Owners, NEW p \in Owners, Clone(o, p)
  PROVE  /\ Shape' /\ Apart'
         /\ Refs(o) = Held(o) /\ Refs(p) = {} /\ o # p
         /\ \A q \in Owners : Refs(q)' = IF q = p THEN Held(o) ELSE Refs(q)
<1>1. /\ entries' = [entries EXCEPT ![p] = entries[o]]
      /\ pending' = [pending EXCEPT ![p] = Idle]
      /\ o # p
  BY DEF Clone, CanAct, Shape, ExtensionsTypeOK
<1>2. Refs(o) = Held(o) /\ Held(p) = {} /\ Refs(p) = {}
  BY IdleRefs DEF Clone, CanAct, Held
<1>3. Idle \in Disposals /\ entries[o] \in Seq(Entry) /\ WellKept(entries[o], kind, created)
  BY OwnerShape DEF Disposals
<1>4. strong' \in [Arcs -> Nat]
  BY DEF Clone, Shape, ExtensionsTypeOK
<1>5. Shape'
  <2>1. /\ UNCHANGED <<created, kind, taken, dropped>>
        /\ live' \subseteq Owners /\ taken' \subseteq Arcs /\ dropped' \subseteq Arcs
    BY DEF Clone, Shape, ExtensionsTypeOK
  <2>2. QED
    BY <1>1, <1>3, <1>4, <2>1, OneOwnerShape
<1>6. \A q \in Owners : /\ Held(q)' = IF q = p THEN Held(o) ELSE Held(q)
                        /\ Disposing(q)' = IF q = p THEN {} ELSE Disposing(q)
  <2>1. Arc(Idle) = {} /\ ArcsOf(entries[o]) = Held(o)
    BY RefsOfVec DEF Arc
  <2>2. QED
    BY <1>1, <1>3, <2>1, OneOwner
<1>7. Apart' /\ \A q \in Owners : Refs(q)' = IF q = p THEN Held(o) ELSE Refs(q)
  BY <1>6 DEF Apart, Refs
<1>8. QED
  BY <1>1, <1>2, <1>5, <1>7

(* The inserter alone reaches the new value; what it replaced it still holds, *)
(* to dispose of.                                                           *)
LEMMA InsertStep ==
  ASSUME Shape, Apart, NEW o \in Owners, NEW t \in Types, Insert(o, t)
  PROVE  /\ Shape' /\ Apart'
         /\ \A p \in Owners : created + 1 \notin Refs(p)
         /\ \A p \in Owners : Refs(p)' = IF p = o THEN Refs(o) \cup {created + 1}
                                                  ELSE Refs(p)
<1> DEFINE new == created + 1
           e == [type |-> t, arc |-> new]
<1>1. /\ e \in Entry /\ e.arc = new /\ e.type = t
      /\ e.arc <= created' /\ kind'[e.arc] = e.type
      /\ WellKept(entries[o], kind', created')
  BY InsertFacts DEF Entry, Arcs
<1>2. ASSUME NEW p \in Owners
      PROVE  new \notin Refs(p)
  BY InsertFacts DEF Shape, RefsCreated
<1>3. Refs(o) = Held(o) /\ Disposing(o) = {}
  BY IdleRefs DEF Insert, CanAct
<1> HIDE DEF new, e
<1>4. CASE Contains(o, t)
  <2> DEFINE i == Position(o, t)
             old == entries[o][i]
             s == [entries[o] EXCEPT ![i] = e]
             d == Dispose(old.arc, t)
  <2>1. i \in DOMAIN entries[o] /\ old.type = t /\ old \in Entry
    BY <1>4, PositionFound, OwnerShape DEF Shape
  <2>2. old.arc \in Held(o)
    BY <2>1 DEF Held
  <2>3. [old EXCEPT !.arc = new] = e
    BY <2>1 DEF Entry, e
  <2>4. entries' = [entries EXCEPT ![o] = s] /\ pending' = [pending EXCEPT ![o] = d]
    BY <1>4, <2>3 DEF Insert, new
  <2>5. /\ s \in Seq(Entry)
        /\ ArcsOf(s) = (ArcsOf(entries[o]) \ {old.arc}) \cup {new}
    BY <1>1, <2>1, OwnerShape, ReplaceKeeps
  <2>6. d \in Disposals /\ d # Idle /\ d.arc = old.arc
    BY <2>1 DEF Dispose, Disposals, Stages, Entry, Idle
  <2> HIDE DEF s, d, old
  <2>7. Arc(d) = {old.arc} /\ ArcsOf(s) = (Held(o) \ {old.arc}) \cup {new}
    BY <2>5, <2>6, RefsOfVec DEF Arc
  <2> d \in Disposals
    BY <2>6
  <2>8. \A p \in Owners : /\ Held(p)' = IF p = o THEN ArcsOf(s) ELSE Held(p)
                          /\ Disposing(p)' = IF p = o THEN Arc(d) ELSE Disposing(p)
    BY <2>4, <2>5, OneOwner
  <2>9. new # old.arc
    BY <1>2, <1>3, <2>2
  <2>10. QED
    BY <1>2, <1>3, <2>2, <2>7, <2>8, <2>9, InsertShape DEF Apart, Refs, new
<1>5. CASE ~Contains(o, t)
  <2> DEFINE s == Append(entries[o], e)
  <2>1. entries' = [entries EXCEPT ![o] = s]
    BY <1>5 DEF Insert, e, new
  <2>2. pending' = [pending EXCEPT ![o] = Idle]
    BY <1>5 DEF Insert, CanAct, Shape, ExtensionsTypeOK
  <2>3. \A j \in DOMAIN entries[o] : entries[o][j].type # e.type
    BY <1>1, <1>5 DEF Contains
  <2>4. s \in Seq(Entry) /\ ArcsOf(s) = ArcsOf(entries[o]) \cup {new}
    BY <1>1, <2>3, OwnerShape, PushKeeps
  <2> Idle \in Disposals
    BY DEF Disposals
  <2> HIDE DEF s
  <2>5. Arc(Idle) = {} /\ ArcsOf(s) = Held(o) \cup {new}
    BY <2>4, RefsOfVec DEF Arc
  <2>6. \A p \in Owners : /\ Held(p)' = IF p = o THEN ArcsOf(s) ELSE Held(p)
                          /\ Disposing(p)' = IF p = o THEN Arc(Idle) ELSE Disposing(p)
    BY <2>1, <2>2, <2>4, OneOwner
  <2>7. QED
    BY <1>2, <1>3, <2>5, <2>6, InsertShape DEF Apart, Refs, new
<1>6. QED
  BY <1>4, <1>5

-----------------------------------------------------------------------------
(* The inductive invariant.  OneFate and the type of strong need the count  *)
(* of StrongCountsHolders, the count needs to know that an owner holds a    *)
(* value once (OnePerType, Apart) and that a new value is held by nobody    *)
(* (RefsCreated).                                                           *)
ExtensionsInv == Shape /\ StrongCountsHolders /\ OneFate

Counted == \A a \in Arcs : strong[a] = Cardinality(Holders(a))

(* A value has finitely many holders, and none exactly when the count is 0. *)
LEMMA HoldersFinite ==
  ASSUME NEW a
  PROVE  /\ IsFiniteSet(Holders(a)) /\ Cardinality(Holders(a)) \in Nat
         /\ Cardinality(Holders(a)) = 0 <=> Holders(a) = {}
<1>1. IsFiniteSet(Holders(a))
  BY ExtensionsAssumption, FS_Subset DEF Holders
<1>2. QED
  BY <1>1, FS_CardinalityType, FS_EmptySet

(* A step that moves references about within their owners changes no count. *)
LEMMA SameRefsKeep ==
  ASSUME ExtensionsInv, Shape', Apart', SameRefs, UNCHANGED <<created, strong, taken, dropped>>
  PROVE  ExtensionsInv'
<1>1. \A a \in Arcs : Holders(a)' = Holders(a)
  BY DEF SameRefs, Holders
<1>2. StrongCountsHolders'
  BY <1>1 DEF ExtensionsInv, StrongCountsHolders, Apart
<1>3. OneFate'
  BY <1>1 DEF ExtensionsInv, OneFate
<1>4. QED
  BY <1>2, <1>3 DEF ExtensionsInv

(* The new value has one holder, its inserter; no other count changes. *)
LEMMA InsertKeeps ==
  ASSUME ExtensionsInv, NEW o \in Owners, NEW t \in Types, Insert(o, t)
  PROVE  ExtensionsInv'
<1>1. Shape /\ Apart
  BY DEF ExtensionsInv, StrongCountsHolders, Apart
<1> PICK new \in Arcs : new = created + 1
  BY <1>1, InsertFacts
<1>2. /\ Shape' /\ Apart'
      /\ \A p \in Owners : new \notin Refs(p)
      /\ \A p \in Owners : Refs(p)' = IF p = o THEN Refs(o) \cup {new} ELSE Refs(p)
  BY <1>1, InsertStep
<1>3. created \in Nat /\ created' = new
  BY <1>1, InsertFacts
<1>4. strong' = [strong EXCEPT ![new] = 1] /\ strong \in [Arcs -> Nat]
  BY <1>1 DEF Insert, Shape, ExtensionsTypeOK
<1>5. Holders(new)' = {o}
  BY <1>2 DEF Holders
<1>6. \A a \in Arcs \ {new} : Holders(a)' = Holders(a)
  BY <1>2 DEF Holders
<1>7. Counted'
  <2> SUFFICES ASSUME NEW a \in Arcs
               PROVE  strong'[a] = Cardinality(Holders(a)')
    BY DEF Counted
  <2>1. CASE a = new
    BY <2>1, <1>3, <1>4, <1>5, FS_Singleton
  <2>2. CASE a # new
    BY <2>2, <1>4, <1>6 DEF ExtensionsInv, StrongCountsHolders
  <2>3. QED
    BY <2>1, <2>2
<1>8. OneFate'
  <2>1. UNCHANGED <<taken, dropped>>
    BY DEF Insert
  <2>2. new \notin taken \cup dropped
    BY <1>3 DEF ExtensionsInv, OneFate
  <2>3. \A a \in Arcs : Holders(a)' # {} <=> a <= created' /\ a \notin taken' \cup dropped'
    <3> SUFFICES ASSUME NEW a \in Arcs
                 PROVE  Holders(a)' # {} <=> a <= created' /\ a \notin taken' \cup dropped'
      OBVIOUS
    <3>1. CASE a = new
      BY <3>1, <1>3, <1>5, <2>1, <2>2
    <3>2. CASE a # new
      <4>1. a <= created' <=> a <= created
        BY <3>2, <1>3 DEF Arcs
      <4>2. QED
        BY <3>2, <4>1, <1>6, <2>1 DEF ExtensionsInv, OneFate
    <3>3. QED
      BY <3>1, <3>2
  <2>4. taken' \cup dropped' \subseteq 1..created'
    BY <2>1, <1>3 DEF ExtensionsInv, OneFate
  <2>5. QED
    BY <2>1, <2>3, <2>4 DEF ExtensionsInv, OneFate
<1>9. QED
  BY <1>2, <1>7, <1>8 DEF ExtensionsInv, StrongCountsHolders, Counted, Apart

(* Each value of the original gets one more holder, the clone. *)
LEMMA CloneKeeps ==
  ASSUME ExtensionsInv, NEW o \in Owners, NEW p \in Owners, Clone(o, p)
  PROVE  ExtensionsInv'
<1>1. Shape /\ Apart
  BY DEF ExtensionsInv, StrongCountsHolders, Apart
<1>2. /\ Shape' /\ Apart'
      /\ Refs(o) = Held(o) /\ Refs(p) = {} /\ o # p
      /\ \A q \in Owners : Refs(q)' = IF q = p THEN Held(o) ELSE Refs(q)
  BY <1>1, CloneStep
<1>3. \A a \in Arcs : /\ p \notin Holders(a)
                      /\ a \in Held(o) => o \in Holders(a)
                      /\ Holders(a)' = IF a \in Held(o) THEN Holders(a) \cup {p} ELSE Holders(a)
  BY <1>2 DEF Holders
<1>4. Counted'
  <2> SUFFICES ASSUME NEW a \in Arcs
               PROVE  strong'[a] = Cardinality(Holders(a)')
    BY DEF Counted
  <2>1. strong[a] = Cardinality(Holders(a))
    BY DEF ExtensionsInv, StrongCountsHolders
  <2>2. strong'[a] = IF a \in Held(o) THEN strong[a] + 1 ELSE strong[a]
    BY DEF Clone
  <2>3. Cardinality(Holders(a) \cup {p}) = Cardinality(Holders(a)) + 1
    BY <1>3, HoldersFinite, FS_AddElement
  <2>4. QED
    BY <1>3, <2>1, <2>2, <2>3
<1>5. OneFate'
  <2>1. \A a \in Arcs : Holders(a)' # {} <=> Holders(a) # {}
    BY <1>3
  <2>2. QED
    BY <2>1 DEF ExtensionsInv, OneFate, Clone
<1>6. QED
  BY <1>2, <1>4, <1>5 DEF ExtensionsInv, StrongCountsHolders, Counted, Apart

(* The owner that disposes of a reference gives it up; the last one leaves  *)
(* the value to its fate.                                                   *)
LEMMA ReleaseKeeps ==
  ASSUME ExtensionsInv, NEW o \in Owners, pending[o] # Idle,
         pending' = [pending EXCEPT ![o] = Idle],
         UNCHANGED <<entries, live, created, kind>>,
         strong' = [strong EXCEPT ![pending[o].arc] = @ - 1],
         taken \cup dropped \cup (IF strong[pending[o].arc] = 1 THEN {pending[o].arc} ELSE {})
           = taken' \cup dropped',
         taken' \cap dropped' = {}
  PROVE  ExtensionsInv'
<1>1. Shape /\ Apart
  BY DEF ExtensionsInv, StrongCountsHolders, Apart
<1> PICK a \in Arcs : a = pending[o].arc
  BY <1>1, PendingReference
<1>2. a \in Refs(o) /\ a \in 1..created
  BY <1>1, PendingReference, OwnerShape
<1>3. o \in Holders(a)
  BY <1>2 DEF Holders
<1>4. strong[a] = Cardinality(Holders(a)) /\ strong[a] \in Nat /\ strong[a] # 0
  BY <1>2, <1>3, HoldersFinite DEF ExtensionsInv, StrongCountsHolders
<1>5. strong' \in [Arcs -> Nat]
  BY <1>1, <1>2, <1>4 DEF Shape, ExtensionsTypeOK
<1>6. taken' \subseteq Arcs /\ dropped' \subseteq Arcs
  BY <1>1, <1>2 DEF Shape, ExtensionsTypeOK
<1>7. /\ Shape' /\ Apart'
      /\ \A p \in Owners : Refs(p)' = IF p = o THEN Refs(o) \ {a} ELSE Refs(p)
  BY <1>1, <1>5, <1>6, EndDisposal
<1>8. Holders(a)' = Holders(a) \ {o} /\ \A b \in Arcs \ {a} : Holders(b)' = Holders(b)
  BY <1>7 DEF Holders
<1>9. Cardinality(Holders(a)') = Cardinality(Holders(a)) - 1
  BY <1>3, <1>8, HoldersFinite, FS_RemoveElement
<1>10. Counted'
  <2> SUFFICES ASSUME NEW b \in Arcs
               PROVE  strong'[b] = Cardinality(Holders(b)')
    BY DEF Counted
  <2>1. strong[b] = Cardinality(Holders(b))
    BY DEF ExtensionsInv, StrongCountsHolders
  <2>2. strong' = [strong EXCEPT ![a] = @ - 1] /\ strong \in [Arcs -> Nat]
    BY <1>1 DEF Shape, ExtensionsTypeOK
  <2>3. CASE b = a
    BY <2>1, <2>2, <2>3, <1>9
  <2>4. CASE b # a
    BY <2>1, <2>2, <2>4, <1>8
  <2>5. QED
    BY <2>3, <2>4
<1>11. Holders(a)' = {} <=> strong[a] = 1
  <2>1. Cardinality(Holders(a)') = strong[a] - 1
    BY <1>4, <1>9
  <2>2. Cardinality(Holders(a)') = 0 <=> Holders(a)' = {}
    BY <1>8, HoldersFinite, FS_RemoveElement, FS_EmptySet
  <2>3. QED
    BY <2>1, <2>2, <1>4
<1>12. OneFate'
  <2>1. a \notin taken \cup dropped
    BY <1>2, <1>3 DEF ExtensionsInv, OneFate
  <2>2. taken' \cup dropped' = taken \cup dropped \cup (IF strong[a] = 1 THEN {a} ELSE {})
    OBVIOUS
  <2>3. ASSUME NEW b \in Arcs
        PROVE  Holders(b)' # {} <=> b <= created' /\ b \notin taken' \cup dropped'
    <3>1. CASE b = a
      BY <3>1, <1>2, <1>11, <2>1, <2>2
    <3>2. CASE b # a
      BY <3>2, <1>8, <2>2 DEF ExtensionsInv, OneFate
    <3>3. QED
      BY <3>1, <3>2
  <2>4. taken' \cup dropped' \subseteq 1..created'
    BY <1>2, <2>2 DEF ExtensionsInv, OneFate
  <2>5. QED
    BY <2>3, <2>4 DEF OneFate
<1>13. QED
  BY <1>7, <1>10, <1>12 DEF ExtensionsInv, StrongCountsHolders, Counted, Apart

(* try_unwrap releases the last reference or changes no count. *)
LEMMA TryUnwrapKeeps ==
  ASSUME ExtensionsInv, NEW o \in Owners, TryUnwrap(o)
  PROVE  ExtensionsInv'
<1>1. Shape /\ Apart
  BY DEF ExtensionsInv, StrongCountsHolders, Apart
<1>2. pending[o] # Idle
  BY DEF TryUnwrap, Idle
<1>3. CASE strong[pending[o].arc] = 1
  <2> PICK a \in Arcs : a = pending[o].arc
    BY <1>1, <1>2, PendingReference
  <2>1. o \in Holders(a)
    BY <1>1, <1>2, PendingReference DEF Holders
  <2>2. a \notin taken \cup dropped
    BY <2>1 DEF ExtensionsInv, OneFate
  <2>3. /\ pending' = [pending EXCEPT ![o] = Idle]
        /\ UNCHANGED <<entries, live, created, kind, dropped>>
        /\ strong' = [strong EXCEPT ![a] = 0]
        /\ taken' = taken \cup {a}
    BY <1>3 DEF TryUnwrap
  <2>4. strong' = [strong EXCEPT ![a] = @ - 1]
    BY <1>3, <2>3
  <2>5. taken' \cap dropped' = {}
    BY <2>2, <2>3 DEF ExtensionsInv, OneFate
  <2>6. taken \cup dropped \cup (IF strong[a] = 1 THEN {a} ELSE {}) = taken' \cup dropped'
    BY <1>3, <2>3
  <2>7. QED
    BY <1>2, <2>3, <2>4, <2>5, <2>6, ReleaseKeeps
<1>4. CASE strong[pending[o].arc] # 1
  <2>1. Shape' /\ Apart' /\ SameRefs
    BY <1>1, <1>4, UnwrapFails
  <2>2. UNCHANGED <<created, strong, taken, dropped>>
    BY <1>4 DEF TryUnwrap
  <2>3. QED
    BY <2>1, <2>2, SameRefsKeep
<1>5. QED
  BY <1>3, <1>4

(* Dropping a reference releases it. *)
LEMMA DropReferenceKeeps ==
  ASSUME ExtensionsInv, NEW o \in Owners, DropReference(o)
  PROVE  ExtensionsInv'
<1>1. Shape /\ Apart
  BY DEF ExtensionsInv, StrongCountsHolders, Apart
<1>2. pending[o] # Idle
  BY DEF DropReference, Idle
<1> PICK a \in Arcs : a = pending[o].arc
  BY <1>1, <1>2, PendingReference
<1>3. o \in Holders(a)
  BY <1>1, <1>2, PendingReference DEF Holders
<1>4. a \notin taken \cup dropped
  BY <1>3 DEF ExtensionsInv, OneFate
<1>5. /\ pending' = [pending EXCEPT ![o] = Idle]
      /\ UNCHANGED <<entries, live, created, kind, taken>>
      /\ strong' = [strong EXCEPT ![a] = @ - 1]
      /\ dropped' = IF strong[a] = 1 THEN dropped \cup {a} ELSE dropped
  BY DEF DropReference
<1>6. taken' \cap dropped' = {}
  BY <1>4, <1>5 DEF ExtensionsInv, OneFate
<1>7. taken \cup dropped \cup (IF strong[a] = 1 THEN {a} ELSE {}) = taken' \cup dropped'
  BY <1>5
<1>8. QED
  BY <1>2, <1>5, <1>6, <1>7, ReleaseKeeps

(* One empty map, no value: the invariant holds. *)
LEMMA ExtensionsInitInv ==
  ASSUME ExtensionsInit
  PROVE  ExtensionsInv
<1>1. ExtensionsTypeOK
  <2>1. <<>> \in Seq(Entry)
    BY EmptySeq
  <2>2. entries \in [Owners -> Seq(Entry)]
    BY <2>1 DEF ExtensionsInit
  <2>3. QED
    BY <2>2, ExtensionsAssumption DEF ExtensionsInit, ExtensionsTypeOK
<1>2. \A o \in Owners : Refs(o) = {} /\ Held(o) = {} /\ Disposing(o) = {}
  BY DEF ExtensionsInit, Refs, Held, Disposing
<1>3. OnePerType
  BY DEF ExtensionsInit, OnePerType
<1>4. \A a \in Arcs : Holders(a) = {}
  BY <1>2 DEF Holders
<1>5. StrongCountsHolders
  BY <1>2, <1>4, FS_EmptySet DEF ExtensionsInit, StrongCountsHolders
<1>6. OneFate
  BY <1>4 DEF ExtensionsInit, OneFate, Arcs
<1>7. QED
  BY <1>1, <1>2, <1>3, <1>5, <1>6 DEF ExtensionsInv, Shape, RefsCreated

(* Every step of every thread keeps the invariant. *)
LEMMA ExtensionsNextInv ==
  ASSUME ExtensionsInv, [ExtensionsNext]_extensionsVars
  PROVE  ExtensionsInv'
<1>1. Shape /\ Apart
  BY DEF ExtensionsInv, StrongCountsHolders, Apart
<1>2. ASSUME NEW o \in Owners, NEW t \in Types, Insert(o, t)
      PROVE  ExtensionsInv'
  BY <1>2, InsertKeeps
<1>3. ASSUME NEW o \in Owners, NEW t \in Types, Remove(o, t)
      PROVE  ExtensionsInv'
  <2>1. UNCHANGED <<created, strong, taken, dropped>>
    BY <1>3 DEF Remove
  <2>2. QED
    BY <1>1, <1>3, <2>1, RemoveStep, SameRefsKeep
<1>4. ASSUME NEW o \in Owners, NEW p \in Owners \ {o}, Clone(o, p)
      PROVE  ExtensionsInv'
  BY <1>4, CloneKeeps
<1>5. ASSUME NEW o \in Owners, Discard(o)
      PROVE  ExtensionsInv'
  <2>1. UNCHANGED <<created, strong, taken, dropped>>
    BY <1>5 DEF Discard
  <2>2. QED
    BY <1>1, <1>5, <2>1, DiscardStep, SameRefsKeep
<1>6. ASSUME NEW o \in Owners, TryUnwrap(o)
      PROVE  ExtensionsInv'
  BY <1>6, TryUnwrapKeeps
<1>7. ASSUME NEW o \in Owners, DropReference(o)
      PROVE  ExtensionsInv'
  BY <1>7, DropReferenceKeeps
<1>8. ASSUME NEW o \in Owners, DropEntry(o)
      PROVE  ExtensionsInv'
  <2>1. UNCHANGED <<created, strong, taken, dropped>>
    BY <1>8 DEF DropEntry
  <2>2. QED
    BY <1>1, <1>8, <2>1, DropEntryStep, SameRefsKeep
<1>9. CASE UNCHANGED extensionsVars
  <2>1. Shape' /\ Apart' /\ SameRefs
    BY <1>1, <1>9 DEF extensionsVars, Shape, ExtensionsTypeOK, OnePerType, RefsCreated, Apart, SameRefs, Refs,
       Held, Disposing
  <2>2. UNCHANGED <<created, strong, taken, dropped>>
    BY <1>9 DEF extensionsVars
  <2>3. QED
    BY <2>1, <2>2, SameRefsKeep
<1>10. QED
  BY <1>2, <1>3, <1>4, <1>5, <1>6, <1>7, <1>8, <1>9 DEF ExtensionsNext, Continue

(* ExtensionsInv holds throughout, for every Owners, Types and MaxValues. *)
THEOREM ExtensionsInvariance == ExtensionsSpec => []ExtensionsInv
<1>1. ExtensionsInv /\ [ExtensionsNext]_extensionsVars => ExtensionsInv'
  BY ExtensionsNextInv
<1>2. ExtensionsInit => ExtensionsInv
  BY ExtensionsInitInv
<1>3. QED
  BY <1>1, <1>2, PTL DEF ExtensionsSpec

(* The state of any number of maps, of any types and any number of values,  *)
(* is well-typed: no strong count goes below zero, and no entry or pending  *)
(* reference names a value outside the range of the values created.         *)
THEOREM ExtensionsTypeCorrect == ExtensionsSpec => []ExtensionsTypeOK
<1>1. ExtensionsInv => ExtensionsTypeOK
  BY DEF ExtensionsInv, Shape
<1>2. QED
  BY <1>1, ExtensionsInvariance, PTL

(* The Arc's count is exactly the owners that reach the value, for every    *)
(* interleaving of insert, remove, clone and drop on any number of threads. *)
THEOREM CountsAreExact == ExtensionsSpec => []StrongCountsHolders
<1>1. ExtensionsInv => StrongCountsHolders
  BY DEF ExtensionsInv
<1>2. QED
  BY <1>1, ExtensionsInvariance, PTL

(* insert and remove (swap_remove) keep one value per type, under its type. *)
THEOREM TypesAreUnique == ExtensionsSpec => []OnePerType
<1>1. ExtensionsInv => OnePerType
  BY DEF ExtensionsInv, Shape
<1>2. QED
  BY <1>1, ExtensionsInvariance, PTL

(* A value is handed to at most one caller, never while another clone still *)
(* reads it, and is destroyed only if nobody got it.                        *)
THEOREM FateIsSingle == ExtensionsSpec => []OneFate
<1>1. ExtensionsInv => OneFate
  BY DEF ExtensionsInv
<1>2. QED
  BY <1>1, ExtensionsInvariance, PTL

(* remove and insert return None for a value they found only because        *)
(* another owner held it when they tried to unwrap it.                      *)
THEOREM NoneOnlyIfShared == ExtensionsSpec => NoneMeansShared
<1> DEFINE Shared == \A o \in Owners :
                       pending[o].stage = "unwrap" /\ pending'[o].stage = "drop" =>
                         \E p \in Owners \ {o} : pending[o].arc \in Refs(p)
<1>1. ASSUME ExtensionsInv, [ExtensionsNext]_extensionsVars
      PROVE  [Shared]_extensionsVars
  <2> SUFFICES ASSUME ~UNCHANGED extensionsVars, NEW o \in Owners,
                      pending[o].stage = "unwrap", pending'[o].stage = "drop"
               PROVE  \E p \in Owners \ {o} : pending[o].arc \in Refs(p)
    OBVIOUS
  <2>1. Shape /\ pending[o] # Idle
    BY <1>1 DEF ExtensionsInv, Idle
  <2> PICK a \in Arcs : a = pending[o].arc
    BY <2>1, PendingReference
  <2>2. TryUnwrap(o) /\ strong[a] # 1
    <3>1. pending \in [Owners -> Disposals] /\ pending'[o] # pending[o] /\ pending'[o] # Idle
      BY <2>1 DEF Shape, ExtensionsTypeOK, Disposals, Idle
    <3>2. ASSUME NEW p \in Owners, pending[p] = Idle,
                 NEW d, pending' = [pending EXCEPT ![p] = d]
          PROVE  FALSE
      BY <2>1, <3>1, <3>2
    <3>3. ASSUME NEW p \in Owners, pending' = [pending EXCEPT ![p] = Idle]
          PROVE  FALSE
      BY <3>1, <3>3
    <3>4. ASSUME NEW p \in Owners, NEW t \in Types, Insert(p, t)
          PROVE  FALSE
      <4>1. CASE Contains(p, t)
        BY <3>2, <3>4, <4>1 DEF Insert, CanAct
      <4>2. CASE ~Contains(p, t)
        BY <3>1, <3>4, <4>2 DEF Insert
      <4>3. QED
        BY <4>1, <4>2
    <3>5. ASSUME NEW p \in Owners, NEW t \in Types, Remove(p, t)
          PROVE  FALSE
      BY <3>2, <3>5 DEF Remove, CanAct
    <3>6. ASSUME NEW p \in Owners, DropReference(p)
          PROVE  FALSE
      BY <3>3, <3>6 DEF DropReference
    <3>7. ASSUME NEW p \in Owners, DropEntry(p)
          PROVE  FALSE
      BY <3>2, <3>7 DEF DropEntry
    <3>8. ASSUME NEW p \in Owners, Discard(p) \/ \E q \in Owners : Clone(p, q)
          PROVE  FALSE
      BY <3>1, <3>8 DEF Discard, Clone
    <3>9. PICK p \in Owners : TryUnwrap(p)
      BY <1>1, <3>4, <3>5, <3>6, <3>7, <3>8 DEF ExtensionsNext, Continue
    <3>10. p = o
      BY <3>1, <3>9 DEF TryUnwrap
    <3>11. strong[a] # 1
      BY <3>1, <3>3, <3>9, <3>10 DEF TryUnwrap
    <3>12. QED
      BY <3>9, <3>10, <3>11
  <2>3. o \in Holders(a) /\ strong[a] = Cardinality(Holders(a))
    BY <1>1, <2>1, PendingReference DEF Holders, ExtensionsInv, StrongCountsHolders
  <2>4. Holders(a) # {o}
    BY <2>2, <2>3, FS_Singleton
  <2>5. \E p \in Holders(a) : p # o
    BY <2>3, <2>4
  <2>6. QED
    BY <2>5 DEF Holders
<1>2. QED
  BY <1>1, ExtensionsInvariance, PTL DEF ExtensionsSpec, NoneMeansShared
-----------------------------------------------------------------------------
(* Extensions implements TypedMap.  An entry's type is its value's, so what  *)
(* an owner sees under a type can be read off the set of values it holds.   *)
Reachable(o, t, a) == o \in live /\ a \in Held(o) /\ kind[a] = t

SeesWhatItReaches ==
  Shape => \A o \in Owners, t \in Types :
             /\ View[o][t] \in Arcs \cup {Absent}
             /\ \A a \in Arcs : View[o][t] = a <=> Reachable(o, t, a)

(* A type's view is its entry's value, and no other value of that type. *)
LEMMA ViewOfType == SeesWhatItReaches
<1> SUFFICES ASSUME Shape, NEW o \in Owners, NEW t \in Types
             PROVE  /\ View[o][t] \in Arcs \cup {Absent}
                    /\ \A a \in Arcs : View[o][t] = a <=> Reachable(o, t, a)
  BY DEF SeesWhatItReaches
<1>1. View[o][t] = IF o \in live /\ Contains(o, t)
                   THEN entries[o][Position(o, t)].arc ELSE Absent
  BY DEF View
<1>2. CASE o \in live /\ Contains(o, t)
  <2> PICK i \in DOMAIN entries[o] : i = Position(o, t) /\ entries[o][i].type = t
    BY <1>2, PositionFound DEF Shape
  <2>1. entries[o][i].arc \in Arcs /\ View[o][t] = entries[o][i].arc
    BY <1>1, <1>2, OwnerShape DEF Entry
  <2>2. \A j \in DOMAIN entries[o] : kind[entries[o][j].arc] = t => j = i
    BY OwnerShape DEF WellKept
  <2>3. kind[entries[o][i].arc] = t
    BY OwnerShape DEF WellKept
  <2>4. QED
    BY <1>2, <2>1, <2>2, <2>3 DEF Reachable, Held
<1>3. CASE ~(o \in live /\ Contains(o, t))
  <2>1. View[o][t] = Absent /\ Absent \notin Arcs
    BY <1>1, <1>3, ExtensionsAssumption
  <2>2. \A a \in Arcs : ~Reachable(o, t, a)
    <3> SUFFICES ASSUME o \in live, NEW j \in DOMAIN entries[o], kind[entries[o][j].arc] = t
                 PROVE  FALSE
      BY DEF Reachable, Held
    <3>1. entries[o][j].type = t
      BY OwnerShape DEF WellKept
    <3>2. QED
      BY <1>3, <3>1 DEF Contains
  <2>3. QED
    BY <2>1, <2>2
<1>4. QED
  BY <1>2, <1>3

(* The same, of the next state. *)
LEMMA ViewOfTypeNext == SeesWhatItReaches'
BY ViewOfType, PTL

(* What decides the view of one type after a step. *)
LEMMA NewView ==
  ASSUME Shape', NEW o \in Owners, NEW t \in Types, NEW u \in Arcs \cup {Absent},
         \A a \in Arcs : Reachable(o, t, a)' <=> u = a
  PROVE  View'[o][t] = u
BY ViewOfTypeNext, ExtensionsAssumption DEF SeesWhatItReaches

(* A type whose values are reached as before is seen as before. *)
LEMMA SameView ==
  ASSUME Shape, Shape', NEW o \in Owners, NEW t \in Types,
         \A a \in Arcs : Reachable(o, t, a)' <=> Reachable(o, t, a)
  PROVE  View'[o][t] = View[o][t]
BY ViewOfType, NewView DEF SeesWhatItReaches

(* A view is a function of owner and type. *)
LEMMA ViewIsFunction ==
  /\ View = [o \in Owners |-> [t \in Types |-> View[o][t]]]
  /\ View' = [o \in Owners |-> [t \in Types |-> View'[o][t]]]
BY DEF View

(* insert gives up the value seen under its type, if any, for the new one. *)
LEMMA InsertSwaps ==
  ASSUME Shape, NEW o \in Owners, NEW t \in Types, Insert(o, t)
  PROVE  /\ \A p \in Owners : Held(p)' = IF p = o
                                         THEN (Held(o) \ {View[o][t]}) \cup {created + 1}
                                         ELSE Held(p)
         /\ \E d \in Disposals : d.arc = View[o][t] /\ pending' = [pending EXCEPT ![o] = d]
<1> DEFINE new == created + 1
           e == [type |-> t, arc |-> new]
<1>1. /\ e \in Entry /\ e.arc = new /\ e.type = t
      /\ e.arc <= created' /\ kind'[e.arc] = e.type
      /\ WellKept(entries[o], kind', created')
  BY InsertFacts DEF Entry, Arcs
<1>2. Held(o) = ArcsOf(entries[o]) /\ Idle \in Disposals /\ Idle.arc = Absent
  BY RefsOfVec DEF Disposals, Idle
<1>3. View[o][t] = IF Contains(o, t) THEN entries[o][Position(o, t)].arc ELSE Absent
  BY DEF View, Insert, CanAct
<1>4. CASE Contains(o, t)
  <2> DEFINE i == Position(o, t)
             old == entries[o][i]
             s == [entries[o] EXCEPT ![i] = e]
             d == Dispose(old.arc, t)
  <2>1. i \in DOMAIN entries[o] /\ old.type = t /\ old \in Entry
    BY <1>4, PositionFound, OwnerShape DEF Shape
  <2>2. [old EXCEPT !.arc = new] = e
    BY <2>1 DEF Entry
  <2>3. entries' = [entries EXCEPT ![o] = s] /\ pending' = [pending EXCEPT ![o] = d]
    BY <1>4, <2>2 DEF Insert
  <2>4. d \in Disposals /\ d.arc = old.arc /\ old.arc = View[o][t]
    BY <1>3, <1>4, <2>1 DEF Dispose, Disposals, Stages, Entry
  <2>5. s \in Seq(Entry) /\ ArcsOf(s) = (ArcsOf(entries[o]) \ {old.arc}) \cup {new}
    BY <1>1, <2>1, OwnerShape, ReplaceKeeps
  <2> HIDE DEF s, d, e, new, old
  <2>6. \A p \in Owners : Held(p)' = IF p = o THEN ArcsOf(s) ELSE Held(p)
    BY <2>3, <2>4, <2>5, OneOwner
  <2>7. QED
    BY <1>2, <2>3, <2>4, <2>5, <2>6 DEF new
<1>5. CASE ~Contains(o, t)
  <2> DEFINE s == Append(entries[o], e)
  <2>1. entries' = [entries EXCEPT ![o] = s] /\ pending' = [pending EXCEPT ![o] = Idle]
    BY <1>5 DEF Insert, CanAct, Shape, ExtensionsTypeOK
  <2>2. s \in Seq(Entry) /\ ArcsOf(s) = ArcsOf(entries[o]) \cup {new}
    BY <1>1, <1>5, OwnerShape, PushKeeps DEF Contains
  <2>3. Absent \notin ArcsOf(entries[o])
    BY OwnerShape, ExtensionsAssumption DEF ArcsOf, Entry
  <2> HIDE DEF s, e, new
  <2>4. \A p \in Owners : Held(p)' = IF p = o THEN ArcsOf(s) ELSE Held(p)
    BY <1>2, <2>1, <2>2, OneOwner
  <2>5. ArcsOf(s) = (Held(o) \ {View[o][t]}) \cup {new}
    BY <1>2, <1>3, <1>5, <2>2, <2>3
  <2>6. Idle.arc = View[o][t]
    BY <1>2, <1>3, <1>5
  <2>7. QED
    BY <1>2, <2>1, <2>4, <2>5, <2>6 DEF new
<1>6. QED
  BY <1>4, <1>5

(* remove gives up the value seen under its type. *)
LEMMA RemoveTakes ==
  ASSUME Shape, NEW o \in Owners, NEW t \in Types, Remove(o, t)
  PROVE  /\ View[o][t] \in Arcs
         /\ \A p \in Owners : Held(p)' = IF p = o THEN Held(o) \ {View[o][t]} ELSE Held(p)
         /\ \E d \in Disposals : d.arc = View[o][t] /\ pending' = [pending EXCEPT ![o] = d]
<1> DEFINE i == Position(o, t)
           old == entries[o][i]
           s == SwapRemove(entries[o], i)
           d == Dispose(old.arc, t)
<1>1. i \in DOMAIN entries[o] /\ old \in Entry /\ i \in 1..Len(entries[o])
  BY PositionFound, OwnerShape DEF Shape, Remove
<1>2. entries' = [entries EXCEPT ![o] = s] /\ pending' = [pending EXCEPT ![o] = d]
  BY DEF Remove
<1>3. s \in Seq(Entry) /\ ArcsOf(s) = ArcsOf(entries[o]) \ {old.arc}
  BY <1>1, OwnerShape, SwapRemoveKeeps
<1>4. View[o][t] = old.arc
  BY DEF View, Remove, CanAct
<1>5. d \in Disposals /\ d.arc = old.arc /\ old.arc \in Arcs
  BY <1>1 DEF Dispose, Disposals, Stages, Entry
<1>6. Held(o) = ArcsOf(entries[o])
  BY RefsOfVec
<1> HIDE DEF s, d, old
<1>7. QED
  BY <1>2, <1>3, <1>4, <1>5, <1>6, OneOwner

-----------------------------------------------------------------------------
(* insert puts the new value under its type, and takes the old one out. *)
LEMMA InsertPuts ==
  ASSUME Shape, Shape', NEW o \in Owners, NEW t \in Types, Insert(o, t)
  PROVE  Abstract!MapNext
<1> PICK new \in Arcs : new = created + 1
  BY InsertFacts
<1> PICK d \in Disposals : d.arc = View[o][t] /\ pending' = [pending EXCEPT ![o] = d]
  BY InsertSwaps
<1>1. /\ live' = live /\ o \in live /\ pending[o].arc = Absent
      /\ pending \in [Owners -> Disposals]
  BY DEF Insert, CanAct, Idle, Shape, ExtensionsTypeOK, Disposals
<1>2. \A p \in Owners : Held(p)' = IF p = o THEN (Held(o) \ {View[o][t]}) \cup {new}
                                            ELSE Held(p)
  BY InsertSwaps
<1>3. kind'[new] = t /\ \A p \in Owners : \A a \in Held(p) : kind'[a] = kind[a]
  <2>1. \A p \in Owners : \A a \in Held(p) : a \in 1..created
    BY OwnerShape DEF Held, WellKept, Entry, Arcs
  <2>2. QED
    BY <2>1, InsertFacts
<1>4. ASSUME NEW p \in Owners, NEW u \in Types
      PROVE  View'[p][u] = IF p = o /\ u = t THEN new ELSE View[p][u]
  <2>1. CASE p # o
    BY <2>1, <1>1, <1>2, <1>3, SameView DEF Reachable
  <2>2. CASE p = o /\ u # t
    <3>1. \A a \in Arcs : kind[a] = u => a # View[o][t] \/ a \notin Held(o)
      BY <2>2, ViewOfType DEF SeesWhatItReaches, Reachable
    <3>2. QED
      BY <2>2, <3>1, <1>1, <1>2, <1>3, SameView DEF Reachable
  <2>3. CASE p = o /\ u = t
    <3>1. \A a \in Held(o) \ {View[o][t]} : a \in Arcs => kind[a] # t
      BY <1>1, ViewOfType DEF SeesWhatItReaches, Reachable
    <3>2. QED
      BY <2>3, <3>1, <1>1, <1>2, <1>3, NewView DEF Reachable
  <2>4. QED
    BY <2>1, <2>2, <2>3
<1>5. View' = [View EXCEPT ![o][t] = new]
  BY <1>4, ViewIsFunction
<1>6. [p \in Owners |-> pending[p].arc]'
        = [[p \in Owners |-> pending[p].arc] EXCEPT ![o] = View[o][t]]
  BY <1>1
<1>7. Abstract!Put(o, t, new)
  BY <1>1, <1>5, <1>6 DEF Abstract!Put, Abstract!Ready
<1>8. QED
  BY <1>7 DEF Abstract!MapNext

(* remove takes out the value seen under the type, and nothing else. *)
LEMMA RemoveClears ==
  ASSUME Shape, Shape', NEW o \in Owners, NEW t \in Types, Remove(o, t)
  PROVE  Abstract!MapNext
<1> PICK d \in Disposals : d.arc = View[o][t] /\ pending' = [pending EXCEPT ![o] = d]
  BY RemoveTakes
<1>1. /\ live' = live /\ o \in live /\ pending[o].arc = Absent /\ kind' = kind
      /\ pending \in [Owners -> Disposals]
  BY DEF Remove, CanAct, Idle, Shape, ExtensionsTypeOK, Disposals
<1>2. /\ View[o][t] \in Arcs /\ View[o][t] # Absent
      /\ \A p \in Owners : Held(p)' = IF p = o THEN Held(o) \ {View[o][t]} ELSE Held(p)
  BY RemoveTakes, ExtensionsAssumption
<1>3. ASSUME NEW p \in Owners, NEW u \in Types
      PROVE  View'[p][u] = IF p = o /\ u = t THEN Absent ELSE View[p][u]
  <2>1. CASE p # o
    BY <2>1, <1>1, <1>2, SameView DEF Reachable
  <2>2. CASE p = o /\ u # t
    <3>1. kind[View[o][t]] = t
      BY <1>2, ViewOfType DEF SeesWhatItReaches, Reachable
    <3>2. QED
      BY <2>2, <3>1, <1>1, <1>2, SameView DEF Reachable
  <2>3. CASE p = o /\ u = t
    <3>1. \A a \in Arcs : ~Reachable(o, t, a)'
      BY <1>1, <1>2, ViewOfType DEF SeesWhatItReaches, Reachable
    <3>2. QED
      BY <2>3, <3>1, NewView, ExtensionsAssumption
  <2>4. QED
    BY <2>1, <2>2, <2>3
<1>4. View' = [View EXCEPT ![o][t] = Absent]
  BY <1>3, ViewIsFunction
<1>5. [p \in Owners |-> pending[p].arc]'
        = [[p \in Owners |-> pending[p].arc] EXCEPT ![o] = View[o][t]]
  BY <1>1
<1>6. Abstract!Clear(o, t)
  BY <1>1, <1>2, <1>4, <1>5 DEF Abstract!Clear, Abstract!Ready
<1>7. QED
  BY <1>6 DEF Abstract!MapNext

(* The clone sees what its original sees. *)
LEMMA CloneCopies ==
  ASSUME Shape, Shape', NEW o \in Owners, NEW p \in Owners \ {o}, Clone(o, p)
  PROVE  Abstract!MapNext
<1>1. /\ live' = live \cup {p} /\ p \notin live /\ o \in live /\ kind' = kind
      /\ pending' = pending /\ pending[o].arc = Absent
  BY DEF Clone, CanAct, Idle
<1>2. \A q \in Owners : Held(q)' = IF q = p THEN Held(o) ELSE Held(q)
  BY DEF Clone, Held, Shape, ExtensionsTypeOK
<1>3. ASSUME NEW q \in Owners, NEW u \in Types
      PROVE  View'[q][u] = IF q = p THEN View[o][u] ELSE View[q][u]
  <2>1. CASE q # p
    BY <2>1, <1>1, <1>2, SameView DEF Reachable
  <2>2. CASE q = p
    BY <2>2, <1>1, <1>2, ViewOfType, NewView DEF SeesWhatItReaches, Reachable
  <2>3. QED
    BY <2>1, <2>2
<1>4. View' = [View EXCEPT ![p] = View[o]]
  BY <1>3, ViewIsFunction
<1>5. Abstract!Copy(o, p)
  BY <1>1, <1>4 DEF Abstract!Copy, Abstract!Ready
<1>6. QED
  BY <1>5 DEF Abstract!MapNext

(* A map that is gone is seen by nobody. *)
LEMMA DiscardForgets ==
  ASSUME Shape, Shape', NEW o \in Owners, Discard(o)
  PROVE  Abstract!MapNext
<1>1. /\ live' = live \ {o} /\ o \in live /\ kind' = kind /\ entries' = entries
      /\ pending' = pending /\ pending[o].arc = Absent
  BY DEF Discard, CanAct, Idle
<1>2. \A q \in Owners : Held(q)' = Held(q)
  BY <1>1 DEF Held
<1>3. ASSUME NEW q \in Owners, NEW u \in Types
      PROVE  View'[q][u] = IF q = o THEN Absent ELSE View[q][u]
  <2>1. CASE q # o
    BY <2>1, <1>1, <1>2, SameView DEF Reachable
  <2>2. CASE q = o
    BY <2>2, <1>1, NewView, ExtensionsAssumption DEF Reachable
  <2>3. QED
    BY <2>1, <2>2
<1>4. View' = [View EXCEPT ![o] = Abstract!EmptyMap]
  BY <1>3, ViewIsFunction DEF Abstract!EmptyMap
<1>5. Abstract!Forget(o)
  BY <1>1, <1>4 DEF Abstract!Forget, Abstract!Ready
<1>6. QED
  BY <1>5 DEF Abstract!MapNext

(* A step that leaves maps and kinds alone changes nobody's view. *)
LEMMA ViewStays ==
  ASSUME UNCHANGED <<entries, live>>
  PROVE  View' = View
BY DEF View, Contains, Position

(* The value taken out is settled, or the call is not yet that far. *)
LEMMA ContinueSettles ==
  ASSUME Shape, Shape', NEW o \in Owners, TryUnwrap(o) \/ DropReference(o)
  PROVE  Abstract!MapNext \/ UNCHANGED Abstract!mapVars
<1>1. /\ View' = View /\ live' = live
      /\ pending \in [Owners -> Disposals]
  BY ViewStays DEF TryUnwrap, DropReference, Shape, ExtensionsTypeOK, Disposals
<1>2. CASE pending' = [pending EXCEPT ![o] = Idle]
  <2>1. [p \in Owners |-> pending[p].arc]'
          = [[p \in Owners |-> pending[p].arc] EXCEPT ![o] = Absent]
    BY <1>1, <1>2 DEF Idle
  <2>2. Abstract!Settle(o)
    BY <1>1, <2>1 DEF Abstract!Settle
  <2>3. QED
    BY <2>2 DEF Abstract!MapNext
<1>3. CASE pending' = [pending EXCEPT ![o].stage = "drop"] /\ pending[o] # Idle
  <2>1. \A p \in Owners : pending'[p].arc = pending[p].arc
    BY <1>1, <1>3 DEF Disposals
  <2>2. QED
    BY <1>1, <2>1 DEF Abstract!mapVars
<1>4. QED
  BY <1>2, <1>3 DEF TryUnwrap, DropReference, Idle

(* The destructor lets go of one value of a map nobody sees. *)
LEMMA DropEntryLetsGo ==
  ASSUME Shape, Shape', NEW o \in Owners, DropEntry(o)
  PROVE  Abstract!MapNext
<1> DEFINE a == Head(entries[o]).arc
<1>1. a \in Arcs
  BY OwnerShape, TailKeeps DEF DropEntry, Entry
<1>2. /\ entries' = [entries EXCEPT ![o] = Tail(entries[o])] /\ live' = live /\ o \notin live
      /\ pending' = [pending EXCEPT ![o] = [stage |-> "drop", arc |-> a]]
  BY DEF DropEntry
<1>3. entries \in [Owners -> Seq(Entry)] /\ pending \in [Owners -> Disposals]
  BY DEF Shape, ExtensionsTypeOK, Disposals
<1> HIDE DEF a
<1>4. \A q \in Owners : q \in live => entries'[q] = entries[q]
  BY <1>2, <1>3
<1>5. ASSUME NEW q \in Owners, NEW u \in Types
      PROVE  View'[q][u] = View[q][u]
  BY <1>2, <1>4 DEF View, Contains, Position
<1>6. View' = View
  BY <1>5, ViewIsFunction
<1>7. [p \in Owners |-> pending[p].arc]'
        = [[p \in Owners |-> pending[p].arc] EXCEPT ![o] = a]
  BY <1>2, <1>3
<1>8. Abstract!LetGo(o)
  BY <1>1, <1>2, <1>6, <1>7 DEF Abstract!LetGo
<1>9. QED
  BY <1>8 DEF Abstract!MapNext

(* Extensions implements TypedMap, for any number of clones, types and       *)
(* values: swap_remove, shared Arcs and disposals in progress never show     *)
(* through, and no call on one clone is visible in another.                  *)
THEOREM MapIsTyped == ExtensionsSpec => IsTypedMap
<1>1. ExtensionsInit => Abstract!MapInit
  <2> SUFFICES ASSUME ExtensionsInit
               PROVE  Abstract!MapInit
    OBVIOUS
  <2>1. \A o \in Owners, t \in Types : View[o][t] = Absent
    BY DEF View, Contains, ExtensionsInit
  <2>2. View = [o \in Owners |-> Abstract!EmptyMap]
    BY <2>1, ViewIsFunction DEF Abstract!EmptyMap
  <2>3. [o \in Owners |-> pending[o].arc] = [o \in Owners |-> Absent]
    BY DEF ExtensionsInit, Idle
  <2>4. QED
    BY <2>2, <2>3 DEF ExtensionsInit, Abstract!MapInit
<1>2. ExtensionsInv /\ ExtensionsInv' /\ [ExtensionsNext]_extensionsVars => [Abstract!MapNext]_(Abstract!mapVars)
  <2> SUFFICES ASSUME Shape, Shape', [ExtensionsNext]_extensionsVars
               PROVE  [Abstract!MapNext]_(Abstract!mapVars)
    BY DEF ExtensionsInv
  <2>1. ASSUME NEW o \in Owners, NEW t \in Types, Insert(o, t) \/ Remove(o, t)
        PROVE  Abstract!MapNext
    BY <2>1, InsertPuts, RemoveClears
  <2>2. ASSUME NEW o \in Owners, NEW p \in Owners \ {o}, Clone(o, p)
        PROVE  Abstract!MapNext
    BY <2>2, CloneCopies
  <2>3. ASSUME NEW o \in Owners, Discard(o) \/ DropEntry(o)
        PROVE  Abstract!MapNext
    BY <2>3, DiscardForgets, DropEntryLetsGo
  <2>4. ASSUME NEW o \in Owners, TryUnwrap(o) \/ DropReference(o)
        PROVE  [Abstract!MapNext]_(Abstract!mapVars)
    BY <2>4, ContinueSettles
  <2>5. CASE UNCHANGED extensionsVars
    BY <2>5, ViewStays DEF extensionsVars, Abstract!mapVars
  <2>6. QED
    BY <2>1, <2>2, <2>3, <2>4, <2>5 DEF ExtensionsNext, Continue
<1>3. QED
  BY <1>1, <1>2, ExtensionsInvariance, PTL DEF ExtensionsSpec, IsTypedMap, Abstract!MapSpec
=============================================================================
