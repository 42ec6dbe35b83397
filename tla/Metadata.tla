------------------------------ MODULE Metadata ------------------------------
(***************************************************************************)
(* The builder of Metadata (src/src/metadata.rs) as far as its orientation   *)
(* goes: with_exif stores a blob and may set the orientation from it,       *)
(* with_orientation sets it, and From<&ImageInfo> copies both fields from    *)
(* what a decoder reported.  The other fields are set and read one by one.  *)
(***************************************************************************)
EXTENDS ExifOrientation

CONSTANTS Reported,                (* EXIF blobs a decoder may report         *)
          Blobs,                   (* those a caller may pass as well         *)
          Orientations,            (* orientations a caller or decoder sets   *)
          MaxCalls                 (* bound: builder calls                    *)

Identity == 1

ASSUME MetadataAssumption ==
  /\ \A b \in Reported : IsBlob(b)
  /\ Blobs \subseteq Reported
  /\ Orientations \subseteq 1..8
  /\ None \notin Reported
  /\ MaxCalls \in Nat

VARIABLES exif,                    (* Option<blob>                            *)
          orientation,             (* Identity is also the default            *)
          given                    (* history: how it was made, and the calls *)

metadataVars == <<exif, orientation, given>>

(* How a Metadata is made, and the calls on it. *)
Sets == [call : {"new", "with_orientation"}, orientation : 1..8]
Stores == [call : {"with_exif"}, blob : Blobs]

MetadataTypeOK ==
  /\ exif \in Reported \cup {None}
  /\ orientation \in 1..8
  /\ given \in Seq(Sets \cup Stores)

(* Metadata::none() *)
New ==
  /\ exif = None
  /\ orientation = Identity

(* From<&ImageInfo>: the decoder's orientation, whatever the blob says. *)
FromInfo ==
  /\ exif \in Reported \cup {None}
  /\ orientation \in Orientations

MetadataInit ==
  /\ New \/ FromInfo
  /\ given = <<[call |-> "new", orientation |-> orientation]>>

(* Mutant of WithExif: the blob decides whenever it says something. *)
WithExifAlways(b) ==
  /\ Len(given) <= MaxCalls
  /\ exif' = b
  /\ orientation' = IF MetadataOrientation(b) # None
                    THEN MetadataOrientation(b) ELSE orientation
  /\ given' = Append(given, [call |-> "with_exif", blob |-> b])

WithExif(b) ==
  /\ Len(given) <= MaxCalls
  /\ exif' = b
  /\ orientation' = IF orientation = Identity /\ MetadataOrientation(b) # None
                    THEN MetadataOrientation(b) ELSE orientation
  /\ given' = Append(given, [call |-> "with_exif", blob |-> b])

WithOrientation(o) ==
  /\ Len(given) <= MaxCalls
  /\ orientation' = o
  /\ given' = Append(given, [call |-> "with_orientation", orientation |-> o])
  /\ UNCHANGED exif

MetadataNext ==
  \/ \E b \in Blobs : WithExif(b)
  \/ \E o \in Orientations : WithOrientation(o)

MetadataSpec == MetadataInit /\ [][MetadataNext]_metadataVars

-----------------------------------------------------------------------------
(* The two parsers never contradict each other about one blob, however      *)
(* malformed or cut off, unless it has the tag twice: where both answer,     *)
(* they answer the same.                                                    *)
TwoAnswersAgree ==
  /\ exif # None /\ TagOnce(exif)
  /\ MetadataOrientation(exif) # None /\ HelperOrientation(exif) # None
  => MetadataOrientation(exif) = HelperOrientation(exif)

(* Of a blob as TIFF wants it the helper reads what it says, with the Exif   *)
(* prefix or without, and the builder's parser does if the value is a SHORT. *)
WellFormedIsRead ==
  exif # None /\ WellFormed(exif) =>
    /\ exif.count <= MAX_IFD_ENTRIES => Reads(HelperOrientation(exif), exif)
    /\ IsShort(exif) /\ ~exif.prefix => Reads(MetadataOrientation(exif), exif)

(* The calls that set the orientation outright, and the last of them. *)
SetOutright == {i \in DOMAIN given : given[i].call # "with_exif"}
LastSet == CHOOSE i \in SetOutright : \A j \in SetOutright : j <= i

(* The blobs stored since then that turn the image. *)
Turns ==
  {i \in DOMAIN given : /\ i > LastSet
                        /\ MetadataOrientation(given[i].blob) \notin {None, Identity}}

(* Whatever the order of the calls: the last orientation set holds, unless   *)
(* it was Identity; then the first blob since that turns the image decides,  *)
(* and later ones do not.                                                   *)
OrientationIsExplained ==
  orientation =
    IF given[LastSet].orientation # Identity \/ Turns = {}
    THEN given[LastSet].orientation
    ELSE MetadataOrientation(given[First(Turns)].blob)
=============================================================================
