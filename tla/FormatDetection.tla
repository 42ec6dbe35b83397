--------------------------- MODULE FormatDetection --------------------------
(***************************************************************************)
(* ImageFormatRegistry (src/src/format/mod.rs): a caller receives a file    *)
(* piece by piece and asks the registry for its format by the bytes it has  *)
(* so far.  The first definition that matches answers, so the order of the  *)
(* registry is part of the answer.  Or an encoder names its output          *)
(* (EncodeOutput, src/src/output.rs) and who stores it looks the extension  *)
(* or the MIME type up in the registry.                                     *)
(***************************************************************************)
EXTENDS FormatDefinitions, FiniteSetsExt, Option

CONSTANTS Registries,    (* sequences of definitions                         *)
          Files,         (* files that may arrive                            *)
          Cuts,          (* how many bytes a caller may have                 *)
          Overrides,     (* <<format, extension>> an encoder may give instead *)
          MimeOverrides  (* <<format, MIME type>>, likewise                  *)

RECOMMENDED_PROBE_BYTES == 4096

(* A definition describes a built-in format or is custom, and has a MIME type. *)
IsRegistry(r) ==
  /\ Len(r) \in Nat /\ DOMAIN r = 1..Len(r)
  /\ \A i \in DOMAIN r :
       /\ r[i].image_format \in {"Custom"} \cup {ALL[k].name : k \in DOMAIN ALL}
       /\ 1 \in DOMAIN r[i].mime_types
       /\ \A m \in r[i].magic : m[2] \in Nat

(* An encoder gives its output no name of another format.                      *)
IsOwnName(variant, name) ==
  /\ variant # "Custom"
  /\ \A r \in Registries : \A i \in DOMAIN r :
       (name \in r[i].extensions \/ \E k \in DOMAIN r[i].mime_types : r[i].mime_types[k] = name)
         => to_image_format(r[i]).variant = variant

ASSUME DetectionAssumption ==
  /\ \A r \in Registries : IsRegistry(r)
  /\ \A f \in Files : IsFile(f)
  /\ Cuts \subseteq Nat
  /\ \A o \in Overrides \cup MimeOverrides : IsOwnName(o[1], o[2])
  /\ None \notin Files /\ \A i \in DOMAIN ALL : None # ALL[i].name
  /\ \A r \in Registries : None \notin {to_image_format(r[i]) : i \in DOMAIN r}

VARIABLES registry,
          file,          (* the file being identified, None for an output    *)
          arrived,       (* bytes of it that have arrived                    *)
          verdict,       (* what detect last answered: a format or None      *)
          probed,        (* with how many bytes it was asked                 *)
          named,         (* an EncodeOutput, or None                         *)
          looked_up      (* what a name of it was last looked up as          *)

detectionVars == <<registry, file, arrived, verdict, probed, named, looked_up>>

(* The format of the first definition of r that satisfies P, or None.         *)
First(r, P(_)) ==
  LET hits == {i \in DOMAIN r : P(r[i])}
  IN IF hits = {} THEN None ELSE to_image_format(r[Min(hits)])

Detect(r, f, n) == LET Is(d) == detect(d, f, n) IN First(r, Is)

from_extension(r, ext) == LET Has(d) == ext \in d.extensions IN First(r, Has)

from_mime_type(r, mime) ==
  LET Has(d) == \E i \in DOMAIN d.mime_types : d.mime_types[i] = mime IN First(r, Has)

NoAnswer == [by |-> None, is |-> None]

(* common(), or a list of the caller's: from_static, from_vec.                *)
DetectionInit ==
  /\ registry \in Registries
  /\ file \in Files \cup {None}
  /\ arrived = 0 /\ probed = 0
  /\ verdict = None
  /\ named = None
  /\ looked_up = NoAnswer

Receive(n) ==
  /\ file # None
  /\ arrived < n /\ n <= file.size
  /\ arrived' = n
  /\ UNCHANGED <<registry, file, verdict, probed, named, looked_up>>

Probe ==
  /\ file # None
  /\ verdict' = Detect(registry, file, arrived)
  /\ probed' = arrived
  /\ UNCHANGED <<registry, file, arrived, named, looked_up>>

(* EncodeOutput::new names the output after its format.                       *)
NewOutput(format) ==
  /\ file = None
  /\ named' = [format |-> format, mime_type |-> mime_type(format),
                extension |-> extension(format)]
  /\ looked_up' = NoAnswer
  /\ UNCHANGED <<registry, file, arrived, verdict, probed>>

(* with_mime_type, with_extension: an encoder's own name for what it wrote,    *)
(* as "image/apng" for an animated PNG.                                       *)
with_mime_type(variant, mime) ==
  /\ named # None /\ named.format.variant = variant
  /\ named' = [named EXCEPT !.mime_type = mime]
  /\ looked_up' = NoAnswer
  /\ UNCHANGED <<registry, file, arrived, verdict, probed>>

with_extension(variant, ext) ==
  /\ named # None /\ named.format.variant = variant
  /\ named' = [named EXCEPT !.extension = ext]
  /\ looked_up' = NoAnswer
  /\ UNCHANGED <<registry, file, arrived, verdict, probed>>

AskExtension ==
  /\ named # None
  /\ looked_up' = [by |-> "extension", is |-> from_extension(registry, named.extension)]
  /\ UNCHANGED <<registry, file, arrived, verdict, probed, named>>

AskMimeType ==
  /\ named # None
  /\ looked_up' = [by |-> "mime", is |-> from_mime_type(registry, named.mime_type)]
  /\ UNCHANGED <<registry, file, arrived, verdict, probed, named>>

DetectionNext ==
  \/ file # None /\ \E n \in Cuts \cup {file.size} : Receive(n)
  \/ Probe
  \/ \E i \in DOMAIN registry : NewOutput(to_image_format(registry[i]))
  \/ NewOutput(Unknown)
  \/ \E o \in MimeOverrides : with_mime_type(o[1], o[2])
  \/ \E o \in Overrides : with_extension(o[1], o[2])
  \/ AskExtension \/ AskMimeType

DetectionSpec == DetectionInit /\ [][DetectionNext]_detectionVars

-----------------------------------------------------------------------------
(* The places of a format's definitions; no format stands behind all.         *)
Places(format) ==
  IF format = None THEN {Len(registry) + 1}
  ELSE {i \in DOMAIN registry : Same(to_image_format(registry[i]), format)}

(* detect_raw is the one detector that more bytes may turn to no, when the    *)
(* DNG tag comes into view.                                                   *)
DngBeforeRaw ==
  \A i \in DOMAIN registry : registry[i] = RAW => \E k \in 1..i-1 : registry[k] = DNG

(* As bytes arrive a verdict may only move to a definition the registry        *)
(* prefers, never back and never to none, if RAW stands behind DNG.            *)
VerdictsMoveUp ==
  [][DngBeforeRaw => \E i \in Places(verdict'), k \in Places(verdict) : i <= k]_detectionVars

(* A well-formed TIFF has its tags in order; a file type box with a 64-bit     *)
(* size and a TGA that starts like a cursor are looked at below.               *)
WellFormed(f) ==
  /\ f.kind = "tiff" => \A i, k \in DOMAIN f.tags : i < k => f.tags[i] < f.tags[k]
  /\ f.kind = "bmff" => f.box_size # 1
  /\ f.kind = "tga" => ~detect_cursor(f, f.size)

(* What a whole file is, said without lengths and order.                       *)
Identity(f) ==
  LET brands == {f.major} \cup {f.slots[i] : i \in {k \in DOMAIN f.slots :
                                   f.box_size = 0 \/ 16 + 4 * k <= f.box_size}}
      generic == f.major \in {"mif1", "msf1"}
      Claims(set) == f.major \in set \/ (generic /\ brands \cap set # {})
      tags == {f.tags[i] : i \in DOMAIN f.tags}
      known == {d \in {ALL[i] : i \in DOMAIN ALL} : \E m \in d.magic : m[1] = f.start}
  IN CASE f.kind = "plain" -> IF known # {} THEN (CHOOSE d \in known : TRUE).name
                             ELSE IF f.footer THEN "tga" ELSE None
       [] f.kind = "bmff" -> IF Claims({"avif", "avis"}) THEN "avif"
                             ELSE IF Claims(HEIC_BRANDS) THEN "heic"
                             ELSE IF f.major = "crx" THEN "raw" ELSE None
       [] f.kind = "tiff" -> IF f.at8 = "APPLEDNG" \/ DNG_VERSION \in tags THEN "dng"
                             ELSE IF f.at8 = "CR" \/ SUB_IFDS \in tags THEN "raw" ELSE "tiff"
       [] f.kind = "tga" -> IF f.footer \/ tga_header(f) THEN "tga" ELSE None
       [] f.kind = "svg" -> IF SvgEnd(f) <= 1024 THEN "svg" ELSE None

(* The recommended probe reaches everything a detector looks at, but for the   *)
(* end of a file, a TIFF directory and a brand list that goes on behind it.    *)
EnoughIsKnown(f, n) ==
  \/ n = f.size
  \/ /\ n >= RECOMMENDED_PROBE_BYTES /\ ~f.footer
     /\ f.kind = "bmff" => 16 + 4 * Len(f.slots) <= n
     /\ f.kind = "tiff" => f.ifd_offset + 2 + 12 * Len(f.tags) <= n

(* The common formats first: what a caller adds behind them shadows nothing.   *)
Common == Len(registry) >= Len(ALL) /\ \A i \in DOMAIN ALL : registry[i] = ALL[i]

Added == {i \in DOMAIN registry : registry[i] \notin {ALL[k] : k \in DOMAIN ALL}}

IsAdded(format) == \E i \in Added : format = to_image_format(registry[i])

(* The common registry, given the whole file or the recommended probe, answers *)
(* what the file is: AVIF before HEIC where both brands are listed, DNG before *)
(* RAW before TIFF.  Formats added behind it answer for the rest only.         *)
WholeFileIsIdentified ==
  (file # None /\ Common /\ WellFormed(file) /\ EnoughIsKnown(file, probed)) =>
    IF Identity(file) = None THEN verdict = None \/ IsAdded(verdict)
    ELSE verdict = Builtin(Identity(file))

(* What fewer bytes may be taken for on the way to it.                         *)
OnTheWay(name) ==
  CASE name = "avif" -> {"heic", "avif"}
    [] name = "dng" -> {"tiff", "raw", "dng"}
    [] name = "raw" -> {"tiff", "raw"}
    [] OTHER -> {name}

(* A prefix is taken for nothing, for what the file is, for one of the formats *)
(* that share its beginning, or for one a caller added.                        *)
PrefixIsHonest ==
  (file # None /\ Common /\ WellFormed(file)) =>
    \/ verdict = None \/ IsAdded(verdict)
    \/ verdict.variant \in OnTheWay(Identity(file))

(* The names a definition goes by.                                             *)
NamesOf(d) ==
  {d.preferred_extension} \cup d.extensions \cup {d.mime_types[i] : i \in DOMAIN d.mime_types}

(* What a caller added lists the extension it prefers, and goes by no name of  *)
(* another format, built in or in the registry, nor of an unknown one.         *)
AddedIsDistinct ==
  \A i \in Added :
    LET d == registry[i]
    IN /\ d.preferred_extension \in d.extensions
       /\ NamesOf(d) \cap {mime_type(Unknown), extension(Unknown)} = {}
       /\ \A o \in {registry[k] : k \in DOMAIN registry} \cup {ALL[k] : k \in DOMAIN ALL} :
            \/ Same(to_image_format(d), to_image_format(o))
            \/ NamesOf(d) \cap NamesOf(o) = {}

(* Whatever the order of a registry, the names an output goes by lead back to  *)
(* its format or nowhere, never to another format; nowhere only if the         *)
(* format's definitions in this registry do not list the name.  The names a    *)
(* format gives itself do lead back (RAW does not list the extension it        *)
(* prefers), those given instead ("apng") only where they are listed.          *)
NamesLeadBack ==
  (looked_up # NoAnswer /\ AddedIsDistinct) =>
    LET own == {registry[i] : i \in {k \in DOMAIN registry :
                                     Same(to_image_format(registry[k]), named.format)}}
        by_mime == looked_up.by = "mime"
        name == IF by_mime THEN named.mime_type ELSE named.extension
        Lists(d) == IF by_mime THEN \E i \in DOMAIN d.mime_types : d.mime_types[i] = name
                    ELSE name \in d.extensions
    IN /\ looked_up.is = None \/ Same(looked_up.is, named.format)
       /\ looked_up.is = None => \A d \in own : ~Lists(d)
       /\ ( /\ own \cap definition(named.format) # {}
            /\ name = (IF by_mime THEN mime_type(named.format) ELSE extension(named.format))
            /\ name # "raw" ) => looked_up.is # None

-----------------------------------------------------------------------------
(* What the source says and the code does not keep                           *)

(* builtins.rs:82: the TGA footer is definitive when the full file is there.   *)
FooterIsDefinitive ==
  (file # None /\ Common /\ file.kind = "tga" /\ file.footer /\ probed = file.size /\ probed >= 44) =>
    verdict = Builtin("tga")
=============================================================================
