-------------------------- MODULE FormatDefinitions -------------------------
(***************************************************************************)
(* The built-in image formats and their detectors                           *)
(* (src/src/format/builtins.rs).  A detector sees the first n bytes of a    *)
(* file.  A file is a record of what stands where:                          *)
(*   kind "plain"  starts with the magic bytes `start`                      *)
(*   kind "bmff"   box_size, major brand at 8, four-byte slots from 16 on   *)
(*   kind "tiff"   what is at 8, where IFD0 is and the tags of its entries  *)
(*   kind "tga"    the header's fields; an icon cursor is one, read so      *)
(*   kind "svg"    where the markup opens, how, and where "<svg" stands     *)
(* each with its size, and whether a TGA footer ends it.                    *)
(***************************************************************************)
EXTENDS Integers, Sequences

(* A definition: name, extensions, MIME types (the preferred one first), the  *)
(* bytes it asks for, and its magic: how a file starts and how many bytes     *)
(* the detector wants to see of it; image_format is the built-in it stands    *)
(* for, "Custom" for None.  What the format supports is left out.             *)
DefinitionOf(image_format, name, preferred, extensions, mime_types, needed, magic) ==
  [image_format |-> image_format, name |-> name, preferred_extension |-> preferred,
   extensions |-> extensions, mime_types |-> mime_types, magic_bytes_needed |-> needed,
   magic |-> magic]

(* A built-in one; its variant of ImageFormat goes by the same name.          *)
Definition(name, preferred, extensions, mime_types, needed, magic) ==
  DefinitionOf(name, name, preferred, extensions, mime_types, needed, magic)

JPEG == Definition("jpeg", "jpg", {"jpg", "jpeg", "jpe", "jfif"}, <<"image/jpeg">>, 2048,
                   {<<"FFD8FF", 3>>})
PNG == Definition("png", "png", {"png"}, <<"image/png">>, 33, {<<"89PNG", 8>>})
GIF == Definition("gif", "gif", {"gif"}, <<"image/gif">>, 13, {<<"GIF87a", 6>>, <<"GIF89a", 6>>})
WEBP == Definition("webp", "webp", {"webp"}, <<"image/webp">>, 30, {<<"RIFF-WEBP", 12>>})
AVIF == Definition("avif", "avif", {"avif"}, <<"image/avif">>, 512, {})
JXL == Definition("jxl", "jxl", {"jxl"}, <<"image/jxl">>, 256,
                   {<<"FF0A", 2>>, <<"JXL-container", 12>>})
HEIC == Definition("heic", "heif", {"heic", "heif", "hif"}, <<"image/heif", "image/heic">>, 512, {})
BMP == Definition("bmp", "bmp", {"bmp"}, <<"image/bmp", "image/x-bmp">>, 54, {<<"BM", 2>>})
FARBFELD == Definition("farbfeld", "ff", {"ff"}, <<"image/x-farbfeld">>, 16, {<<"farbfeld", 8>>})
PNM == Definition("pnm", "pnm", {"pnm", "ppm", "pgm", "pbm", "pam", "pfm"},
                   <<"image/x-portable-anymap", "image/x-portable-pixmap",
                     "image/x-portable-graymap", "image/x-portable-bitmap">>, 20,
                   {<<p, 2>> : p \in {"P1", "P2", "P3", "P4", "P5", "P6", "P7", "PF", "Pf"}})
TIFF == Definition("tiff", "tiff", {"tiff", "tif"}, <<"image/tiff">>, 8, {})
ICO == Definition("ico", "ico", {"ico", "cur"}, <<"image/x-icon", "image/vnd.microsoft.icon">>, 22,
                   {<<"00000100", 4>>})
QOI == Definition("qoi", "qoi", {"qoi"}, <<"image/x-qoi">>, 14, {<<"qoif", 4>>})
PDF == Definition("pdf", "pdf", {"pdf"}, <<"application/pdf">>, 5, {<<"%PDF-", 5>>})
EXR == Definition("exr", "exr", {"exr"}, <<"image/x-exr">>, 4, {<<"762F3101", 4>>})
HDR == Definition("hdr", "hdr", {"hdr", "rgbe", "pic"}, <<"image/vnd.radiance", "image/x-hdr">>, 11,
                   {<<"#?RADIANCE", 10>>, <<"#?RGBE", 10>>})
JP2 == Definition("jp2", "jp2", {"jp2", "j2k", "j2c", "jpf", "jpx"},
                   <<"image/jp2", "image/jpx", "image/x-jp2">>, 12,
                   {<<"JP2-container", 8>>, <<"FF4FFF51", 4>>})
TGA == Definition("tga", "tga", {"tga", "targa", "icb", "vda", "vst"},
                   <<"image/x-tga", "image/x-targa">>, 18, {})
DNG == Definition("dng", "dng", {"dng"}, <<"image/x-adobe-dng", "image/x-dng">>, 1024, {})
(* Mutant of RAW: camera files listed as image/tiff, which most of them are. *)
RAWasTIFF == Definition("raw", "raw", {"cr2", "nef", "arw"}, <<"image/x-raw", "image/tiff">>, 1024,
                        {<<"IIRO", 4>>, <<"FUJIFILM", 8>>, <<"IIU0", 4>>})

RAW == Definition("raw", "raw",
                   {"cr2", "cr3", "nef", "nrw", "arw", "srf", "sr2", "rw2", "pef", "orf", "erf",
                    "raf", "3fr", "iiq", "dcr", "kdc", "mrw", "rwl", "srw"},
                   <<"image/x-raw", "image/x-dcraw">>, 1024,
                   {<<"IIRO", 4>>, <<"FUJIFILM", 8>>, <<"IIU0", 4>>})
SVG == Definition("svg", "svg", {"svg", "svgz"}, <<"image/svg+xml">>, 1024, {})

(* Mutant of ALL: HEIC before AVIF. *)
ALL_HEIC_FIRST == <<JPEG, PNG, GIF, WEBP, HEIC, AVIF, JXL, BMP, FARBFELD, PNM, DNG, RAW, TIFF, ICO,
                    QOI, PDF, EXR, HDR, JP2, TGA, SVG>>

ALL == <<JPEG, PNG, GIF, WEBP, AVIF, JXL, HEIC, BMP, FARBFELD, PNM, DNG, RAW, TIFF, ICO,
         QOI, PDF, EXR, HDR, JP2, TGA, SVG>>

-----------------------------------------------------------------------------
(* ImageFormat: a variant, and the definition a Custom one refers to.        *)
Builtin(name) == [variant |-> name, def |-> <<>>]
Custom(d) == [variant |-> "Custom", def |-> d]
Unknown == Builtin("unknown")

to_image_format(d) ==
  IF d.image_format = "Custom" THEN Custom(d) ELSE Builtin(d.image_format)

(* The definitions of a format: none for Unknown.                             *)
definition(format) ==
  IF format.variant = "Custom" THEN {format.def}
  ELSE {d \in {ALL[i] : i \in DOMAIN ALL} : d.name = format.variant}

mime_type(format) ==
  IF format = Unknown THEN "application/octet-stream"
  ELSE (CHOOSE d \in definition(format) : TRUE).mime_types[1]

extension(format) ==
  IF format = Unknown THEN "bin"
  ELSE (CHOOSE d \in definition(format) : TRUE).preferred_extension

(* Custom formats are equal when their definitions have one name.             *)
Same(a, b) == a.variant = b.variant /\ (a.variant = "Custom" => a.def.name = b.def.name)

-----------------------------------------------------------------------------
(* ISO BMFF                                                                 *)

HEIC_BRANDS == {"heic", "heix", "hevc", "hevx", "heim", "heis", "hevm", "hevs"}

has_ftyp(f, n) == f.kind = "bmff" /\ n >= 12

(* Mutant of scan_compat_brands: what follows the box is read as brands. *)
scan_past_box(f, n, target) == \E i \in 1..Len(f.slots) : f.slots[i] \in target /\ 16 + 4 * i <= n

(* Slots are looked at up to the end of the box, or of the data.  With a      *)
(* box_size of 1 the size is the 64-bit number at 8; as the major brand is    *)
(* read from there too, a brand found there makes it larger than any file.    *)
scan_compat_brands(f, n, target) ==
  LET end == IF f.box_size \in {0, 1} \/ n < f.box_size THEN n ELSE f.box_size
      first == IF f.box_size = 1 THEN 3 ELSE 1
  IN /\ f.box_size = 1 => n >= 16
     /\ \E i \in first..Len(f.slots) : f.slots[i] \in target /\ 16 + 4 * i <= end

detect_brand(f, n, majors, brands) ==
  /\ has_ftyp(f, n)
  /\ f.major \in majors \/ (f.major \in {"mif1", "msf1"} /\ scan_compat_brands(f, n, brands))

detect_avif(f, n) == detect_brand(f, n, {"avif", "avis"}, {"avif", "avis"})

detect_heic(f, n) == detect_brand(f, n, HEIC_BRANDS, HEIC_BRANDS)

-----------------------------------------------------------------------------
(* TIFF and the camera formats built on it                                  *)

DNG_VERSION == 50706
SUB_IFDS == 330

is_tiff_header(f, n) == f.kind = "tiff" /\ n >= 4

(* Mutant of has_ifd0_tag: a directory that is cut off counts as a hit. *)
has_ifd0_tag_cut(f, n, tag) ==
  /\ n >= 8 /\ f.ifd_offset + 2 <= n
  /\ \E i \in 1..Len(f.tags) :
       /\ f.tags[i] = tag \/ f.ifd_offset + 4 + 12 * (i - 1) > n
       /\ \A k \in 1..i : f.tags[k] <= tag

(* Entries are looked at in order while their tag bytes are there; one with a *)
(* larger tag ends the scan.                                                  *)
has_ifd0_tag(f, n, tag) ==
  /\ n >= 8 /\ f.ifd_offset + 2 <= n
  /\ \E i \in 1..Len(f.tags) :
       /\ f.tags[i] = tag
       /\ f.ifd_offset + 4 + 12 * (i - 1) <= n
       /\ \A k \in 1..i : f.tags[k] <= tag

apple_dng(f, n) == n >= 16 /\ f.at8 = "APPLEDNG"

detect_dng(f, n) == is_tiff_header(f, n) /\ (apple_dng(f, n) \/ has_ifd0_tag(f, n, DNG_VERSION))

detect_raw(f, n) ==
  \/ /\ is_tiff_header(f, n) /\ ~has_ifd0_tag(f, n, DNG_VERSION) /\ ~apple_dng(f, n)
     /\ (n >= 10 /\ f.at8 = "CR") \/ has_ifd0_tag(f, n, SUB_IFDS)
  \/ has_ftyp(f, n) /\ f.major = "crx"

-----------------------------------------------------------------------------
(* TGA has no magic: a footer, or a header whose fields make sense           *)

(* The fields of a header. *)
tga_header(f) ==
  /\ f.image_type \in {1, 2, 3, 9, 10, 11}
  /\ f.color_map_type \in {0, 1} /\ f.id_length < 128 /\ ~f.reserved_bits
  /\ f.width # 0 /\ f.height # 0
  /\ CASE f.image_type \in {1, 9} -> f.pixel_depth = 8 /\ f.color_map_type = 1
       [] f.image_type \in {2, 10} -> f.pixel_depth \in {15, 16, 24, 32}
       [] OTHER -> f.pixel_depth = 8
  /\ f.alpha_bits <= (CASE f.pixel_depth = 32 -> 8 [] f.pixel_depth = 16 -> 1 [] OTHER -> 0)
  /\ f.color_map_type = 1 => f.map_depth \in {15, 16, 24, 32}

detect_tga(f, n) ==
  \/ n >= 44 /\ f.footer /\ n = f.size
  \/ n >= 18 /\ f.kind = "tga" /\ tga_header(f)

(* The four bytes of an icon cursor, 00 00 02 00, as a TGA header has them.   *)
detect_cursor(f, n) ==
  n >= 4 /\ f.kind = "tga" /\ f.id_length = 0 /\ f.color_map_type = 0
         /\ f.image_type \in {1, 2} /\ f.first_entry_low = 0

-----------------------------------------------------------------------------
(* SVG: the opening tag, or an XML declaration with "<svg" somewhere after    *)
(* it, within the first 1024 bytes.  A gzip stream opens with neither.        *)

detect_svg(f, n) ==
  LET searched == IF n < 1024 THEN n ELSE 1024
  IN /\ f.kind = "svg"
     /\ \/ f.opening = "<svg" /\ f.opens_at + 4 <= searched
        \/ f.opening = "<!doctype" /\ f.opens_at + 13 <= searched
        \/ f.opening = "<?xml" /\ f.opens_at + 5 <= searched /\ f.svg_at + 4 <= searched

(* Where such a file has said that it is SVG.                                 *)
SvgEnd(f) ==
  IF f.opening = "<svg" THEN f.opens_at + 4
  ELSE IF f.opening = "<!doctype" THEN f.opens_at + 13 ELSE f.svg_at + 4

-----------------------------------------------------------------------------
(* The files there are: as long as what is said to stand in them.             *)
IsFile(f) ==
  /\ f.size \in Nat \ {0} /\ f.footer \in BOOLEAN
  /\ f.footer => f.kind \in {"plain", "tga"} /\ f.size >= 44
  /\ \/ /\ f.kind = "plain"
        /\ \A i \in DOMAIN ALL : \A m \in ALL[i].magic : m[1] = f.start => m[2] <= f.size
     \/ /\ f.kind = "bmff" /\ f.box_size \in Nat
        /\ Len(f.slots) \in Nat /\ DOMAIN f.slots = 1..Len(f.slots)
        /\ 16 + 4 * Len(f.slots) <= f.size
     \/ /\ f.kind = "tiff" /\ f.ifd_offset \in Nat /\ f.tags \in Seq(Nat)
        /\ 16 <= f.size /\ f.ifd_offset + 2 + 12 * Len(f.tags) <= f.size
     \/ f.kind = "tga" /\ 18 <= f.size
     \/ /\ f.kind = "svg" /\ f.opening \in {"<svg", "<!doctype", "<?xml"}
        /\ f.opens_at \in Nat /\ f.svg_at \in Nat
        /\ f.opening = "<?xml" => f.opens_at + 5 <= f.svg_at
        /\ SvgEnd(f) <= f.size

-----------------------------------------------------------------------------
(* (def.detect)(data) *)
detect(d, f, n) ==
  \/ f.kind = "plain" /\ \E m \in d.magic : m[1] = f.start /\ n >= m[2]
  \/ d = AVIF /\ detect_avif(f, n)
  \/ d = HEIC /\ detect_heic(f, n)
  \/ d = DNG /\ detect_dng(f, n)
  \/ d = RAW /\ detect_raw(f, n)
  \/ d = TIFF /\ is_tiff_header(f, n)
  \/ d = ICO /\ detect_cursor(f, n)
  \/ d = TGA /\ detect_tga(f, n)
  \/ d = SVG /\ detect_svg(f, n)
=============================================================================
