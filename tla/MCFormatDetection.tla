-------------------------- MODULE MCFormatDetection -------------------------
(* Every magic, and the families whose signatures overlap, with cuts where a *)
(* detector's answer may change.                                             *)
EXTENDS FormatDetection, SequencesExt

Plain(start, footer) == [kind |-> "plain", start |-> start, size |-> 64, footer |-> footer]

Magics == UNION {{m[1] : m \in ALL[i].magic} : i \in DOMAIN ALL}

Bmff(box, major, slots) ==
  [kind |-> "bmff", box_size |-> box, major |-> major, slots |-> slots, size |-> 640, footer |-> FALSE]

Slots == {<<>>, <<"avif">>, <<"heic">>, <<"mif1", "heic", "avif">>, <<"mif1", "avif", "heix">>,
          <<"mif1", "miaf">>, <<"avif", "zero", "mif1", "avif">>}

Tiff(at8, offset, tags) ==
  [kind |-> "tiff", at8 |-> at8, ifd_offset |-> offset, tags |-> tags, size |-> 5200, footer |-> FALSE]

Tags == {<<>>, <<256>>, <<SUB_IFDS>>, <<256, SUB_IFDS>>, <<256, DNG_VERSION>>, <<DNG_VERSION>>,
         <<256, SUB_IFDS, DNG_VERSION>>, <<SUB_IFDS, 400, DNG_VERSION>>, <<60000, SUB_IFDS>>,
         <<DNG_VERSION, 256, SUB_IFDS>>}

Tga(id, map, type, first, depth, alpha, size, footer) ==
  [kind |-> "tga", id_length |-> id, color_map_type |-> map, image_type |-> type,
   first_entry_low |-> first, map_depth |-> 24, width |-> 1, height |-> 1, pixel_depth |-> depth,
   alpha_bits |-> alpha, reserved_bits |-> FALSE, size |-> size, footer |-> footer]

Svg(opening, at, svg) ==
  [kind |-> "svg", opening |-> opening, opens_at |-> at, svg_at |-> svg, size |-> 2000, footer |-> FALSE]

MCFiles ==
  {Plain(m, footer) : m \in Magics \cup {"DDS"}, footer \in BOOLEAN}
  \cup {Bmff(b, major, s) : b \in {0, 24, 28, 600}, major \in {"avif", "mif1", "heic", "crx", "qt"}, s \in Slots}
  \cup {Bmff(1, "zero", s) : s \in Slots}
  \cup {Tiff(at8, o, t) : at8 \in {"other", "APPLEDNG", "CR"}, o \in {40, 5000}, t \in Tags}
  \cup {Tiff("other", 8, t) : t \in Tags}
  \cup {Tga(id, 0, 2, first, depth, 0, 60, footer)
        : id \in {0, 5}, first \in {0, 1}, depth \in {24, 32}, footer \in BOOLEAN}
  \cup {Tga(0, 0, 7, 0, 24, 0, 60, footer) : footer \in BOOLEAN}
  \cup {Svg("<svg", a, a) : a \in {0, 7, 1022}}
  \cup {Svg("<!doctype", 0, 20), Svg("<?xml", 3, 40), Svg("<?xml", 3, 1019), Svg("<?xml", 3, 1021)}

RawFirst == <<RAW, DNG, TIFF>>

(* A format of a caller's, one that takes over a built-in's names, and names   *)
(* for animated PNG.                                                           *)
DDS == DefinitionOf("Custom", "dds", "dds", {"dds"}, <<"image/vnd-ms.dds">>, 4, {<<"DDS", 4>>})
JPEG2000 == DefinitionOf("Custom", "jpeg2000", "jp2", {"jp2", "j2k", "jpx"},
                         <<"image/jp2", "image/jpx">>, 12, {<<"JP2-container", 12>>})
APNG == DefinitionOf("png", "apng", "apng", {"apng"}, <<"image/apng">>, 8, {})

MCRegistries == {ALL, Reverse(ALL), RawFirst, <<JPEG2000>> \o ALL, ALL \o <<APNG, DDS>>}

MCOverrides == {<<"png", "apng">>}
MCMimeOverrides == {<<"png", "image/apng">>}

MCCuts == {2, 4, 8, 10, 12, 16, 18, 20, 24, 28, 40, 44, 54, 64, 66, 512, 1024, 4096, 5004, 5016}
=============================================================================
