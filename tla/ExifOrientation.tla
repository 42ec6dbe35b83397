--------------------------- MODULE ExifOrientation ---------------------------
(***************************************************************************)
(* The two parsers of the EXIF orientation tag: the private one behind       *)
(* Metadata::with_exif (src/src/metadata.rs) and the public helper that      *)
(* codecs are offered (src/src/helpers/exif.rs).  They differ in what they   *)
(* tolerate and in where they stop.  A blob is what both look at: whether    *)
(* header and IFD offset are in order, and the 12-byte entries from there    *)
(* on, of which only the first `bytes` bytes are in the data.                *)
(***************************************************************************)
EXTENDS Integers, Sequences, Option

CONSTANT MAX_IFD_ENTRIES           (* the helper's cap on declared entries    *)

ASSUME ExifAssumption == MAX_IFD_ENTRIES \in Nat /\ None \notin Nat

TAG_ORIENTATION == 274
U16 == 0..65535

(* A value field is two halves of 16 bits, in the order of the file. *)
Entries == [tag : U16, type : {"SHORT", "LONG", "other"}, number : Nat,
            field : U16 \X U16]

BlobType == [prefix : BOOLEAN,      (* begins with Exif\0\0                    *)
             header : BOOLEAN,      (* byte order, 42, and an IFD offset inside *)
             big_endian : BOOLEAN,
             count : U16,           (* entries declared                        *)
             entries : Seq(Entries), bytes : Nat]

(* Whatever is read of an entry is among the bytes there are. *)
IsBlob(b) == b \in BlobType /\ b.bytes <= 12 * Len(b.entries)

(* The first n bytes of entry i are there. *)
Present(b, i, n) == 12 * (i - 1) + n <= b.bytes

First(S) == CHOOSE i \in S : \A j \in S : i <= j

IsOrientation(b, i) == b.entries[i].tag = TAG_ORIENTATION

-----------------------------------------------------------------------------
(* metadata.rs: the walk ends where a read fails, or at an orientation tag  *)
(* whose first half is an orientation; it goes on past one whose is not.    *)
EndsMetadataWalk(b, i) ==
  \/ ~Present(b, i, 2)
  \/ /\ IsOrientation(b, i)
     /\ ~Present(b, i, 10) \/ b.entries[i].field[1] \in 1..8

MetadataOrientation(b) ==
  LET ends == {i \in 1..b.count : EndsMetadataWalk(b, i)}
      at == First(ends)
  IN IF b.header /\ ~b.prefix /\ ends # {} /\ Present(b, at, 10)
     THEN b.entries[at].field[1]
     ELSE None

(* helpers/exif.rs: the walk ends at the first entry that is not whole, or   *)
(* whose tag is not below the one sought.                                   *)
EndsHelperWalk(b, i) ==
  \/ ~Present(b, i, 12)
  \/ b.entries[i].tag >= TAG_ORIENTATION

(* Mutant of Value: a LONG is read as a little-endian one. *)
ValueLittle(b, e) ==
  CASE e.type = "SHORT" -> e.field[1]
    [] e.type = "LONG" -> e.field[2] * 65536 + e.field[1]
    [] e.type = "other" -> None

(* Mutant of Value: a SHORT is looked for at the end of the field. *)
ValueLast(b, e) == IF e.type = "other" THEN None ELSE e.field[2]

(* The value as its type says: the first half, or both in the byte order. *)
Value(b, e) ==
  CASE e.type = "SHORT" -> e.field[1]
    [] e.type = "LONG" /\ b.big_endian -> e.field[1] * 65536 + e.field[2]
    [] e.type = "LONG" /\ ~b.big_endian -> e.field[2] * 65536 + e.field[1]
    [] e.type = "other" -> None

HelperOrientation(b) ==
  LET ends == {i \in 1..b.count : EndsHelperWalk(b, i)}
      at == First(ends)
  IN IF /\ b.header /\ b.count <= MAX_IFD_ENTRIES /\ ends # {}
        /\ Present(b, at, 12) /\ IsOrientation(b, at)
        /\ b.entries[at].number >= 1
        /\ Value(b, b.entries[at]) \in 1..8
     THEN Value(b, b.entries[at])
     ELSE None

-----------------------------------------------------------------------------
(* TIFF 6.0: entries whole, sorted by tag, none twice; a tag's one value.    *)
WellFormed(b) ==
  /\ b.header
  /\ 12 * b.count <= b.bytes
  /\ \A i, j \in 1..b.count : i < j => b.entries[i].tag < b.entries[j].tag
  /\ \A i \in 1..b.count : IsOrientation(b, i) => b.entries[i].number = 1

(* The orientations a blob states by that standard: at most one if it is     *)
(* well formed.  A LONG below 2^16 is its low half.                          *)
States(b, e, o) ==
  \/ e.type = "SHORT" /\ e.field[1] = o
  \/ e.type = "LONG" /\ e.field = IF b.big_endian THEN <<0, o>> ELSE <<o, 0>>

StandardOrientations(b) ==
  {o \in 1..8 : \E i \in 1..b.count : IsOrientation(b, i) /\ States(b, b.entries[i], o)}

(* An answer that says what the standard says. *)
Reads(answer, b) ==
  IF StandardOrientations(b) = {} THEN answer = None ELSE answer \in StandardOrientations(b)

IsShort(b) == \A i \in 1..b.count : IsOrientation(b, i) => b.entries[i].type = "SHORT"

(* The tag is there at most once among the entries declared and present. *)
TagOnce(b) ==
  \A i, j \in 1..b.count :
    /\ Present(b, i, 2) /\ IsOrientation(b, i)
    /\ Present(b, j, 2) /\ IsOrientation(b, j)
    => i = j
=============================================================================
