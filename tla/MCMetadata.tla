----------------------------- MODULE MCMetadata -----------------------------
(* A decoder reports any directory of up to two entries, with the ways a value *)
(* may be stored and the places a blob may be cut off; builder calls go on     *)
(* with a few whole blobs.                                                    *)
EXTENDS Metadata

One(be, type, a, b) ==
  [prefix |-> FALSE, header |-> TRUE, big_endian |-> be, count |-> 1, bytes |-> 12,
   entries |-> <<[tag |-> TAG_ORIENTATION, type |-> type, number |-> 1, field |-> <<a, b>>]>>]

MCBlobs ==
  {One(FALSE, "SHORT", 6, 0), One(TRUE, "SHORT", 8, 0), One(FALSE, "SHORT", 1, 0), One(FALSE, "SHORT", 9, 0),
   One(TRUE, "LONG", 0, 6), [One(FALSE, "SHORT", 6, 0) EXCEPT !.header = FALSE]}

Orient(t, n, a, b) == [tag |-> TAG_ORIENTATION, type |-> t, number |-> n, field |-> <<a, b>>]

Other(tag) == [tag |-> tag, type |-> "SHORT", number |-> 1, field |-> <<6, 0>>]

Directory ==
  {Orient("SHORT", 1, 6, 0), Orient("SHORT", 1, 9, 0), Orient("SHORT", 1, 0, 3),
   Orient("SHORT", 1, 6, 3),
   Orient("LONG", 1, 6, 0), Orient("LONG", 1, 0, 3), Orient("LONG", 1, 6, 3),
   Orient("other", 1, 6, 0), Orient("SHORT", 0, 6, 0),
   Other(TAG_ORIENTATION - 1), Other(TAG_ORIENTATION + 1)}

Directories == {<<>>} \cup {<<e>> : e \in Directory} \cup {<<e, f>> : e, f \in Directory}

(* Cuts within each field of an entry, and between entries. *)
Cuts(n) == {c \in {0, 1, 2, 10, 12, 14, 22, 24} : c <= 12 * n}

MCReported ==
  UNION {{[prefix |-> p, header |-> TRUE, big_endian |-> be, count |-> n, entries |-> es,
           bytes |-> len] : p, be \in BOOLEAN, n \in 0..3, len \in Cuts(Len(es))}
         : es \in Directories}
  \cup {[prefix |-> FALSE, header |-> FALSE, big_endian |-> be, count |-> 1,
         entries |-> <<Orient("SHORT", 1, 6, 0)>>, bytes |-> 12] : be \in BOOLEAN}
  \cup MCBlobs

(* Calls are followed up once the blob is one of the few. *)
FewBlobs == Len(given) = 1 \/ exif \in MCBlobs \cup {None}
=============================================================================
