-------------------------- MODULE PixelNegotiation --------------------------
(***************************************************************************)
(* How a decoder picks its output among what it can produce, and an encoder  *)
(* its input among what it supports (src/src/negotiate.rs).  A descriptor is *)
(* a record with a `format`, the physical layout, and more fields; two are   *)
(* an exact match when all fields are equal.                                *)
(***************************************************************************)
EXTENDS Integers, Sequences

Least(indices) == CHOOSE i \in indices : \A j \in indices : i <= j

Exact(d, list) == {i \in DOMAIN list : list[i] = d}
SameFormat(d, list) == {i \in DOMAIN list : list[i].format = d.format}

(* The two tiers: the first exact match, else the first of the same format.  *)
BestMatch(d, list) ==
  IF Exact(d, list) # {} THEN d ELSE list[Least(SameFormat(d, list))]

(* Mutant of negotiate_pixel_format: the caller's descriptor, not the decoder's. *)
negotiate_the_preferred(preferred, available, none) ==
  LET matched == {i \in DOMAIN preferred : SameFormat(preferred[i], available) # {}}
  IN IF available = <<>> THEN none
     ELSE IF matched = {} THEN available[1]
     ELSE preferred[Least(matched)]

(* Mutant of negotiate_pixel_format: the second tier is forgotten. *)
negotiate_exact_only(preferred, available, none) ==
  LET matched == {i \in DOMAIN preferred : Exact(preferred[i], available) # {}}
  IN IF available = <<>> THEN none
     ELSE IF matched = {} THEN available[1]
     ELSE BestMatch(preferred[Least(matched)], available)

(* Both tiers of one preference before the next; else the decoder's default. *)
negotiate_pixel_format(preferred, available, none) ==
  LET matched == {i \in DOMAIN preferred : SameFormat(preferred[i], available) # {}}
  IN IF available = <<>> THEN none
     ELSE IF matched = {} THEN available[1]
     ELSE BestMatch(preferred[Least(matched)], available)

best_encode_format(source, supported, none) ==
  IF SameFormat(source, supported) = {} THEN none ELSE BestMatch(source, supported)

is_format_available(format, available) == \E i \in DOMAIN available : available[i].format = format
=============================================================================
