------------------------------ MODULE MCGainMap -----------------------------
(* Originals: one channel whose min and max take every pair of floats, one   *)
(* value elsewhere odd at a time, and two multi-channel maps.  A u32 has 10  *)
(* bits, an i32 9, an f32 3 significant bits and an f64 10: enough for the    *)
(* product of 5/512 and a denominator to round to an integer that it is not.  *)
EXTENDS GainMapIso21496

CONSTANTS MinMax,        (* floats for min and max                           *)
          Odd            (* floats for each other value                      *)

Quotients == {<<0, 1>>, <<1, 64>>, <<5, 512>>, <<1, 960>>, <<1, 3>>,
              <<13, 9>>, <<448, 1>>, <<511, 1>>, <<1, 0>>}
Negative(v) == <<-v[1], v[2]>>
MCFloats ==
  LET floats == {AsF64(q) : q \in Quotients}
  IN floats \cup {Negative(v) : v \in floats \ {<<0, 1>>}} \cup {NaN}
MCOdd ==
  {AsF64(q) : q \in {<<1, 2048>>, <<1, 960>>, <<1, 900>>, <<5, 1024>>, <<3, 128>>, <<1, 2>>,
                     <<1000, 1>>, <<900, 1>>, <<70000, 1>>, <<1, 0>>}}
  \cup {<<-1, 4>>, NaN}

Channel(min, max) ==
  [min |-> min, max |-> max, gamma |-> <<1, 1>>, base_offset |-> <<1, 16>>,
   alternate_offset |-> <<1, 16>>]

Map(channels, base, alternate, backward) ==
  [channels |-> channels, base_hdr_headroom |-> base, alternate_hdr_headroom |-> alternate,
   use_base_color_space |-> ~backward, backward_direction |-> backward]

One(ch) == <<ch, ch, ch>>
Plain == Channel(<<0, 1>>, <<2, 1>>)

MCOriginals ==
  {DefaultParams}
  \cup {Map(One(Channel(a, b)), <<0, 1>>, <<2, 1>>, FALSE) : a, b \in MinMax}
  \cup {Map(One([Plain EXCEPT ![k] = v]), <<0, 1>>, <<2, 1>>, TRUE)
        : k \in {"gamma", "base_offset", "alternate_offset"}, v \in Odd}
  \cup {Map(One(Plain), v, w, TRUE) : v, w \in Odd}
  \cup {Map(<<Plain, [Plain EXCEPT !.gamma = v], Plain>>, <<1, 1>>, <<0, 1>>, TRUE) : v \in Odd}

(* Files of others: `words` for one channel in either layout, with a denominator of d. *)
Full(d) == <<1, 2, 3, 1, 0, 1, 5, d, 2, 1, 1, 16, -1, 31>>
Shared(d) == <<d, 0, 6, -3, 3, 2, 1, 1>>
File(format, urn, version, minimum, flags, words) ==
  [format |-> format, urn |-> urn, version |-> version, minimum_version |-> minimum,
   flags |-> flags, words |-> words]

MCForeign ==
  {File(format, ISO_21496_1_URN, 0, 0, flags, words)
   : format \in Formats, flags \in {{}, {"backward_direction", "reserved"}},
     words \in {Full(3), Full(0), Full(7) \o <<1>>}}
  \cup {File(format, ISO_21496_1_URN, 0, 0, flags \cup {"common_denominator"}, words)
   : format \in Formats, flags \in {{}, {"backward_direction", "use_base_colour_space"}},
     words \in {Shared(3), Shared(0), Shared(31)}}
  \cup {File(format, ISO_21496_1_URN, 0, 0, {"multi_channel", "common_denominator"},
             Shared(2) \o <<-3, 3, 2, 1, 1, -2, 4, 1, 1, 0>>) : format \in Formats}
  \cup {File(format, ISO_21496_1_URN, 0, 0, {"multi_channel"}, Full(3)) : format \in Formats}
  \cup {File("AvifTmap", ISO_21496_1_URN, 1, 0, {}, Full(3)),
        File("AvifTmap", ISO_21496_1_URN, 0, 1, {}, Full(3)),
        File("JxlJhgm", ISO_21496_1_URN, 0, 1, {}, Full(3)),
        File("JpegApp2BodyWithUrn", "other", 0, 0, {}, Full(3)),
        ISO_21496_1_PRIMARY_APP2_BODY}
=============================================================================
