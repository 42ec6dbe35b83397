----------------------------- MODULE MCDispatch -----------------------------
(* The codecs of src/tests, and such as support only a part or wrap their      *)
(* errors twice; every order of the ways before the last.                      *)
EXTENDS Dispatch, FiniteSets

DecoderOf(caps, error, sink) == [caps |-> caps, error |-> error, sink |-> sink]
EncoderOf(caps, error, unit) == [caps |-> caps, error |-> error, unit |-> unit]

MCDecoders ==
  {DecoderOf({"streaming", "animation", "stop"}, <<"MockError">>, "source"),
   DecoderOf({"cheap_probe"}, <<"At">>, "text"),
   DecoderOf({"animation"}, <<"At", "Inner">>, "source"),
   DecoderOf({"animation", "streaming"}, <<"At">>, "text")}

MCEncoders ==
  {EncoderOf({"push_rows", "encode_from", "animation"}, <<"MockError">>, FALSE),
   EncoderOf({"lossless"}, <<"At">>, FALSE),
   EncoderOf({"push_rows"}, <<"At", "Inner">>, TRUE),
   EncoderOf({"encode_from"}, <<"MockError">>, TRUE)}

(* Up to four of the other ways in any order, then the whole image.             *)
MCPlans ==
  {Append(p, "whole") :
     p \in {q \in UNION {[1..n -> Ways \ {"whole"}] : n \in 0..4} :
            Cardinality({q[i] : i \in DOMAIN q}) = Len(q)}}
=============================================================================
