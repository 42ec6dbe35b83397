----------------------------- MODULE CallerProofs ----------------------------
(***************************************************************************)
(* Proofs about what a caller that knows no codec relies on: of Dispatch,    *)
(* for any codecs, error types, plans and heights; of FormatDetection, for   *)
(* any registry, any file of the kinds there are and any way to receive it.  *)
(***************************************************************************)
EXTENDS Dispatch, FormatDetection, WellFoundedInduction, TLAPS

-----------------------------------------------------------------------------
(* Dispatch                                                                  *)

(* The rows a decoder has given out before it gives the row after the k-th.  *)
RowsTo(k) == [i \in 1..k |-> i]

(* While a way goes well, what the caller holds of either side.  A streaming *)
(* decoder is so many rows on, and they are in the encoder but for the last  *)
(* one, which may be in the caller's hands.                                  *)
Streaming ==
  /\ way \in {"rows", "pull"} /\ next_row - 1 <= complete
  /\ \/ pixels = <<>> /\ taken = RowsTo(next_row - 1)
     \/ way = "rows" /\ next_row > 1 /\ pixels = <<next_row - 1>> /\ taken = RowsTo(next_row - 2)

(* A decoder that is used up has given the whole image: to the caller, or to *)
(* the encoder.                                                              *)
UsedUp ==
  /\ way # "pull" /\ complete = height
  /\ \/ way # "whole" /\ pixels = <<>> /\ taken = Rows
     \/ way \in {"frames", "whole"} /\ pixels = Rows /\ taken = <<>>

Holding ==
  /\ decoding \in {"config", "job", "decoder", "frames"} => pixels = <<>> /\ taken = <<>>
  /\ decoding \in {"config", "job"} => next_row = 1
  /\ decoding \in {"decoder", "stream", "frames", "consumed"} => fits
  /\ decoding = "decoder" => way = "whole"
  /\ decoding = "frames" => way \in {"frames", "frame_sink"}
  /\ decoding = "stream" => Streaming
  /\ decoding = "consumed" => UsedUp
  /\ encoding = "frames" => way = "frames"
  /\ encoding = "pulling" => way = "pull" /\ decoding = "stream"
  /\ way = "pull" /\ encoding \in {"config", "job", "encoder"} => next_row = 1

(* The errors there are, and what ErrorTellsCause says of one of them.       *)
LinkTypes == STRING \cup {"UnsupportedOperation", "LimitExceeded"}
Causes == [type : LinkTypes, value : UnsupportedOperation \cup {"height", None}]

Tells(err) ==
  err # Ok =>
    LET op == unsupported_operation(err)
        limit == limit_exceeded(err)
    IN /\ op # None => /\ op \in UnsupportedOperation /\ limit = None
                       /\ op \in DecodeOperations => ~decode_supports(decoder.caps, op)
                       /\ op \in EncodeOperations => ~encode_supports(encoder.caps, op)
       /\ limit # None => ~fits
       /\ op = None /\ limit = None => complete < height \/ Flattened

DispatchTyped ==
  /\ decoder \in Decoders /\ encoder \in Encoders
  /\ height \in Heights /\ complete \in 0..height /\ fits \in BOOLEAN
  /\ plan \in Seq(Ways) /\ plan # <<>> /\ Last(plan) = "whole"
  /\ decoding \in {"config", "job", "decoder", "stream", "frames", "consumed"}
  /\ encoding \in {"config", "job", "encoder", "frames", "pulling", "consumed"}
  /\ next_row \in 1..height + 1
  /\ pixels \in Seq(1..height) /\ taken \in Seq(1..height)
  /\ answer \in Seq(Causes)

DispatchInv ==
  /\ DispatchTyped
  /\ Going => Holding
  /\ output # None => answer = Ok
  /\ ErrorTellsCause
  /\ OutputIsWhole
-----------------------------------------------------------------------------
(* What find_cause finds                                                     *)

(* Of some natural numbers one is the least. *)
LEMMA LeastOf ==
  ASSUME NEW S \in SUBSET Nat, S # {}
  PROVE  \E i \in S : \A j \in S : i <= j
<1>1. PICK i \in S : \A j \in S : ~(<<j, i>> \in OpToRel(<, Nat))
  BY NatLessThanWellFounded, WFMin
<1>2. \A j \in S : ~(j < i)
  <2> SUFFICES ASSUME NEW j \in S, j < i PROVE FALSE
    OBVIOUS
  <2>1. <<j, i>> \in OpToRel(<, Nat)
    BY Zenon DEF OpToRel
  <2>2. QED
    BY <1>1, <2>1
<1>3. QED
  BY <1>2

(* In a chain without the type it finds nothing. *)
LEMMA NoCause ==
  ASSUME NEW err \in Seq(Causes), NEW type,
         \A i \in 1..Len(err) : err[i].type # type
  PROVE  find_cause(err, type) = None
BY DEF find_cause, SelectInSeq

(* Elsewhere it finds the first one's value. *)
LEMMA FirstCause ==
  ASSUME NEW err \in Seq(Causes), NEW type, NEW k \in 1..Len(err),
         err[k].type = type, \A i \in 1..k-1 : err[i].type # type
  PROVE  find_cause(err, type) = err[k].value
<1> DEFINE I == {i \in 1..Len(err) : err[i].type = type}
<1>1. k \in I /\ \A i \in I : k <= i
  OBVIOUS
<1>2. \A m \in I : (\A i \in I : m <= i) => m = k
  BY <1>1
<1>3. Min(I) = k
  BY <1>1, <1>2 DEF Min
<1>4. SelectInSeq(err, LAMBDA link : link.type = type) = k
  BY <1>1, <1>3 DEF SelectInSeq
<1>5. QED
  BY <1>4 DEF find_cause

(* The types around a cause hide nothing of it, and add nothing to it. *)
LEMMA WrappedCause ==
  ASSUME NEW codec \in Decoders \cup Encoders, NEW cause \in Seq(Causes)
  PROVE  /\ Wrapped(codec, cause) \in Seq(Causes) /\ Wrapped(codec, cause) # Ok
         /\ unsupported_operation(Wrapped(codec, cause)) = unsupported_operation(cause)
         /\ limit_exceeded(Wrapped(codec, cause)) = limit_exceeded(cause)
<1> DEFINE error == codec.error
           n == Len(error)
           m == Len(cause)
           outer == [i \in DOMAIN error |-> Link(error[i], None)]
           whole == outer \o cause
<1>1. /\ error \in Seq(STRING) /\ n \in Nat \ {0}
      /\ \A i \in 1..n : error[i] \notin {"UnsupportedOperation", "LimitExceeded"}
  BY DispatchAssumption DEF IsCodecError
<1>2. /\ outer \in Seq(Causes) /\ Len(outer) = n
      /\ \A i \in 1..n : outer[i] = Link(error[i], None)
  <2>1. DOMAIN error = 1..n
    BY <1>1
  <2>2. \A i \in 1..n : Link(error[i], None) \in Causes
    BY <1>1 DEF Link, Causes, LinkTypes
  <2>3. outer = [i \in 1..n |-> Link(error[i], None)]
    BY <2>1
  <2> HIDE DEF outer
  <2>4. QED
    BY <1>1, <2>2, <2>3
<1> HIDE DEF outer, error, n
<1>3. /\ whole \in Seq(Causes) /\ Len(whole) = n + m /\ m \in Nat
      /\ \A i \in 1..n : whole[i].type \notin {"UnsupportedOperation", "LimitExceeded"}
      /\ \A i \in 1..m : whole[n + i] = cause[i]
  <2>1. \A i \in 1..n : outer[i].type = error[i]
    BY <1>2 DEF Link
  <2>2. /\ whole \in Seq(Causes) /\ Len(whole) = n + m /\ m \in Nat
        /\ \A i \in 1..n : whole[i] = outer[i]
        /\ \A i \in 1..m : whole[n + i] = cause[i]
    BY <1>1, <1>2
  <2>3. QED
    BY <1>1, <2>1, <2>2
<1> HIDE DEF whole, m
<1>4. ASSUME NEW type \in {"UnsupportedOperation", "LimitExceeded"}
      PROVE  find_cause(whole, type) = find_cause(cause, type)
  <2>1. CASE \A i \in 1..m : cause[i].type # type
    <3>1. find_cause(cause, type) = None
      BY <2>1, NoCause DEF m
    <3>2. \A i \in 1..Len(whole) : whole[i].type # type
      <4>1. TAKE i \in 1..Len(whole)
      <4>2. i \in 1..n \/ (i - n \in 1..m /\ whole[i] = cause[i - n])
        BY <1>1, <1>3
      <4>3. QED
        BY <1>3, <2>1, <4>2
    <3>3. QED
      BY <1>3, <3>1, <3>2, NoCause
  <2>2. CASE \E i \in 1..m : cause[i].type = type
    <3>1. PICK k \in 1..m : cause[k].type = type /\ \A i \in 1..k-1 : cause[i].type # type
      <4> DEFINE I == {i \in 1..m : cause[i].type = type}
      <4>1. I \in SUBSET Nat /\ I # {}
        BY <1>3, <2>2
      <4>2. \A i \in I : i \in 1..m /\ cause[i].type = type
        OBVIOUS
      <4>3. \A i \in 1..m : cause[i].type = type => i \in I
        OBVIOUS
      <4> HIDE DEF I
      <4>4. PICK k \in I : \A i \in I : k <= i
        BY <4>1, LeastOf
      <4>5. QED
        BY <1>3, <4>2, <4>3, <4>4
    <3>2. find_cause(cause, type) = cause[k].value
      BY <3>1, FirstCause DEF m
    <3>3. n + k \in 1..Len(whole) /\ whole[n + k] = cause[k]
      BY <1>1, <1>3
    <3>4. \A i \in 1..(n + k)-1 : whole[i].type # type
      <4>1. TAKE i \in 1..(n + k)-1
      <4>2. n \in Nat /\ m \in Nat /\ k \in 1..m /\ i \in 1..(n + k)-1
        BY <1>1, <1>3
      <4>3. i \in 1..n \/ (i - n \in 1..k-1 /\ i - n \in 1..m /\ n + (i - n) = i)
        BY <4>2
      <4>4. i - n \in 1..m /\ n + (i - n) = i => whole[i] = cause[i - n]
        BY <1>3
      <4>5. QED
        BY <1>3, <3>1, <4>3, <4>4
    <3> DEFINE at == n + k
    <3> HIDE DEF at
    <3>5. find_cause(whole, type) = whole[at].value
      BY <1>3, <3>1, <3>3, <3>4, FirstCause DEF at
    <3>6. QED
      BY <3>2, <3>3, <3>5 DEF at
  <2>3. QED
    BY <2>1, <2>2
<1>5. Wrapped(codec, cause) = whole
  BY DEF Wrapped, whole, outer, error
<1>6. whole # <<>>
  BY <1>1, <1>3
<1>7. QED
  BY <1>3, <1>4, <1>5, <1>6 DEF unsupported_operation, limit_exceeded, Ok

(* A chain of one link. *)
LEMMA OneLink ==
  ASSUME NEW type \in LinkTypes, NEW value \in UnsupportedOperation \cup {"height", None},
         NEW sought
  PROVE  /\ <<Link(type, value)>> \in Seq(Causes)
         /\ find_cause(<<Link(type, value)>>, sought) = IF type = sought THEN value ELSE None
<1> DEFINE err == <<Link(type, value)>>
<1>1. err \in Seq(Causes) /\ Len(err) = 1 /\ err[1].type = type /\ err[1].value = value
  BY DEF Link, Causes
<1> HIDE DEF err
<1>2. type = sought => find_cause(err, sought) = value
  BY <1>1, FirstCause
<1>3. type # sought => find_cause(err, sought) = None
  <2>1. ASSUME type # sought PROVE \A i \in 1..Len(err) : err[i].type # sought
    BY <1>1, <2>1
  <2>2. QED
    BY <1>1, <2>1, NoCause
<1>4. find_cause(err, sought) = IF type = sought THEN value ELSE None
  BY <1>2, <1>3
<1>5. QED
  BY <1>1, <1>4 DEF err

(* An operation, or a limit, in a link of its own. *)
LEMMA OperationLink ==
  ASSUME NEW op \in UnsupportedOperation
  PROVE  /\ <<Link("UnsupportedOperation", op)>> \in Seq(Causes)
         /\ unsupported_operation(<<Link("UnsupportedOperation", op)>>) = op
         /\ limit_exceeded(<<Link("UnsupportedOperation", op)>>) = None
<1> DEFINE type == "UnsupportedOperation"
           other == "LimitExceeded"
<1>1. type \in LinkTypes /\ other # type
  <2>1. type \in LinkTypes
    BY DEF LinkTypes
  <2>2. other # type
    OBVIOUS
  <2>3. QED
    BY <2>1, <2>2
<1>2. op \in UnsupportedOperation \cup {"height", None}
  BY Zenon
<1> HIDE DEF type, other
<1>3. /\ <<Link(type, op)>> \in Seq(Causes)
      /\ find_cause(<<Link(type, op)>>, type) = op
      /\ find_cause(<<Link(type, op)>>, other) = None
  BY <1>1, <1>2, OneLink, Zenon
<1>4. QED
  BY <1>3 DEF type, other, unsupported_operation, limit_exceeded

(* A limit exceeded, alone, is found as what it is. *)
LEMMA LimitLink ==
  /\ <<Link("LimitExceeded", "height")>> \in Seq(Causes)
  /\ unsupported_operation(<<Link("LimitExceeded", "height")>>) = None
  /\ limit_exceeded(<<Link("LimitExceeded", "height")>>) = "height"
<1> DEFINE type == "LimitExceeded"
           other == "UnsupportedOperation"
           value == "height"
<1>1. type \in LinkTypes /\ other # type
  <2>1. type \in LinkTypes
    BY DEF LinkTypes
  <2>2. other # type
    OBVIOUS
  <2>3. QED
    BY <2>1, <2>2
<1>2. value \in UnsupportedOperation \cup {"height", None}
  BY Zenon
<1> HIDE DEF type, other, value
<1>3. /\ <<Link(type, value)>> \in Seq(Causes)
      /\ find_cause(<<Link(type, value)>>, type) = value
      /\ find_cause(<<Link(type, value)>>, other) = None
  BY <1>1, <1>2, OneLink, Zenon
<1>4. QED
  BY <1>3 DEF type, other, value, unsupported_operation, limit_exceeded

(* No error has no cause. *)
LEMMA NoError ==
  /\ Ok \in Seq(Causes)
  /\ unsupported_operation(Ok) = None /\ limit_exceeded(Ok) = None
<1>1. Ok \in Seq(Causes) /\ Len(Ok) = 0
  BY DEF Ok
<1>2. ASSUME NEW type PROVE find_cause(Ok, type) = None
  <2>1. \A i \in 1..Len(Ok) : Ok[i].type # type
    BY <1>1
  <2>2. QED
    BY <1>1, <2>1, NoCause
<1>3. QED
  BY <1>1, <1>2 DEF unsupported_operation, limit_exceeded
-----------------------------------------------------------------------------
(* What the codecs answer                                                    *)

(* A rejection names its operation, and an exceeded limit its limit. *)
LEMMA Rejected ==
  ASSUME NEW codec \in Decoders \cup Encoders, NEW op \in UnsupportedOperation
  PROVE  /\ reject(codec, op) \in Seq(Causes) /\ reject(codec, op) # Ok
         /\ unsupported_operation(reject(codec, op)) = op
         /\ limit_exceeded(reject(codec, op)) = None
<1> DEFINE cause == <<Link("UnsupportedOperation", op)>>
<1>1. /\ cause \in Seq(Causes)
      /\ unsupported_operation(cause) = op /\ limit_exceeded(cause) = None
  BY OperationLink
<1> HIDE DEF cause
<1>2. reject(codec, op) = Wrapped(codec, cause)
  BY DEF reject, cause
<1>3. QED
  BY <1>1, <1>2, WrappedCause

(* A codec that has its size checked says which limit is exceeded. *)
LEMMA Exceeded ==
  ASSUME NEW codec \in Decoders
  PROVE  /\ WithinLimits(codec) \in Seq(Causes)
         /\ WithinLimits(codec) = Ok <=> fits
         /\ ~fits => /\ unsupported_operation(WithinLimits(codec)) = None
                     /\ limit_exceeded(WithinLimits(codec)) # None
<1> DEFINE cause == <<Link("LimitExceeded", "height")>>
<1>1. /\ cause \in Seq(Causes)
      /\ unsupported_operation(cause) = None /\ limit_exceeded(cause) # None
  BY LimitLink, DispatchAssumption, Zenon
<1> HIDE DEF cause
<1>2. WithinLimits(codec) = IF fits THEN Ok ELSE Wrapped(codec, cause)
  BY DEF WithinLimits, cause
<1>3. QED
  BY <1>1, <1>2, WrappedCause, NoError

(* An error of the codec alone has neither cause. *)
LEMMA Bare ==
  ASSUME NEW codec \in Decoders \cup Encoders
  PROVE  /\ Wrapped(codec, Ok) \in Seq(Causes) /\ Wrapped(codec, Ok) # Ok
         /\ unsupported_operation(Wrapped(codec, Ok)) = None
         /\ limit_exceeded(Wrapped(codec, Ok)) = None
BY WrappedCause, NoError

(* A rejection of an operation that the codec does not support tells so. *)
LEMMA RejectionTells ==
  ASSUME DispatchTyped, NEW codec \in {decoder, encoder}, NEW op \in UnsupportedOperation,
         op \in DecodeOperations => ~decode_supports(decoder.caps, op),
         op \in EncodeOperations => ~encode_supports(encoder.caps, op)
  PROVE  reject(codec, op) \in Seq(Causes) /\ reject(codec, op) # Ok /\ Tells(reject(codec, op))
<1>1. codec \in Decoders \cup Encoders /\ op # None
  BY DispatchAssumption DEF DispatchTyped
<1>2. QED
  BY <1>1, Rejected DEF Tells

(* The answers of the decoder's job. *)
LEMMA DecoderTells ==
  ASSUME DispatchTyped,
         NEW err \in {WithinLimits(decoder), streaming_decoder(decoder),
                      animation_frame_decoder(decoder)}
  PROVE  err \in Seq(Causes) /\ Tells(err) /\ (err = Ok => fits)
<1>1. decoder \in Decoders /\ fits \in BOOLEAN
  BY DEF DispatchTyped
<1>2. /\ WithinLimits(decoder) \in Seq(Causes) /\ Tells(WithinLimits(decoder))
      /\ WithinLimits(decoder) = Ok => fits
  <2>1. CASE fits
    BY <1>1, <2>1, Exceeded DEF Tells
  <2>2. CASE ~fits
    BY <1>1, <2>2, Exceeded DEF Tells
  <2>3. QED
    BY <2>1, <2>2
<1>3. ASSUME NEW op \in {"RowLevelDecode", "AnimationDecode"}, ~decode_supports(decoder.caps, op)
      PROVE  reject(decoder, op) \in Seq(Causes) /\ reject(decoder, op) # Ok
             /\ Tells(reject(decoder, op))
  <2>1. op \in UnsupportedOperation /\ op \notin EncodeOperations
    BY DEF UnsupportedOperation, DecodeOperations, EncodeOperations
  <2>2. QED
    BY <1>3, <2>1, RejectionTells
<1>4. ASSUME "streaming" \notin decoder.caps
      PROVE  ~decode_supports(decoder.caps, "RowLevelDecode")
  BY <1>4 DEF decode_supports
<1>5. ASSUME "animation" \notin decoder.caps
      PROVE  ~decode_supports(decoder.caps, "AnimationDecode")
  BY <1>5 DEF decode_supports
<1>6. QED
  BY <1>2, <1>3, <1>4, <1>5 DEF streaming_decoder, animation_frame_decoder

(* The answers of the encoder and its job. *)
LEMMA EncoderTells ==
  ASSUME DispatchTyped,
         NEW err \in {push_rows(encoder), finish(encoder), encode_from(encoder),
                      animation_frame_encoder(encoder), push_frame(encoder)}
  PROVE  err \in Seq(Causes) /\ Tells(err)
<1>1. encoder \in Encoders
  BY DEF DispatchTyped
<1>2. ASSUME NEW op \in {"RowLevelEncode", "PullEncode", "AnimationEncode"},
             ~encode_supports(encoder.caps, op)
      PROVE  reject(encoder, op) \in Seq(Causes) /\ Tells(reject(encoder, op))
  <2>1. op \in UnsupportedOperation /\ op \notin DecodeOperations
    BY DEF UnsupportedOperation, DecodeOperations, EncodeOperations
  <2>2. QED
    BY <1>2, <2>1, RejectionTells
<1>3. Ok \in Seq(Causes) /\ Tells(Ok)
  BY NoError DEF Tells
<1>4. ASSUME "push_rows" \notin encoder.caps
      PROVE  ~encode_supports(encoder.caps, "RowLevelEncode")
  BY <1>4 DEF encode_supports
<1>5. ASSUME "encode_from" \notin encoder.caps
      PROVE  ~encode_supports(encoder.caps, "PullEncode")
  BY <1>5 DEF encode_supports
<1>6. ASSUME "animation" \notin encoder.caps
      PROVE  ~encode_supports(encoder.caps, "AnimationEncode")
  BY <1>6 DEF encode_supports
<1>7. ASSUME "animation" \notin encoder.caps
      PROVE  /\ <<Link("UnsupportedOperation", "AnimationEncode")>> \in Seq(Causes)
             /\ Tells(<<Link("UnsupportedOperation", "AnimationEncode")>>)
  <2> DEFINE op == "AnimationEncode"
             unit == <<Link("UnsupportedOperation", op)>>
  <2>1. /\ op \in UnsupportedOperation /\ op \notin DecodeOperations
        /\ ~encode_supports(encoder.caps, op)
    BY <1>6, <1>7 DEF UnsupportedOperation, DecodeOperations, EncodeOperations
  <2>2. op # None
    BY <2>1, DispatchAssumption
  <2> HIDE DEF op
  <2>3. /\ unit \in Seq(Causes) /\ unsupported_operation(unit) = op
        /\ limit_exceeded(unit) = None
    BY <2>1, OperationLink
  <2> HIDE DEF unit
  <2>4. unit \in Seq(Causes) /\ Tells(unit)
    BY <2>1, <2>2, <2>3 DEF Tells
  <2>5. QED
    BY <2>4 DEF unit, op
<1>8. QED
  BY <1>2, <1>3, <1>4, <1>5, <1>6, <1>7
     DEF push_rows, finish, encode_from, animation_frame_encoder, push_frame

(* The answers of the decoder at work. *)
LEMMA PixelsTell ==
  ASSUME DispatchTyped
  PROVE  /\ Decoded(decoder) \in Seq(Causes) /\ Tells(Decoded(decoder))
         /\ Decoded(decoder) = Ok => complete = height
         /\ next_batch.err \in Seq(Causes) /\ Tells(next_batch.err)
<1>1. /\ decoder \in Decoders /\ height \in Nat /\ complete \in 0..height
      /\ next_row \in 1..height + 1
  BY DispatchAssumption DEF DispatchTyped
<1>2. ASSUME complete < height
      PROVE  Wrapped(decoder, Ok) \in Seq(Causes) /\ Wrapped(decoder, Ok) # Ok
             /\ Tells(Wrapped(decoder, Ok))
  BY <1>1, <1>2, Bare DEF Tells
<1>3. Ok \in Seq(Causes) /\ Tells(Ok)
  BY NoError DEF Tells
<1>4. /\ Decoded(decoder) \in Seq(Causes) /\ Tells(Decoded(decoder))
      /\ Decoded(decoder) = Ok => complete = height
  BY <1>1, <1>2, <1>3 DEF Decoded
<1>5. next_batch.err \in Seq(Causes) /\ Tells(next_batch.err)
  <2>1. CASE next_row > height
    BY <1>3, <2>1 DEF next_batch
  <2>2. CASE next_row <= height /\ next_row > complete
    BY <1>1, <1>2, <2>2 DEF next_batch
  <2>3. CASE next_row <= height /\ next_row <= complete
    BY <1>1, <1>3, <2>3 DEF next_batch
  <2>4. QED
    BY <1>1, <2>1, <2>2, <2>3
<1>6. QED
  BY <1>4, <1>5

(* The answers of a decoder with the encoder behind its sink. *)
LEMMA SinkTells ==
  ASSUME DispatchTyped, way \in {"sink", "frame_sink"},
         NEW err \in {push_decoder(decoder, encoder), CopyToSink(decoder, encoder)}
  PROVE  /\ err \in Seq(Causes) /\ Tells(err)
         /\ err = Ok => complete = height
         /\ push_decoder(decoder, encoder) = Ok => fits
<1>1. decoder \in Decoders /\ encoder \in Encoders /\ decoder.sink \in {"source", "text"}
  BY DispatchAssumption DEF DispatchTyped
<1>2. ASSUME push_rows(encoder) # Ok
      PROVE  /\ wrap_sink_error(decoder, boxed(push_rows(encoder))) \in Seq(Causes)
             /\ wrap_sink_error(decoder, boxed(push_rows(encoder))) # Ok
             /\ Tells(wrap_sink_error(decoder, boxed(push_rows(encoder))))
  <2> DEFINE cause == reject(encoder, "RowLevelEncode")
  <2>1. push_rows(encoder) = cause /\ "push_rows" \notin encoder.caps
    BY <1>2 DEF push_rows
  <2>2. ~encode_supports(encoder.caps, "RowLevelEncode")
    BY <2>1 DEF encode_supports
  <2>3. cause \in Seq(Causes) /\ cause # Ok /\ Tells(cause)
    BY <2>1, EncoderTells, <1>2
  <2> HIDE DEF cause
  <2>4. CASE decoder.sink = "source"
    <3>1. wrap_sink_error(decoder, boxed(push_rows(encoder))) = Wrapped(decoder, cause)
      BY <2>1, <2>4 DEF wrap_sink_error, boxed
    <3>2. /\ Wrapped(decoder, cause) \in Seq(Causes) /\ Wrapped(decoder, cause) # Ok
          /\ unsupported_operation(Wrapped(decoder, cause)) = unsupported_operation(cause)
          /\ limit_exceeded(Wrapped(decoder, cause)) = limit_exceeded(cause)
      BY <1>1, <2>3, WrappedCause
    <3>3. Tells(Wrapped(decoder, cause))
      BY <2>3, <3>2 DEF Tells
    <3>4. QED
      BY <3>1, <3>2, <3>3
  <2>5. CASE decoder.sink = "text"
    <3>1. wrap_sink_error(decoder, boxed(push_rows(encoder))) = Wrapped(decoder, Ok)
      BY <2>5 DEF wrap_sink_error
    <3>2. Flattened
      BY <2>2, <2>5 DEF Flattened
    <3>3. QED
      BY <1>1, <3>1, <3>2, Bare DEF Tells
  <2>6. QED
    BY <1>1, <2>4, <2>5
<1>3. Ok \in Seq(Causes) /\ Tells(Ok)
  BY NoError DEF Tells
<1>4. /\ CopyToSink(decoder, encoder) \in Seq(Causes) /\ Tells(CopyToSink(decoder, encoder))
      /\ CopyToSink(decoder, encoder) = Ok => complete = height
  BY <1>2, <1>3, PixelsTell DEF CopyToSink
<1>5. QED
  BY <1>4, DecoderTells DEF push_decoder
-----------------------------------------------------------------------------
(* Rows in order                                                             *)

(* The first rows are a sequence of row numbers. *)
LEMMA FirstType ==
  ASSUME NEW h \in Nat, NEW k \in 0..h
  PROVE  RowsTo(k) \in Seq(1..h) /\ Len(RowsTo(k)) = k
BY DEF RowsTo

(* Before the first row none has been given out. *)
LEMMA FirstNone == RowsTo(0) = <<>>
<1>1. RowsTo(0) \in Seq(1..0) /\ Len(RowsTo(0)) = 0
  BY FirstType
<1>2. QED
  BY <1>1

(* One row more. *)
LEMMA FirstMore ==
  ASSUME NEW k \in Nat \ {0}
  PROVE  RowsTo(k - 1) \o <<k>> = RowsTo(k)
<1> DEFINE s == RowsTo(k - 1)
           t == s \o <<k>>
<1>1. s \in Seq(1..k) /\ Len(s) = k - 1 /\ \A i \in 1..k-1 : s[i] = i
  BY FirstType DEF RowsTo
<1> HIDE DEF s
<1>2. t \in Seq(1..k) /\ Len(t) = k /\ \A i \in 1..k : t[i] = i
  BY <1>1
<1> HIDE DEF t
<1>3. t = [i \in 1..k |-> i]
  BY <1>2
<1>4. QED
  BY <1>3 DEF s, t, RowsTo

-----------------------------------------------------------------------------
(* Every step keeps DispatchInv                                              *)

(* A step that writes no file, on the same way: it is right about the answer *)
(* if the answer is.                                                         *)
LEMMA Answered ==
  ASSUME DispatchTyped, Going, UNCHANGED <<given, plan, output>>,
         NEW err \in Seq(Causes), Tells(err), answer' = boxed(err)
  PROVE  /\ answer' \in Seq(Causes)
         /\ (output # None => answer = Ok)' /\ ErrorTellsCause' /\ OutputIsWhole'
<1>1. answer' = err /\ output' = None
  BY DEF boxed, Going
<1>2. UNCHANGED <<decoder, encoder, complete, height, fits, way>>
  BY DEF given, way
<1>3. ErrorTellsCause'
  BY <1>1, <1>2 DEF ErrorTellsCause, Tells, Flattened
<1>4. QED
  BY <1>1, <1>3 DEF OutputIsWhole

(* A caller starts with nothing in hand and an Ok. *)
LEMMA InitDispatch ==
  ASSUME Init
  PROVE  DispatchInv
<1>1. height \in Nat \ {0}
  BY DispatchAssumption DEF Init
<1>2. DispatchTyped
  BY <1>1, NoError, DispatchAssumption DEF Init, DispatchTyped
<1>3. Holding
  BY DEF Init, Holding
<1>4. ErrorTellsCause /\ OutputIsWhole
  BY DEF Init, ErrorTellsCause, OutputIsWhole
<1>5. QED
  BY <1>2, <1>3, <1>4 DEF DispatchInv, Init

(* One lemma for each step of the caller.  Either side's job: *)
LEMMA DynJobKeeps ==
  ASSUME DispatchInv, dyn_job
  PROVE  DispatchInv'
<1> USE DEF DispatchInv, dyn_job
<1>1. way' = way /\ Rows' = Rows
  BY DEF way, Rows, given
<1>2. DispatchTyped'
  BY DEF DispatchTyped, given
<1>3. Holding'
  BY <1>1 DEF Holding, Going, given
<1>4. ErrorTellsCause' /\ OutputIsWhole' /\ (output # None => answer = Ok)'
  BY DEF ErrorTellsCause, OutputIsWhole, Going, given
<1>5. QED
  BY <1>2, <1>3, <1>4

(* a decoder or an encoder is made, or refuses the way; *)
LEMMA IntoKeeps ==
  ASSUME DispatchInv, Into
  PROVE  DispatchInv'
<1> USE DEF DispatchInv
<1>1. UNCHANGED <<given, plan, output>> /\ Going
  BY DEF Into, into_decoder, into_streaming_decoder, into_animation_frame_decoder,
         into_encoder, into_animation_frame_encoder, IntoDecoding, IntoEncoding
<1>2. way' = way /\ Rows' = Rows /\ UNCHANGED <<decoder, encoder, height, complete, fits>>
  BY <1>1 DEF way, Rows, given
<1>3. Holding
  BY <1>1
<1>4. ASSUME NEW executor, NEW result, IntoDecoding(executor, result),
             \/ executor = "decoder" /\ way = "whole" /\ result = WithinLimits(decoder)
             \/ executor = "stream" /\ way \in {"rows", "pull"}
                /\ result = streaming_decoder(decoder)
             \/ executor = "frames" /\ way \in {"frames", "frame_sink"}
                /\ result = animation_frame_decoder(decoder)
      PROVE  DispatchInv'
  <2>1. result \in Seq(Causes) /\ Tells(result) /\ (result = Ok => fits)
    BY <1>4, DecoderTells
  <2>2. /\ decoding = "job" /\ decoding' = (IF result = Ok THEN executor ELSE "consumed")
        /\ answer' = boxed(result)
        /\ UNCHANGED <<encoding, next_row, pixels, taken>>
    BY <1>4 DEF IntoDecoding
  <2>3. /\ answer' \in Seq(Causes)
        /\ (output # None => answer = Ok)' /\ ErrorTellsCause' /\ OutputIsWhole'
    BY <1>1, <2>1, <2>2, Answered
  <2>4. DispatchTyped'
    BY <1>1, <1>2, <1>4, <2>2, <2>3 DEF DispatchTyped
  <2>5. ASSUME Going' PROVE Holding'
    <3>1. result = Ok
      BY <2>2, <2>5 DEF Going, boxed
    <3>2. /\ fits /\ decoding' = executor /\ next_row = 1 /\ pixels = <<>> /\ taken = <<>>
          /\ encoding # "pulling"
      BY <1>3, <2>1, <2>2, <3>1 DEF Holding
    <3>3. executor = "stream" => Streaming'
      <4>1. RowsTo(0) = <<>> /\ complete \in Nat
        BY FirstNone, DispatchAssumption DEF DispatchTyped
      <4>2. QED
        BY <1>2, <1>4, <2>2, <3>2, <4>1 DEF Streaming
    <3>4. QED
      BY <1>2, <1>3, <1>4, <2>2, <3>2, <3>3 DEF Holding
  <2>6. QED
    BY <2>3, <2>4, <2>5
<1>5. ASSUME NEW executor, NEW result, IntoEncoding(executor, result),
             \/ executor = "encoder" /\ result = Ok
             \/ executor = "frames" /\ way = "frames"
                /\ result = animation_frame_encoder(encoder)
      PROVE  DispatchInv'
  <2>1. result \in Seq(Causes) /\ Tells(result)
    BY <1>5, EncoderTells, NoError DEF Tells
  <2>2. /\ encoding = "job" /\ encoding' = (IF result = Ok THEN executor ELSE "consumed")
        /\ answer' = boxed(result)
        /\ UNCHANGED <<decoding, next_row, pixels, taken>>
    BY <1>5 DEF IntoEncoding
  <2>3. /\ answer' \in Seq(Causes)
        /\ (output # None => answer = Ok)' /\ ErrorTellsCause' /\ OutputIsWhole'
    BY <1>1, <2>1, <2>2, Answered
  <2>4. DispatchTyped'
    BY <1>1, <1>2, <1>5, <2>2, <2>3 DEF DispatchTyped
  <2>5. Streaming' = Streaming /\ UsedUp' = UsedUp
    BY <1>2, <2>2 DEF Streaming, UsedUp
  <2>6. Holding'
    BY <1>2, <1>3, <1>5, <2>2, <2>5 DEF Holding
  <2>7. QED
    BY <2>3, <2>4, <2>6
<1>6. QED
  BY <1>4, <1>5 DEF Into, into_decoder, into_streaming_decoder, into_animation_frame_decoder,
         into_encoder, into_animation_frame_encoder

(* the whole image is decoded at once; *)
LEMMA DecodeAllKeeps ==
  ASSUME DispatchInv, decode \/ render_next_frame_owned
  PROVE  DispatchInv'
<1> USE DEF DispatchInv
<1>1. PICK executor \in {"decoder", "frames"} :
        DecodeAll(executor) /\ (executor = "frames" => way = "frames")
  BY DEF decode, render_next_frame_owned
<1>2. /\ Going /\ decoding = executor /\ decoding' = "consumed"
      /\ answer' = boxed(Decoded(decoder))
      /\ pixels' = (IF Decoded(decoder) = Ok THEN Rows ELSE <<>>)
      /\ UNCHANGED <<given, plan, output>> /\ UNCHANGED <<encoding, next_row, taken>>
  BY <1>1 DEF DecodeAll
<1>3. way' = way /\ Rows' = Rows /\ UNCHANGED <<decoder, encoder, height, complete, fits>>
  BY <1>2 DEF way, Rows, given
<1>4. height \in Nat /\ Rows = RowsTo(height) /\ Rows \in Seq(1..height)
  <2>1. height \in Nat /\ height \in 0..height
    BY DispatchAssumption DEF DispatchTyped
  <2>2. QED
    BY <2>1, FirstType DEF Rows, RowsTo
<1>5. /\ Decoded(decoder) \in Seq(Causes) /\ Tells(Decoded(decoder))
      /\ Decoded(decoder) = Ok => complete = height
  BY PixelsTell
<1>6. /\ answer' \in Seq(Causes)
      /\ (output # None => answer = Ok)' /\ ErrorTellsCause' /\ OutputIsWhole'
  BY <1>2, <1>5, Answered
<1>7. DispatchTyped'
  <2>1. pixels' \in Seq(1..height)
    <3>1. <<>> \in Seq(1..height)
      OBVIOUS
    <3>2. QED
      BY <1>2, <1>4, <3>1
  <2>2. QED
    BY <1>2, <1>3, <1>6, <2>1 DEF DispatchTyped
<1>8. ASSUME Going' PROVE Holding'
  <2>1. Decoded(decoder) = Ok
    BY <1>2, <1>8 DEF Going, boxed
  <2>2. fits /\ way \in {"frames", "whole"} /\ taken = <<>> /\ encoding # "pulling"
    BY <1>1, <1>2 DEF Holding
  <2>3. UsedUp'
    BY <1>2, <1>3, <1>5, <2>1, <2>2 DEF UsedUp
  <2>4. QED
    BY <1>2, <1>3, <2>2, <2>3 DEF Holding
<1>9. QED
  BY <1>6, <1>7, <1>8

(* What next_batch answers to a streaming decoder. *)
LEMMA NextRow ==
  ASSUME DispatchTyped, Streaming
  PROVE  /\ \/ next_row <= complete /\ next_batch.row = <<next_row>> /\ next_batch.err = Ok
            \/ next_row > complete /\ next_batch.row = <<>>
         /\ next_batch.row = <<>> /\ next_batch.err = Ok => next_row = height + 1 /\ complete = height
         /\ next_row \in Nat \ {0} /\ height \in Nat \ {0} /\ complete \in 0..height
<1>1. /\ next_row \in Nat \ {0} /\ height \in Nat \ {0} /\ complete \in 0..height
      /\ next_row <= height + 1 /\ next_row - 1 <= complete /\ decoder \in Decoders
  BY DispatchAssumption DEF DispatchTyped, Streaming
<1>2. Wrapped(decoder, Ok) # Ok
  BY <1>1, Bare
<1>3. CASE next_row > height
  BY <1>1, <1>3 DEF next_batch
<1>4. CASE next_row <= height /\ next_row > complete
  BY <1>1, <1>2, <1>4 DEF next_batch
<1>5. CASE next_row <= complete
  BY <1>1, <1>5 DEF next_batch
<1>6. QED
  BY <1>1, <1>3, <1>4, <1>5

(* the next row is pulled from the decoder; *)
LEMMA NextBatchKeeps ==
  ASSUME DispatchInv, NextBatch
  PROVE  DispatchInv'
<1> USE DEF DispatchInv
<1>1. /\ Going /\ way = "rows" /\ decoding = "stream" /\ pixels = <<>>
      /\ pixels' = next_batch.row /\ answer' = boxed(next_batch.err)
      /\ next_row' = next_row + Len(next_batch.row)
      /\ decoding' = (IF next_batch.row = <<>> THEN "consumed" ELSE "stream")
      /\ UNCHANGED <<given, plan, output>> /\ UNCHANGED <<encoding, taken>>
  BY DEF NextBatch
<1>2. way' = way /\ Rows' = Rows /\ UNCHANGED <<decoder, encoder, height, complete, fits>>
  BY <1>1 DEF way, Rows, given
<1>3. Streaming /\ taken = RowsTo(next_row - 1) /\ fits /\ encoding \notin {"pulling", "frames"}
  BY <1>1 DEF Holding, Streaming
<1>4. /\ \/ next_row <= complete /\ next_batch.row = <<next_row>> /\ next_batch.err = Ok
         \/ next_row > complete /\ next_batch.row = <<>>
      /\ next_batch.row = <<>> /\ next_batch.err = Ok => next_row = height + 1 /\ complete = height
      /\ next_row \in Nat \ {0} /\ height \in Nat \ {0} /\ complete \in 0..height
  BY <1>3, NextRow
<1>5. next_batch.err \in Seq(Causes) /\ Tells(next_batch.err)
  BY PixelsTell
<1>6. /\ answer' \in Seq(Causes)
      /\ (output # None => answer = Ok)' /\ ErrorTellsCause' /\ OutputIsWhole'
  BY <1>1, <1>5, Answered
<1>7. CASE next_batch.row = <<next_row>> /\ next_row <= complete
  <2>1. next_row' = next_row + 1 /\ decoding' = "stream" /\ pixels' = <<next_row>>
    BY <1>1, <1>7
  <2>2. pixels' \in Seq(1..height) /\ next_row' \in 1..height + 1
    BY <1>4, <1>7, <2>1
  <2>3. DispatchTyped'
    BY <1>1, <1>2, <1>6, <2>1, <2>2 DEF DispatchTyped
  <2>4. Streaming'
    BY <1>1, <1>2, <1>3, <1>4, <1>7, <2>1 DEF Streaming
  <2>5. Holding'
    BY <1>1, <1>2, <1>3, <2>1, <2>4 DEF Holding
  <2>6. QED
    BY <1>6, <2>3, <2>5
<1>8. CASE next_batch.row = <<>>
  <2>1. next_row' = next_row /\ decoding' = "consumed" /\ pixels' = <<>>
    BY <1>1, <1>4, <1>8
  <2>2. DispatchTyped'
    BY <1>1, <1>2, <1>6, <2>1 DEF DispatchTyped
  <2>3. ASSUME Going' PROVE Holding'
    <3>1. next_row = height + 1 /\ complete = height
      BY <1>1, <1>4, <1>8, <2>3 DEF Going, boxed
    <3>2. taken = Rows
      BY <1>3, <1>4, <3>1 DEF RowsTo, Rows
    <3>3. UsedUp'
      BY <1>1, <1>2, <2>1, <3>1, <3>2 DEF UsedUp
    <3>4. QED
      BY <1>1, <1>2, <1>3, <2>1, <3>3 DEF Holding
  <2>4. QED
    BY <1>6, <2>2, <2>3
<1>9. QED
  BY <1>4, <1>7, <1>8

(* it is pushed into the encoder; *)
LEMMA PushRowsKeeps ==
  ASSUME DispatchInv, PushRows
  PROVE  DispatchInv'
<1> USE DEF DispatchInv
<1>1. /\ Going /\ way = "rows" /\ encoding = "encoder" /\ pixels # <<>> /\ pixels' = <<>>
      /\ answer' = boxed(push_rows(encoder))
      /\ taken' = (IF push_rows(encoder) = Ok THEN taken \o pixels ELSE taken)
      /\ UNCHANGED <<given, plan, output>> /\ UNCHANGED <<decoding, encoding, next_row>>
  BY DEF PushRows
<1>2. way' = way /\ Rows' = Rows /\ UNCHANGED <<decoder, encoder, height, complete, fits>>
  BY <1>1 DEF way, Rows, given
<1>3. push_rows(encoder) \in Seq(Causes) /\ Tells(push_rows(encoder))
  BY EncoderTells
<1>4. /\ answer' \in Seq(Causes)
      /\ (output # None => answer = Ok)' /\ ErrorTellsCause' /\ OutputIsWhole'
  BY <1>1, <1>3, Answered
<1>5. DispatchTyped'
  <2>1. taken \in Seq(1..height) /\ pixels \in Seq(1..height)
    BY DEF DispatchTyped
  <2>2. taken \o pixels \in Seq(1..height) /\ <<>> \in Seq(1..height)
    BY <2>1
  <2>3. QED
    BY <1>1, <1>2, <1>4, <2>1, <2>2 DEF DispatchTyped
<1>6. ASSUME Going' PROVE Holding'
  <2>1. taken' = taken \o pixels
    BY <1>1, <1>6 DEF Going, boxed
  <2>2. /\ decoding = "stream" /\ fits /\ next_row \in Nat /\ next_row > 1
        /\ next_row - 1 <= complete
        /\ pixels = <<next_row - 1>> /\ taken = RowsTo(next_row - 2)
    <3>1. decoding = "stream"
      BY <1>1 DEF Holding, UsedUp, DispatchTyped
    <3>2. QED
      BY <1>1, <3>1, DispatchAssumption DEF Holding, Streaming, DispatchTyped
  <2>3. taken' = RowsTo(next_row - 1)
    <3> DEFINE k == next_row - 1
    <3>1. k \in Nat \ {0} /\ pixels = <<k>> /\ taken = RowsTo(k - 1)
      BY <2>2
    <3> HIDE DEF k
    <3>2. QED
      BY <2>1, <3>1, FirstMore DEF k
  <2>4. Streaming'
    BY <1>1, <1>2, <2>2, <2>3 DEF Streaming
  <2>5. QED
    BY <1>1, <1>2, <2>2, <2>4 DEF Holding
<1>7. QED
  BY <1>4, <1>5, <1>6

(* the decoder pushes all of them into the caller's encoder; *)
LEMMA IntoSinkKeeps ==
  ASSUME DispatchInv, PushDecode \/ render_next_frame_to_sink
  PROVE  DispatchInv'
<1> USE DEF DispatchInv
<1>1. PICK executor, result :
        /\ \/ executor = "job" /\ way = "sink" /\ result = push_decoder(decoder, encoder)
           \/ executor = "frames" /\ way = "frame_sink" /\ result = CopyToSink(decoder, encoder)
        /\ IntoSink(executor, result)
  BY DEF PushDecode, render_next_frame_to_sink
<1>2. /\ Going /\ decoding = executor /\ encoding = "encoder" /\ decoding' = "consumed"
      /\ answer' = boxed(result)
      /\ taken' = (IF result = Ok THEN Rows ELSE taken)
      /\ UNCHANGED <<given, plan, output>> /\ UNCHANGED <<encoding, next_row, pixels>>
  BY <1>1 DEF IntoSink
<1>3. way' = way /\ Rows' = Rows /\ UNCHANGED <<decoder, encoder, height, complete, fits>>
  BY <1>2 DEF way, Rows, given
<1>4. Rows \in Seq(1..height)
  <2>1. height \in Nat /\ height \in 0..height
    BY DispatchAssumption DEF DispatchTyped
  <2>2. QED
    BY <2>1, FirstType DEF Rows, RowsTo
<1>5. way \in {"sink", "frame_sink"} /\ Holding /\ fits \in BOOLEAN
  BY <1>1, <1>2 DEF DispatchTyped
<1>6. /\ result \in Seq(Causes) /\ Tells(result)
      /\ result = Ok => complete = height /\ fits
  BY <1>1, <1>2, <1>5, SinkTells DEF Holding
<1>7. /\ answer' \in Seq(Causes)
      /\ (output # None => answer = Ok)' /\ ErrorTellsCause' /\ OutputIsWhole'
  BY <1>2, <1>6, Answered
<1>8. DispatchTyped'
  BY <1>2, <1>3, <1>4, <1>7 DEF DispatchTyped
<1>9. ASSUME Going' PROVE Holding'
  <2>1. result = Ok
    BY <1>2, <1>9 DEF Going, boxed
  <2>2. pixels = <<>>
    BY <1>1, <1>2, <1>5 DEF Holding
  <2>3. UsedUp'
    BY <1>2, <1>3, <1>5, <1>6, <2>1, <2>2 DEF UsedUp
  <2>4. QED
    BY <1>2, <1>3, <1>5, <1>6, <2>1, <2>3 DEF Holding
<1>10. QED
  BY <1>7, <1>8, <1>9

(* Who writes the whole image, or answers, keeps it. *)
LEMMA WriteKeeps ==
  ASSUME DispatchInv, Going, NEW rows, NEW result \in Seq(Causes), Write(rows, result),
         Tells(result), result = Ok => fits /\ complete = height /\ rows = Rows
  PROVE  DispatchInv'
<1> USE DEF DispatchInv
<1>1. /\ answer' = result /\ output' = (IF result = Ok THEN rows ELSE None)
      /\ encoding' = "consumed"
      /\ UNCHANGED <<given, plan>> /\ UNCHANGED <<decoding, next_row, pixels, taken>>
  BY DEF Write, boxed
<1>2. way' = way /\ Rows' = Rows /\ UNCHANGED <<decoder, encoder, height, complete, fits>>
  BY <1>1 DEF way, Rows, given
<1>3. DispatchTyped'
  BY <1>1, <1>2 DEF DispatchTyped
<1>4. Holding'
  <2>1. Streaming' = Streaming /\ UsedUp' = UsedUp
    BY <1>1, <1>2 DEF Streaming, UsedUp
  <2>2. QED
    BY <1>1, <1>2, <2>1 DEF Holding
<1>5. ErrorTellsCause'
  BY <1>1, <1>2 DEF ErrorTellsCause, Tells, Flattened
<1>6. OutputIsWhole' /\ (output # None => answer = Ok)'
  BY <1>1, <1>2 DEF OutputIsWhole
<1>7. QED
  BY <1>3, <1>4, <1>5, <1>6

(* Pixels in the caller's hands, of a way that decodes all at once, are the  *)
(* whole image; without them the encoder has it, once the decoder is used up. *)
LEMMA WholeInHands ==
  ASSUME DispatchTyped, Holding, Going, way # "rows"
  PROVE  /\ pixels # <<>> => decoding = "consumed" /\ pixels = Rows /\ taken = <<>>
         /\ decoding = "consumed" => fits /\ complete = height
         /\ decoding = "consumed" /\ pixels = <<>> => taken = Rows
<1>1. pixels # <<>> => decoding \in {"stream", "consumed"}
  BY DEF DispatchTyped, Holding
<1>2. Rows # <<>>
  <2>1. height \in Nat \ {0} /\ height \in 0..height
    BY DispatchAssumption DEF DispatchTyped
  <2>2. Len(Rows) = height /\ Rows \in Seq(1..height)
    BY <2>1, FirstType DEF Rows, RowsTo
  <2>3. QED
    BY <2>1, <2>2
<1>3. decoding # "stream" \/ pixels = <<>>
  BY DEF Holding, Streaming
<1>4. QED
  BY <1>1, <1>2, <1>3 DEF Holding, UsedUp

(* the encoder finishes what was pushed; *)
LEMMA FinishKeeps ==
  ASSUME DispatchInv, Finish
  PROVE  DispatchInv'
<1>1. /\ Going /\ way \in {"rows", "sink", "frame_sink"} /\ decoding = "consumed"
      /\ pixels = <<>> /\ Write(taken, finish(encoder))
  BY DEF Finish
<1>2. fits /\ complete = height /\ taken = Rows
  BY <1>1 DEF DispatchInv, Holding, UsedUp
<1>3. finish(encoder) \in Seq(Causes) /\ Tells(finish(encoder))
  BY EncoderTells DEF DispatchInv
<1>4. QED
  BY <1>1, <1>2, <1>3, WriteKeeps

(* it encodes the whole image at once; *)
LEMMA EncodeKeeps ==
  ASSUME DispatchInv, Encode
  PROVE  DispatchInv'
<1>1. Going /\ way = "whole" /\ pixels # <<>> /\ Write(pixels, Ok)
  BY DEF Encode
<1>2. fits /\ complete = height /\ pixels = Rows
  BY <1>1, WholeInHands DEF DispatchInv
<1>3. Ok \in Seq(Causes) /\ Tells(Ok)
  BY NoError DEF Tells
<1>4. QED
  BY <1>1, <1>2, <1>3, WriteKeeps

(* the animation encoder finishes; *)
LEMMA FinishFramesKeeps ==
  ASSUME DispatchInv, FinishFrames
  PROVE  DispatchInv'
<1>1. /\ Going /\ encoding = "frames" /\ decoding = "consumed" /\ pixels = <<>>
      /\ Write(taken, push_frame(encoder))
  BY DEF FinishFrames
<1>2. way # "rows" /\ DispatchTyped /\ Holding
  BY <1>1 DEF DispatchInv, Holding
<1>3. fits /\ complete = height /\ taken = Rows
  BY <1>1, <1>2, WholeInHands
<1>4. push_frame(encoder) \in Seq(Causes) /\ Tells(push_frame(encoder))
  BY <1>2, EncoderTells
<1>5. QED
  BY <1>1, <1>3, <1>4, WriteKeeps

(* it is given its one frame; *)
LEMMA PushFrameKeeps ==
  ASSUME DispatchInv, PushFrame
  PROVE  DispatchInv'
<1> USE DEF DispatchInv
<1>1. /\ Going /\ encoding = "frames" /\ pixels # <<>> /\ pixels' = <<>>
      /\ answer' = boxed(push_frame(encoder))
      /\ taken' = (IF push_frame(encoder) = Ok THEN pixels ELSE taken)
      /\ UNCHANGED <<given, plan, output>> /\ UNCHANGED <<decoding, encoding, next_row>>
  BY DEF PushFrame
<1>2. way' = way /\ Rows' = Rows /\ UNCHANGED <<decoder, encoder, height, complete, fits>>
  BY <1>1 DEF way, Rows, given
<1>3. Holding /\ way = "frames"
  BY <1>1 DEF Holding
<1>4. push_frame(encoder) \in Seq(Causes) /\ Tells(push_frame(encoder))
  BY EncoderTells
<1>5. /\ answer' \in Seq(Causes)
      /\ (output # None => answer = Ok)' /\ ErrorTellsCause' /\ OutputIsWhole'
  BY <1>1, <1>4, Answered
<1>6. DispatchTyped'
  <2>1. taken' \in Seq(1..height) /\ pixels' \in Seq(1..height)
    BY <1>1 DEF DispatchTyped
  <2>2. QED
    BY <1>1, <1>2, <1>5, <2>1 DEF DispatchTyped
<1>7. ASSUME Going' PROVE Holding'
  <2>1. decoding = "consumed" /\ fits /\ complete = height /\ pixels = Rows
    BY <1>1, <1>3, WholeInHands
  <2>2. taken' = Rows
    BY <1>1, <1>7, <2>1 DEF Going, boxed
  <2>3. UsedUp'
    BY <1>1, <1>2, <1>3, <2>1, <2>2 DEF UsedUp
  <2>4. QED
    BY <1>1, <1>2, <1>3, <2>1, <2>3 DEF Holding
<1>8. QED
  BY <1>5, <1>6, <1>7

(* the encoder starts to pull rows; *)
LEMMA EncodeFromKeeps ==
  ASSUME DispatchInv, EncodeFrom
  PROVE  DispatchInv'
<1> USE DEF DispatchInv
<1>1. /\ Going /\ way = "pull" /\ encoding = "encoder" /\ decoding = "stream"
      /\ answer' = boxed(encode_from(encoder))
      /\ encoding' = (IF encode_from(encoder) = Ok THEN "pulling" ELSE "consumed")
      /\ taken' = <<>>
      /\ UNCHANGED <<given, plan, output>> /\ UNCHANGED <<decoding, next_row, pixels>>
  BY DEF EncodeFrom
<1>2. way' = way /\ Rows' = Rows /\ UNCHANGED <<decoder, encoder, height, complete, fits>>
  BY <1>1 DEF way, Rows, given
<1>3. encode_from(encoder) \in Seq(Causes) /\ Tells(encode_from(encoder))
  BY EncoderTells
<1>4. /\ answer' \in Seq(Causes)
      /\ (output # None => answer = Ok)' /\ ErrorTellsCause' /\ OutputIsWhole'
  BY <1>1, <1>3, Answered
<1>5. DispatchTyped'
  BY <1>1, <1>2, <1>4 DEF DispatchTyped
<1>6. Streaming /\ pixels = <<>> /\ next_row = 1 /\ fits
  BY <1>1 DEF Holding, Streaming
<1>7. Streaming'
  BY <1>1, <1>2, <1>6, FirstNone DEF Streaming
<1>8. Holding'
  BY <1>1, <1>2, <1>6, <1>7 DEF Holding
<1>9. QED
  BY <1>4, <1>5, <1>8

(* it pulls the next one from the caller's decoder; *)
LEMMA PullKeeps ==
  ASSUME DispatchInv, Pull
  PROVE  DispatchInv'
<1> USE DEF DispatchInv
<1>1. /\ Going /\ encoding = "pulling" /\ way = "pull" /\ decoding = "stream" /\ fits
      /\ Streaming /\ pixels = <<>> /\ taken = RowsTo(next_row - 1)
  BY DEF Pull, Holding, Streaming
<1>2. /\ \/ next_row <= complete /\ next_batch.row = <<next_row>> /\ next_batch.err = Ok
         \/ next_row > complete /\ next_batch.row = <<>>
      /\ next_batch.row = <<>> /\ next_batch.err = Ok => next_row = height + 1 /\ complete = height
      /\ next_row \in Nat \ {0} /\ height \in Nat \ {0} /\ complete \in 0..height
  BY <1>1, NextRow
<1>3. CASE next_batch.row = <<next_row>> /\ next_row <= complete
  <2>1. /\ taken' = taken \o <<next_row>> /\ next_row' = next_row + 1
        /\ UNCHANGED <<given, plan, decoding, encoding, pixels, answer, output>>
    BY <1>3 DEF Pull
  <2>2. way' = way /\ Rows' = Rows /\ UNCHANGED <<decoder, encoder, height, complete, fits>>
    BY <2>1 DEF way, Rows, given
  <2>3. taken' = RowsTo(next_row)
    BY <1>1, <1>2, <2>1, FirstMore
  <2>4. next_row \in 0..height /\ next_row' - 1 = next_row /\ next_row' \in 1..height + 1
    BY <1>2, <1>3, <2>1
  <2>5. taken' \in Seq(1..height)
    BY <1>2, <2>3, <2>4, FirstType
  <2>6. DispatchTyped'
    BY <2>1, <2>2, <2>4, <2>5 DEF DispatchTyped
  <2>7. Streaming'
    BY <1>1, <1>3, <2>1, <2>2, <2>3, <2>4 DEF Streaming
  <2>8. Holding'
    BY <1>1, <2>1, <2>2, <2>7 DEF Holding
  <2>9. ErrorTellsCause' /\ OutputIsWhole' /\ (output # None => answer = Ok)'
    BY <1>1, <2>1 DEF ErrorTellsCause, OutputIsWhole, Going
  <2>10. QED
    BY <2>6, <2>8, <2>9
<1>4. CASE next_batch.row = <<>>
  <2>1. Write(taken, next_batch.err)
    BY <1>4 DEF Pull
  <2>2. next_batch.err = Ok => complete = height /\ taken = Rows
    BY <1>1, <1>2, <1>4 DEF RowsTo, Rows
  <2>3. next_batch.err \in Seq(Causes) /\ Tells(next_batch.err)
    BY PixelsTell
  <2>4. QED
    BY <1>1, <2>1, <2>2, <2>3, WriteKeeps
<1>5. QED
  BY <1>2, <1>3, <1>4

(* The next way begins as the first one did, but for an encoder that stayed. *)
LEMMA NextWayKeeps ==
  ASSUME DispatchInv, NextWay, Len(plan) > 1, output = None
  PROVE  DispatchInv'
<1> USE DEF DispatchInv
<1>1. /\ plan' = Tail(plan) /\ decoding' = "config" /\ encoding' \in {"config", "encoder"}
      /\ next_row' = 1 /\ pixels' = <<>> /\ taken' = <<>> /\ answer' = Ok
      /\ UNCHANGED output
      /\ UNCHANGED <<decoder, encoder, height, complete, fits>>
  BY DEF NextWay, given
<1>2. plan' \in Seq(Ways) /\ plan' # <<>> /\ Last(plan)' = "whole"
  <2>1. plan \in Seq(Ways) /\ plan[Len(plan)] = "whole"
    BY DEF DispatchTyped, Last
  <2>2. /\ plan' \in Seq(Ways) /\ Len(plan') = Len(plan) - 1 /\ plan' # <<>>
        /\ plan'[Len(plan')] = plan[Len(plan)]
    BY <1>1, <2>1
  <2>3. QED
    BY <2>1, <2>2 DEF Last
<1>3. DispatchTyped'
  <2>1. height \in Nat \ {0}
    BY DispatchAssumption DEF DispatchTyped
  <2>2. QED
    BY <1>1, <1>2, <2>1, NoError DEF DispatchTyped
<1>4. Holding'
  BY <1>1 DEF Holding
<1>5. ErrorTellsCause' /\ OutputIsWhole' /\ (output # None => answer = Ok)'
  BY <1>1 DEF ErrorTellsCause, OutputIsWhole
<1>6. QED
  BY <1>3, <1>4, <1>5

(* the caller goes on to the next way of its plan; *)
LEMMA FallBackKeeps ==
  ASSUME DispatchInv, FallBack
  PROVE  DispatchInv'
<1>1. unsupported_operation(answer) # None /\ Len(plan) > 1 /\ NextWay
  BY DEF FallBack
<1>2. output = None
  BY <1>1, NoError DEF DispatchInv
<1>3. QED
  BY <1>1, <1>2, NextWayKeeps

(* or passes over a way the codec says it cannot go. *)
LEMMA SkipKeeps ==
  ASSUME DispatchInv, Skip
  PROVE  DispatchInv'
<1>1. way # "whole" /\ output = None /\ NextWay
  BY DEF Skip, Going, Needs
<1>2. Len(plan) > 1
  <2>1. plan \in Seq(Ways) /\ plan # <<>> /\ plan[Len(plan)] = "whole"
    BY DEF DispatchInv, DispatchTyped, Last
  <2>2. plan[1] # "whole"
    BY <1>1, <2>1 DEF way
  <2>3. QED
    BY <2>1, <2>2
<1>3. QED
  BY <1>1, <1>2, NextWayKeeps

(* The inductive invariant of a caller that goes from way to way. *)
LEMMA DispatchInductive ==
  Spec => []DispatchInv
<1>1. Init => DispatchInv
  BY InitDispatch
<1>2. DispatchInv /\ [Next]_vars => DispatchInv'
  <2> SUFFICES ASSUME DispatchInv, [Next]_vars PROVE DispatchInv'
    OBVIOUS
  <2>1. CASE Next
    BY <2>1, DynJobKeeps, IntoKeeps, DecodeAllKeeps, NextBatchKeeps, PushRowsKeeps,
       IntoSinkKeeps, FinishKeeps, EncodeKeeps, EncodeFromKeeps, PullKeeps, PushFrameKeeps,
       FinishFramesKeeps, FallBackKeeps, SkipKeeps DEF Next
  <2>2. CASE UNCHANGED vars
    <3>1. way' = way /\ Rows' = Rows
      BY <2>2 DEF vars, way, Rows, given
    <3>2. DispatchTyped'
      BY <2>2 DEF DispatchInv, DispatchTyped, vars, given
    <3>3. Holding' = Holding
      BY <2>2, <3>1 DEF Holding, Streaming, UsedUp, vars, given
    <3>4. ErrorTellsCause' = ErrorTellsCause /\ OutputIsWhole' = OutputIsWhole
      BY <2>2, <3>1 DEF ErrorTellsCause, Flattened, OutputIsWhole, vars, given
    <3>5. Going' = Going /\ (output # None => answer = Ok)' = (output # None => answer = Ok)
      BY <2>2 DEF vars, Going
    <3>6. QED
      BY <3>2, <3>3, <3>4, <3>5 DEF DispatchInv
  <2>3. QED
    BY <2>1, <2>2
<1>3. QED
  BY <1>1, <1>2, PTL DEF Spec

(* Type correctness (the executors under src/src/traits). *)
THEOREM DispatchTypeCorrect == Spec => []TypeOK
<1>1. DispatchInv => TypeOK
  BY DEF DispatchInv, DispatchTyped, TypeOK
<1>2. QED
  BY <1>1, DispatchInductive, PTL

(* Whatever error types two codecs wrap around a cause, and on whatever way   *)
(* through the object-safe traits it comes about, the caller finds in the     *)
(* boxed error what really happened (error.rs, CodecErrorExt).                *)
THEOREM CausesAreTold == Spec => []ErrorTellsCause
<1>1. DispatchInv => ErrorTellsCause
  BY DEF DispatchInv
<1>2. QED
  BY <1>1, DispatchInductive, PTL

(* However many ways of a plan failed before, a file is written only of a     *)
(* whole image within the limits, each row once and in order.                 *)
THEOREM OutputsAreWhole == Spec => []OutputIsWhole
<1>1. DispatchInv => OutputIsWhole
  BY DEF DispatchInv
<1>2. QED
  BY <1>1, DispatchInductive, PTL

-----------------------------------------------------------------------------
(* FormatDetection                                                           *)

(* The common definitions by place, *)
LEMMA AllInOrder ==
  /\ Len(ALL) = 21 /\ DOMAIN ALL = 1..21
  /\ ALL[1] = JPEG /\ ALL[2] = PNG /\ ALL[3] = GIF /\ ALL[4] = WEBP /\ ALL[5] = AVIF
  /\ ALL[6] = JXL /\ ALL[7] = HEIC /\ ALL[8] = BMP /\ ALL[9] = FARBFELD /\ ALL[10] = PNM
  /\ ALL[11] = DNG /\ ALL[12] = RAW /\ ALL[13] = TIFF /\ ALL[14] = ICO /\ ALL[15] = QOI
  /\ ALL[16] = PDF /\ ALL[17] = EXR /\ ALL[18] = HDR /\ ALL[19] = JP2 /\ ALL[20] = TGA
  /\ ALL[21] = SVG
BY DEF ALL

(* and their names. *)
LEMMA AllNames ==
  /\ JPEG.name = "jpeg" /\ PNG.name = "png" /\ GIF.name = "gif" /\ WEBP.name = "webp"
  /\ AVIF.name = "avif" /\ JXL.name = "jxl" /\ HEIC.name = "heic" /\ BMP.name = "bmp"
  /\ FARBFELD.name = "farbfeld" /\ PNM.name = "pnm" /\ DNG.name = "dng" /\ RAW.name = "raw"
  /\ TIFF.name = "tiff" /\ ICO.name = "ico" /\ QOI.name = "qoi" /\ PDF.name = "pdf"
  /\ EXR.name = "exr" /\ HDR.name = "hdr" /\ JP2.name = "jp2" /\ TGA.name = "tga"
  /\ SVG.name = "svg"
BY DEF JPEG, PNG, GIF, WEBP, AVIF, JXL, HEIC, BMP, FARBFELD, PNM, DNG, RAW, TIFF, ICO, QOI, PDF,
       EXR, HDR, JP2, TGA, SVG, Definition, DefinitionOf

(* Any place is one of the twenty-one. *)
LEMMA Between ==
  ASSUME NEW i \in 1..21
  PROVE  \/ i = 1 \/ i = 2 \/ i = 3 \/ i = 4 \/ i = 5 \/ i = 6 \/ i = 7
         \/ i = 8 \/ i = 9 \/ i = 10 \/ i = 11 \/ i = 12 \/ i = 13 \/ i = 14
         \/ i = 15 \/ i = 16 \/ i = 17 \/ i = 18 \/ i = 19 \/ i = 20 \/ i = 21
OBVIOUS

(* No two common definitions have one name. *)
LEMMA NamesApart ==
  ASSUME NEW i \in 1..21, NEW k \in 1..21, ALL[i].name = ALL[k].name
  PROVE  i = k
BY AllInOrder, AllNames, Between

(* What files of each start with, within their first twelve bytes. *)
LEMMA MagicOf ==
  /\ \A m \in JPEG.magic : m[1] = "FFD8FF" /\ m[2] \in 1..12
  /\ \A m \in PNG.magic : m[1] = "89PNG" /\ m[2] \in 1..12
  /\ \A m \in GIF.magic : m[1] \in {"GIF87a", "GIF89a"} /\ m[2] \in 1..12
  /\ \A m \in WEBP.magic : m[1] = "RIFF-WEBP" /\ m[2] \in 1..12
  /\ AVIF.magic = {}
  /\ \A m \in JXL.magic : m[1] \in {"FF0A", "JXL-container"} /\ m[2] \in 1..12
  /\ HEIC.magic = {}
  /\ \A m \in BMP.magic : m[1] = "BM" /\ m[2] \in 1..12
  /\ \A m \in FARBFELD.magic : m[1] = "farbfeld" /\ m[2] \in 1..12
  /\ \A m \in PNM.magic : m[1] \in {"P1", "P2", "P3", "P4", "P5", "P6", "P7", "PF", "Pf"} /\ m[2] \in 1..12
  /\ DNG.magic = {}
  /\ \A m \in RAW.magic : m[1] \in {"IIRO", "FUJIFILM", "IIU0"} /\ m[2] \in 1..12
  /\ TIFF.magic = {}
  /\ \A m \in ICO.magic : m[1] = "00000100" /\ m[2] \in 1..12
  /\ \A m \in QOI.magic : m[1] = "qoif" /\ m[2] \in 1..12
  /\ \A m \in PDF.magic : m[1] = "%PDF-" /\ m[2] \in 1..12
  /\ \A m \in EXR.magic : m[1] = "762F3101" /\ m[2] \in 1..12
  /\ \A m \in HDR.magic : m[1] \in {"#?RADIANCE", "#?RGBE"} /\ m[2] \in 1..12
  /\ \A m \in JP2.magic : m[1] \in {"JP2-container", "FF4FFF51"} /\ m[2] \in 1..12
  /\ TGA.magic = {}
  /\ SVG.magic = {}
<1>1. \A m \in JPEG.magic : m[1] = "FFD8FF" /\ m[2] \in 1..12
  BY DEF JPEG, Definition, DefinitionOf
<1>2. \A m \in PNG.magic : m[1] = "89PNG" /\ m[2] \in 1..12
  BY DEF PNG, Definition, DefinitionOf
<1>3. \A m \in GIF.magic : m[1] \in {"GIF87a", "GIF89a"} /\ m[2] \in 1..12
  BY DEF GIF, Definition, DefinitionOf
<1>4. \A m \in WEBP.magic : m[1] = "RIFF-WEBP" /\ m[2] \in 1..12
  BY DEF WEBP, Definition, DefinitionOf
<1>5. AVIF.magic = {}
  BY DEF AVIF, Definition, DefinitionOf
<1>6. \A m \in JXL.magic : m[1] \in {"FF0A", "JXL-container"} /\ m[2] \in 1..12
  BY DEF JXL, Definition, DefinitionOf
<1>7. HEIC.magic = {}
  BY DEF HEIC, Definition, DefinitionOf
<1>8. \A m \in BMP.magic : m[1] = "BM" /\ m[2] \in 1..12
  BY DEF BMP, Definition, DefinitionOf
<1>9. \A m \in FARBFELD.magic : m[1] = "farbfeld" /\ m[2] \in 1..12
  BY DEF FARBFELD, Definition, DefinitionOf
<1>10. \A m \in PNM.magic : m[1] \in {"P1", "P2", "P3", "P4", "P5", "P6", "P7", "PF", "Pf"} /\ m[2] \in 1..12
  BY DEF PNM, Definition, DefinitionOf
<1>11. DNG.magic = {}
  BY DEF DNG, Definition, DefinitionOf
<1>12. \A m \in RAW.magic : m[1] \in {"IIRO", "FUJIFILM", "IIU0"} /\ m[2] \in 1..12
  BY DEF RAW, Definition, DefinitionOf
<1>13. TIFF.magic = {}
  BY DEF TIFF, Definition, DefinitionOf
<1>14. \A m \in ICO.magic : m[1] = "00000100" /\ m[2] \in 1..12
  BY DEF ICO, Definition, DefinitionOf
<1>15. \A m \in QOI.magic : m[1] = "qoif" /\ m[2] \in 1..12
  BY DEF QOI, Definition, DefinitionOf
<1>16. \A m \in PDF.magic : m[1] = "%PDF-" /\ m[2] \in 1..12
  BY DEF PDF, Definition, DefinitionOf
<1>17. \A m \in EXR.magic : m[1] = "762F3101" /\ m[2] \in 1..12
  BY DEF EXR, Definition, DefinitionOf
<1>18. \A m \in HDR.magic : m[1] \in {"#?RADIANCE", "#?RGBE"} /\ m[2] \in 1..12
  BY DEF HDR, Definition, DefinitionOf
<1>19. \A m \in JP2.magic : m[1] \in {"JP2-container", "FF4FFF51"} /\ m[2] \in 1..12
  BY DEF JP2, Definition, DefinitionOf
<1>20. TGA.magic = {}
  BY DEF TGA, Definition, DefinitionOf
<1>21. SVG.magic = {}
  BY DEF SVG, Definition, DefinitionOf
<1>22. QED
  BY <1>1, <1>2, <1>3, <1>4, <1>5, <1>6, <1>7, <1>8, <1>9, <1>10, <1>11, <1>12, <1>13, <1>14, <1>15, <1>16, <1>17, <1>18, <1>19, <1>20, <1>21

(* No two of them start alike; *)
LEMMA StartsApart ==
  ASSUME NEW i \in 1..21, NEW k \in 1..21, NEW m \in ALL[i].magic, NEW l \in ALL[k].magic,
         m[1] = l[1]
  PROVE  i = k
BY AllInOrder, MagicOf, Between

(* TGA and SVG, the last two, start like nothing. *)
LEMMA StartsSeen ==
  ASSUME NEW i \in 1..21, NEW m \in ALL[i].magic
  PROVE  m[2] \in 1..12 /\ i < 20
BY AllInOrder, MagicOf, Between

(* The extensions and MIME types of each. *)
LEMMA LabelsOf ==
  /\ NamesOf(JPEG) = {"jpg", "jpeg", "jpe", "jfif", "image/jpeg"}
  /\ NamesOf(PNG) = {"png", "image/png"}
  /\ NamesOf(GIF) = {"gif", "image/gif"}
  /\ NamesOf(WEBP) = {"webp", "image/webp"}
  /\ NamesOf(AVIF) = {"avif", "image/avif"}
  /\ NamesOf(JXL) = {"jxl", "image/jxl"}
  /\ NamesOf(HEIC) = {"heif", "heic", "hif", "image/heif", "image/heic"}
  /\ NamesOf(BMP) = {"bmp", "image/bmp", "image/x-bmp"}
  /\ NamesOf(FARBFELD) = {"ff", "image/x-farbfeld"}
  /\ NamesOf(PNM) = {"pnm", "ppm", "pgm", "pbm", "pam", "pfm", "image/x-portable-anymap",
                     "image/x-portable-pixmap", "image/x-portable-graymap",
                     "image/x-portable-bitmap"}
  /\ NamesOf(DNG) = {"dng", "image/x-adobe-dng", "image/x-dng"}
  /\ NamesOf(RAW) = {"raw", "cr2", "cr3", "nef", "nrw", "arw", "srf", "sr2", "rw2", "pef",
                     "orf", "erf", "raf", "3fr", "iiq", "dcr", "kdc", "mrw", "rwl", "srw",
                     "image/x-raw", "image/x-dcraw"}
  /\ NamesOf(TIFF) = {"tiff", "tif", "image/tiff"}
  /\ NamesOf(ICO) = {"ico", "cur", "image/x-icon", "image/vnd.microsoft.icon"}
  /\ NamesOf(QOI) = {"qoi", "image/x-qoi"}
  /\ NamesOf(PDF) = {"pdf", "application/pdf"}
  /\ NamesOf(EXR) = {"exr", "image/x-exr"}
  /\ NamesOf(HDR) = {"hdr", "rgbe", "pic", "image/vnd.radiance", "image/x-hdr"}
  /\ NamesOf(JP2) = {"jp2", "j2k", "j2c", "jpf", "jpx", "image/jp2", "image/jpx", "image/x-jp2"}
  /\ NamesOf(TGA) = {"tga", "targa", "icb", "vda", "vst", "image/x-tga", "image/x-targa"}
  /\ NamesOf(SVG) = {"svg", "svgz", "image/svg+xml"}
BY DEF NamesOf, JPEG, PNG, GIF, WEBP, AVIF, JXL, HEIC, BMP, FARBFELD, PNM, DNG, RAW, TIFF, ICO, QOI,
       PDF, EXR, HDR, JP2, TGA, SVG, Definition, DefinitionOf

(* No name belongs to two of them. *)
LEMMA LabelsApart ==
  ASSUME NEW i \in 1..21, NEW k \in 1..21, NEW x \in NamesOf(ALL[i]), x \in NamesOf(ALL[k])
  PROVE  i = k
BY AllInOrder, LabelsOf, Between

(* A built-in definition stands for the format of its name. *)
LEMMA AllFormats ==
  ASSUME NEW i \in 1..21
  PROVE  ALL[i].image_format = ALL[i].name /\ to_image_format(ALL[i]) = Builtin(ALL[i].name)
<1>1. ALL[i].image_format = ALL[i].name
  BY AllInOrder, Between
     DEF JPEG, PNG, GIF, WEBP, AVIF, JXL, HEIC, BMP, FARBFELD, PNM, DNG, RAW, TIFF, ICO, QOI,
         PDF, EXR, HDR, JP2, TGA, SVG, Definition, DefinitionOf
<1>2. ALL[i].name # "Custom"
  BY AllInOrder, AllNames, Between
<1>3. QED
  BY <1>1, <1>2 DEF to_image_format

-----------------------------------------------------------------------------
(* The first definition that matches                                         *)

(* What First answers: none if nothing matches, else the first that does. *)
LEMMA FirstIs ==
  ASSUME NEW r, IsRegistry(r), NEW H \in SUBSET DOMAIN r, NEW v,
         v = IF H = {} THEN None ELSE to_image_format(r[Min(H)])
  PROVE  \/ H = {} /\ v = None
         \/ \E i \in H : (\A k \in 1..i-1 : k \notin H) /\ v = to_image_format(r[i])
<1>1. CASE H = {}
  BY <1>1
<1>2. CASE H # {}
  <2>1. DOMAIN r = 1..Len(r) /\ Len(r) \in Nat
    BY DEF IsRegistry
  <2>2. H \in SUBSET Nat
    BY <2>1
  <2>3. \E i \in H : \A j \in H : i <= j
    BY <1>2, <2>2, LeastOf
  <2>4. Min(H) \in H /\ \A j \in H : Min(H) <= j
    BY <2>3 DEF Min
  <2> DEFINE i == Min(H)
  <2>5. i \in H /\ (\A j \in H : i <= j) /\ v = to_image_format(r[i])
    BY <1>2, <2>4
  <2> HIDE DEF i
  <2>6. \A k \in 1..i-1 : k \notin H
    BY <2>2, <2>5
  <2>7. QED
    BY <2>5, <2>6
<1>3. QED
  BY <1>1, <1>2

(* So for what is detected in a file, *)
LEMMA Detected ==
  ASSUME NEW r, IsRegistry(r), NEW f, NEW n
  PROVE  \/ Detect(r, f, n) = None /\ \A i \in DOMAIN r : ~detect(r[i], f, n)
         \/ \E i \in DOMAIN r :
              /\ detect(r[i], f, n) /\ \A k \in 1..i-1 : ~detect(r[k], f, n)
              /\ Detect(r, f, n) = to_image_format(r[i])
<1> DEFINE H == {i \in DOMAIN r : detect(r[i], f, n)}
<1>1. Detect(r, f, n) = IF H = {} THEN None ELSE to_image_format(r[Min(H)])
  BY DEF Detect, First
<1>2. \A i \in DOMAIN r : i \in H <=> detect(r[i], f, n)
  OBVIOUS
<1>3. H \in SUBSET DOMAIN r
  OBVIOUS
<1> HIDE DEF H
<1>4. \/ H = {} /\ Detect(r, f, n) = None
      \/ \E i \in H : (\A k \in 1..i-1 : k \notin H) /\ Detect(r, f, n) = to_image_format(r[i])
  BY <1>1, <1>3, FirstIs
<1>5. \A i \in DOMAIN r : \A k \in 1..i-1 : k \in DOMAIN r
  BY DEF IsRegistry
<1>6. QED
  BY <1>2, <1>3, <1>4, <1>5

(* found by an extension, *)
LEMMA FoundByExtension ==
  ASSUME NEW r, IsRegistry(r), NEW ext
  PROVE  \/ from_extension(r, ext) = None /\ \A i \in DOMAIN r : ext \notin r[i].extensions
         \/ \E i \in DOMAIN r :
              ext \in r[i].extensions /\ from_extension(r, ext) = to_image_format(r[i])
<1> DEFINE H == {i \in DOMAIN r : ext \in r[i].extensions}
<1>1. from_extension(r, ext) = IF H = {} THEN None ELSE to_image_format(r[Min(H)])
  BY DEF from_extension, First
<1>2. \A i \in DOMAIN r : i \in H <=> ext \in r[i].extensions
  OBVIOUS
<1>3. H \in SUBSET DOMAIN r
  OBVIOUS
<1> HIDE DEF H
<1>4. \/ H = {} /\ from_extension(r, ext) = None
      \/ \E i \in H : from_extension(r, ext) = to_image_format(r[i])
  BY <1>1, <1>3, FirstIs
<1>5. QED
  BY <1>2, <1>3, <1>4

(* or by a MIME type. *)
LEMMA FoundByMime ==
  ASSUME NEW r, IsRegistry(r), NEW mime
  PROVE  \/ /\ from_mime_type(r, mime) = None
            /\ \A i \in DOMAIN r : ~\E k \in DOMAIN r[i].mime_types : r[i].mime_types[k] = mime
         \/ \E i \in DOMAIN r :
              /\ \E k \in DOMAIN r[i].mime_types : r[i].mime_types[k] = mime
              /\ from_mime_type(r, mime) = to_image_format(r[i])
<1> DEFINE Has(d) == \E k \in DOMAIN d.mime_types : d.mime_types[k] = mime
           H == {i \in DOMAIN r : Has(r[i])}
<1>1. from_mime_type(r, mime) = IF H = {} THEN None ELSE to_image_format(r[Min(H)])
  BY DEF from_mime_type, First
<1>2. \A i \in DOMAIN r : i \in H <=> Has(r[i])
  OBVIOUS
<1>3. H \in SUBSET DOMAIN r
  OBVIOUS
<1> HIDE DEF H, Has
<1>4. \/ H = {} /\ from_mime_type(r, mime) = None
      \/ \E i \in H : from_mime_type(r, mime) = to_image_format(r[i])
  BY <1>1, <1>3, FirstIs
<1>5. \/ from_mime_type(r, mime) = None /\ \A i \in DOMAIN r : ~Has(r[i])
      \/ \E i \in DOMAIN r : Has(r[i]) /\ from_mime_type(r, mime) = to_image_format(r[i])
  BY <1>2, <1>3, <1>4
<1>6. QED
  BY <1>5 DEF Has

-----------------------------------------------------------------------------
(* More bytes                                                                *)

(* A tag seen in some bytes is seen in more. *)
LEMMA TagsStayInView ==
  ASSUME NEW f, IsFile(f), f.kind = "tiff", NEW n \in Nat, NEW m \in Nat, n <= m, NEW tag,
         has_ifd0_tag(f, n, tag)
  PROVE  has_ifd0_tag(f, m, tag)
<1>1. f.ifd_offset \in Nat
  BY DEF IsFile
<1>2. PICK i \in 1..Len(f.tags) :
        /\ f.tags[i] = tag /\ f.ifd_offset + 4 + 12 * (i - 1) <= n
        /\ \A k \in 1..i : f.tags[k] <= tag
  BY Zenon DEF has_ifd0_tag
<1>3. n >= 8 /\ f.ifd_offset + 2 <= n
  BY Zenon DEF has_ifd0_tag
<1>4. f.ifd_offset + 4 + 12 * (i - 1) <= m
  BY <1>1, <1>2
<1>5. m >= 8 /\ f.ifd_offset + 2 <= m
  BY <1>1, <1>3
<1>6. QED
  BY <1>2, <1>4, <1>5, Zenon DEF has_ifd0_tag

(* A brand too. *)
LEMMA BrandsStayInView ==
  ASSUME NEW f, IsFile(f), f.kind = "bmff", NEW n \in Nat, NEW m \in Nat, n <= m, NEW target,
         scan_compat_brands(f, n, target)
  PROVE  scan_compat_brands(f, m, target)
<1>1. f.box_size \in Nat /\ Len(f.slots) \in Nat
  BY DEF IsFile
<1>2. QED
  BY <1>1 DEF scan_compat_brands

(* What a detector other than that of RAW has seen it sees in more bytes. *)
LEMMA DetectorsKeep ==
  ASSUME NEW f, IsFile(f), NEW n \in Nat, NEW m \in Nat, n <= m, m <= f.size,
         NEW d, \A k \in d.magic : k[2] \in Nat, d # RAW, detect(d, f, n)
  PROVE  detect(d, f, m)
<1>0. f.size \in Nat
  BY DEF IsFile
<1>1. CASE f.kind = "plain" /\ \E k \in d.magic : k[1] = f.start /\ n >= k[2]
  <2>1. \E k \in d.magic : k[1] = f.start /\ m >= k[2]
    BY <1>1
  <2>2. QED
    BY <1>1, <2>1 DEF detect
<1>2. ASSUME NEW majors, NEW brands, detect_brand(f, n, majors, brands)
      PROVE  detect_brand(f, m, majors, brands)
  BY <1>2, BrandsStayInView DEF detect_brand, has_ftyp
<1>3. detect_dng(f, n) => detect_dng(f, m)
  BY TagsStayInView DEF detect_dng, is_tiff_header, apple_dng
<1>4. is_tiff_header(f, n) => is_tiff_header(f, m)
  BY DEF is_tiff_header
<1>5. detect_cursor(f, n) => detect_cursor(f, m)
  BY DEF detect_cursor
<1>6. detect_tga(f, n) => detect_tga(f, m)
  BY <1>0 DEF detect_tga
<1>7. detect_svg(f, n) => detect_svg(f, m)
  BY DEF detect_svg, IsFile
<1>8. QED
  BY <1>1, <1>2, <1>3, <1>4, <1>5, <1>6, <1>7 DEF detect, detect_avif, detect_heic

(* What RAW's has seen it sees still, or DNG's does.  *)
LEMMA RawKeepsOrDng ==
  ASSUME NEW f, IsFile(f), NEW n \in Nat, NEW m \in Nat, n <= m, m <= f.size,
         detect(RAW, f, n)
  PROVE  detect(RAW, f, m) \/ detect(DNG, f, m)
<1>1. RAW # AVIF /\ RAW # HEIC /\ RAW # DNG /\ RAW # TIFF /\ RAW # ICO /\ RAW # TGA /\ RAW # SVG
  BY AllNames
<1>2. CASE f.kind = "plain" /\ \E k \in RAW.magic : k[1] = f.start /\ n >= k[2]
  <2>1. \E k \in RAW.magic : k[1] = f.start /\ m >= k[2]
    BY <1>2, MagicOf
  <2>2. QED
    BY <1>2, <2>1 DEF detect
<1>3. CASE detect_raw(f, n)
  <2>1. CASE has_ftyp(f, n) /\ f.major = "crx"
    BY <2>1 DEF has_ftyp, detect_raw, detect
  <2>2. CASE /\ is_tiff_header(f, n)
             /\ (n >= 10 /\ f.at8 = "CR") \/ has_ifd0_tag(f, n, SUB_IFDS)
    <3>1. /\ is_tiff_header(f, m) /\ f.kind = "tiff"
          /\ (m >= 10 /\ f.at8 = "CR") \/ has_ifd0_tag(f, m, SUB_IFDS)
      BY <2>2, TagsStayInView DEF is_tiff_header
    <3>2. CASE has_ifd0_tag(f, m, DNG_VERSION) \/ apple_dng(f, m)
      BY <3>1, <3>2 DEF detect_dng, detect
    <3>3. CASE ~has_ifd0_tag(f, m, DNG_VERSION) /\ ~apple_dng(f, m)
      BY <3>1, <3>3 DEF detect_raw, detect
    <3>4. QED
      BY <3>2, <3>3
  <2>3. QED
    BY <1>3, <2>1, <2>2 DEF detect_raw
<1>4. QED
  BY <1>1, <1>2, <1>3 DEF detect

-----------------------------------------------------------------------------
(* The inductive invariant                                                   *)

(* An output's names are its format's, or an encoder's for that format. *)
IsNamed(r, o) ==
  /\ o = [format |-> o.format, mime_type |-> o.mime_type, extension |-> o.extension]
  /\ o.format = Unknown \/ \E i \in DOMAIN r : o.format = to_image_format(r[i])
  /\ \/ o.mime_type = mime_type(o.format)
     \/ \E v \in MimeOverrides : v[1] = o.format.variant /\ v[2] = o.mime_type
  /\ \/ o.extension = extension(o.format)
     \/ \E v \in Overrides : v[1] = o.format.variant /\ v[2] = o.extension

AskedExtension(r, o) == [by |-> "extension", is |-> from_extension(r, o.extension)]
AskedMimeType(r, o) == [by |-> "mime", is |-> from_mime_type(r, o.mime_type)]

(* How much of a file was asked about, and what the answer was. *)
ProbedSoFar ==
  /\ file \in Files \cup {None}
  /\ arrived \in Nat /\ probed \in Nat
  /\ file # None => probed <= arrived /\ arrived <= file.size
  /\ (probed = 0 /\ verdict = None) \/ (file # None /\ verdict = Detect(registry, file, probed))

(* What an output is named and was looked up as. *)
NamedSoFar ==
  /\ named # None => IsNamed(registry, named)
  /\ looked_up # NoAnswer =>
       /\ named # None
       /\ looked_up \in {AskedExtension(registry, named), AskedMimeType(registry, named)}

DetectionInv == registry \in Registries /\ ProbedSoFar /\ NamedSoFar

(* It holds before anything has arrived or been named. *)
LEMMA InitDetection == DetectionInit => DetectionInv
<1> SUFFICES ASSUME DetectionInit PROVE DetectionInv
  OBVIOUS
<1>1. file # None => file.size \in Nat
  BY DetectionAssumption DEF DetectionInit, IsFile
<1>2. ProbedSoFar
  BY <1>1 DEF DetectionInit, ProbedSoFar
<1>3. NamedSoFar
  BY DEF DetectionInit, NamedSoFar
<1>4. QED
  BY <1>2, <1>3 DEF DetectionInit, DetectionInv

(* Receiving and probing leave the names alone, *)
LEMMA ProbeKeepsNames ==
  ASSUME DetectionInv, UNCHANGED <<registry, named, looked_up>>
  PROVE  registry' \in Registries /\ NamedSoFar'
BY DEF DetectionInv, NamedSoFar, IsNamed, AskedExtension, AskedMimeType

(* naming and asking leave the file alone. *)
LEMMA NamingKeepsProbes ==
  ASSUME DetectionInv, UNCHANGED <<registry, file, arrived, verdict, probed>>
  PROVE  registry' \in Registries /\ ProbedSoFar'
BY DEF DetectionInv, ProbedSoFar

(* An output is named after its format, *)
LEMMA NewOutputKeeps ==
  ASSUME DetectionInv, NEW format, NewOutput(format),
         format = Unknown \/ \E i \in DOMAIN registry : format = to_image_format(registry[i])
  PROVE  DetectionInv'
<1>1. registry' \in Registries /\ ProbedSoFar'
  BY NamingKeepsProbes DEF NewOutput
<1>2. IsNamed(registry, named')
  BY DEF NewOutput, IsNamed
<1>3. NamedSoFar'
  BY <1>2 DEF NewOutput, NamedSoFar
<1>4. QED
  BY <1>1, <1>3 DEF DetectionInv

(* or given another name of the format, *)
LEMMA NamesGivenKeep ==
  ASSUME DetectionInv, NEW variant, NEW name,
         \/ /\ with_mime_type(variant, name)
            /\ \E o \in MimeOverrides : o[1] = variant /\ o[2] = name
         \/ /\ with_extension(variant, name)
            /\ \E o \in Overrides : o[1] = variant /\ o[2] = name
  PROVE  DetectionInv'
<1>1. registry' \in Registries /\ ProbedSoFar' /\ looked_up' = NoAnswer /\ registry' = registry
  BY NamingKeepsProbes DEF with_mime_type, with_extension
<1>2. IsNamed(registry, named) /\ named.format.variant = variant
  BY DEF DetectionInv, NamedSoFar, with_mime_type, with_extension
<1>3. IsNamed(registry, named')
  BY <1>2 DEF IsNamed, with_mime_type, with_extension
<1>4. NamedSoFar'
  BY <1>1, <1>3 DEF NamedSoFar
<1>5. QED
  BY <1>1, <1>4 DEF DetectionInv

(* and looked up by it. *)
LEMMA AskingKeeps ==
  ASSUME DetectionInv, AskExtension \/ AskMimeType
  PROVE  DetectionInv'
<1>1. registry' \in Registries /\ ProbedSoFar' /\ registry' = registry /\ named' = named
  BY NamingKeepsProbes DEF AskExtension, AskMimeType
<1>2. looked_up' \in {AskedExtension(registry, named), AskedMimeType(registry, named)}
  BY DEF AskExtension, AskMimeType, AskedExtension, AskedMimeType
<1>3. named # None
  BY DEF AskExtension, AskMimeType
<1>4. NamedSoFar'
  BY <1>1, <1>2, <1>3 DEF NamedSoFar, DetectionInv
<1>5. QED
  BY <1>1, <1>4 DEF DetectionInv

(* Every step keeps the invariant. *)
LEMMA NextDetection == DetectionInv /\ [DetectionNext]_detectionVars => DetectionInv'
<1> SUFFICES ASSUME DetectionInv, [DetectionNext]_detectionVars PROVE DetectionInv'
  OBVIOUS
<1>0. file # None => file.size \in Nat
  BY DetectionAssumption DEF DetectionInv, ProbedSoFar, IsFile
<1>1. ASSUME file # None, NEW n \in Cuts \cup {file.size}, Receive(n) PROVE DetectionInv'
  <2>1. registry' \in Registries /\ NamedSoFar'
    BY <1>1, ProbeKeepsNames DEF Receive
  <2>2. n \in Nat
    BY <1>0, <1>1, DetectionAssumption
  <2>3. ProbedSoFar'
    BY <1>0, <1>1, <2>2 DEF DetectionInv, ProbedSoFar, Receive
  <2>4. QED
    BY <2>1, <2>3 DEF DetectionInv
<1>2. CASE Probe
  <2>1. registry' \in Registries /\ NamedSoFar'
    BY <1>2, ProbeKeepsNames DEF Probe
  <2>2. ProbedSoFar'
    BY <1>0, <1>2 DEF DetectionInv, ProbedSoFar, Probe
  <2>3. QED
    BY <2>1, <2>2 DEF DetectionInv
<1>3. ASSUME NEW i \in DOMAIN registry, NewOutput(to_image_format(registry[i]))
      PROVE  DetectionInv'
  BY <1>3, NewOutputKeeps
<1>4. CASE NewOutput(Unknown)
  BY <1>4, NewOutputKeeps
<1>5. ASSUME NEW o \in MimeOverrides, with_mime_type(o[1], o[2]) PROVE DetectionInv'
  BY <1>5, NamesGivenKeep
<1>6. ASSUME NEW o \in Overrides, with_extension(o[1], o[2]) PROVE DetectionInv'
  BY <1>6, NamesGivenKeep
<1>7. CASE AskExtension \/ AskMimeType
  BY <1>7, AskingKeeps
<1>8. CASE UNCHANGED detectionVars
  BY <1>8, ProbeKeepsNames, NamingKeepsProbes DEF detectionVars, DetectionInv
<1>9. QED
  BY <1>1, <1>2, <1>3, <1>4, <1>5, <1>6, <1>7, <1>8 DEF DetectionNext

(* The invariant of the specification. *)
LEMMA DetectionInvariant == DetectionSpec => []DetectionInv
BY InitDetection, NextDetection, PTL DEF DetectionSpec

-----------------------------------------------------------------------------
(* Verdicts as bytes arrive                                                  *)

(* A definition's format is not none, and its place is among the format's. *)
LEMMA FormatsAreSome ==
  ASSUME DetectionInv, NEW i \in DOMAIN registry
  PROVE  /\ to_image_format(registry[i]) # None
         /\ i \in Places(to_image_format(registry[i]))
<1>1. to_image_format(registry[i]) # None
  BY DetectionAssumption DEF DetectionInv
<1>2. QED
  BY <1>1 DEF Places, Same

(* A probe of no fewer bytes finds its definition no later. *)
LEMMA ProbedAgain ==
  ASSUME DetectionInv, DngBeforeRaw, Probe
  PROVE  \E i \in Places(verdict'), k \in Places(verdict) : i <= k
<1>1. /\ registry' = registry /\ file \in Files /\ IsFile(file) /\ IsRegistry(registry)
      /\ probed \in Nat /\ arrived \in Nat /\ probed <= arrived /\ arrived <= file.size
      /\ verdict' = Detect(registry, file, arrived)
  BY DetectionAssumption DEF Probe, DetectionInv, ProbedSoFar
<1>2. /\ Len(registry) \in Nat /\ DOMAIN registry = 1..Len(registry)
      /\ \A i \in DOMAIN registry : \A m \in registry[i].magic : m[2] \in Nat
  BY <1>1 DEF IsRegistry
<1>3. ASSUME NEW i \in DOMAIN registry PROVE to_image_format(registry[i]) # None
  BY FormatsAreSome
<1>4. \/ /\ verdict' = None /\ \A i \in DOMAIN registry : ~detect(registry[i], file, arrived)
      \/ \E i \in DOMAIN registry :
           /\ \A k \in 1..i-1 : ~detect(registry[k], file, arrived)
           /\ verdict' = to_image_format(registry[i])
  BY <1>1, Detected
<1>5. \/ verdict = None
      \/ \E k \in DOMAIN registry :
           detect(registry[k], file, probed) /\ verdict = to_image_format(registry[k])
  BY <1>1, Detected DEF DetectionInv, ProbedSoFar
<1>6. CASE verdict = None
  <2>1. Len(registry) + 1 \in Places(verdict)
    BY <1>6 DEF Places
  <2>2. \/ Len(registry) + 1 \in Places(verdict')
        \/ \E i \in DOMAIN registry : i \in Places(verdict')
    BY <1>1, <1>4, FormatsAreSome DEF Places
  <2>3. QED
    BY <1>2, <2>1, <2>2
<1>7. ASSUME NEW k \in DOMAIN registry, detect(registry[k], file, probed),
             verdict = to_image_format(registry[k])
      PROVE  \E i \in Places(verdict'), j \in Places(verdict) : i <= j
  <2>1. k \in Places(verdict)
    BY <1>7, FormatsAreSome
  <2>2. \E j \in 1..k : detect(registry[j], file, arrived)
    <3>1. CASE registry[k] = RAW
      <4>1. PICK j \in 1..k-1 : registry[j] = DNG
        BY <3>1 DEF DngBeforeRaw
      <4>2. detect(RAW, file, arrived) \/ detect(DNG, file, arrived)
        BY <1>1, <1>7, <3>1, RawKeepsOrDng
      <4>3. QED
        BY <1>2, <3>1, <4>1, <4>2
    <3>2. CASE registry[k] # RAW
      <4>1. detect(registry[k], file, arrived)
        BY <1>1, <1>2, <1>7, <3>2, DetectorsKeep
      <4>2. QED
        BY <1>2, <4>1
    <3>3. QED
      BY <3>1, <3>2
  <2>3. PICK j \in 1..k : detect(registry[j], file, arrived)
    BY <2>2
  <2>4. j \in DOMAIN registry /\ j \in Nat /\ k \in Nat
    BY <1>2
  <2>5. PICK i \in DOMAIN registry : /\ \A l \in 1..i-1 : ~detect(registry[l], file, arrived)
                                     /\ verdict' = to_image_format(registry[i])
    BY <1>4, <2>3, <2>4
  <2>6. i <= k
    BY <1>2, <2>3, <2>4, <2>5
  <2>7. i \in Places(verdict')
    BY <2>5, FormatsAreSome
  <2>8. QED
    BY <2>1, <2>6, <2>7
<1>8. QED
  BY <1>5, <1>6, <1>7

(* Every verdict has a place. *)
LEMMA PlacesAreThere ==
  ASSUME DetectionInv
  PROVE  \E i \in Places(verdict) : i <= i
<1>1. IsRegistry(registry)
  BY DetectionAssumption DEF DetectionInv
<1>2. Len(registry) \in Nat /\ DOMAIN registry = 1..Len(registry)
  BY <1>1 DEF IsRegistry
<1>3. verdict = None \/ \E k \in DOMAIN registry : verdict = to_image_format(registry[k])
  BY <1>1, Detected DEF DetectionInv, ProbedSoFar
<1>4. CASE verdict = None
  BY <1>2, <1>4 DEF Places
<1>5. ASSUME NEW k \in DOMAIN registry, verdict = to_image_format(registry[k])
      PROVE  \E i \in Places(verdict) : i <= i
  BY <1>2, <1>5, FormatsAreSome
<1>6. QED
  BY <1>3, <1>4, <1>5

(* No step but a probe changes the verdict. *)
LEMMA StepsMoveUp ==
  ASSUME DetectionInv, DetectionNext, DngBeforeRaw
  PROVE  \E i \in Places(verdict'), k \in Places(verdict) : i <= k
<1>1. CASE Probe
  BY <1>1, ProbedAgain
<1>2. CASE ~Probe
  <2>1. verdict' = verdict /\ registry' = registry
    BY <1>2 DEF DetectionNext, Receive, NewOutput, with_mime_type, with_extension, AskExtension,
                AskMimeType
  <2>2. QED
    BY <2>1, PlacesAreThere
<1>3. QED
  BY <1>1, <1>2

(* As bytes of a file arrive, an identification moves only to a definition the *)
(* registry prefers, never back and never to none.                             *)
THEOREM VerdictsOnlyMoveUp == DetectionSpec => VerdictsMoveUp
<1>1. DetectionInv /\ [DetectionNext]_detectionVars =>
        [DngBeforeRaw => \E i \in Places(verdict'), k \in Places(verdict) : i <= k]_detectionVars
  BY StepsMoveUp
<1>2. QED
  BY <1>1, DetectionInvariant, PTL DEF DetectionSpec, VerdictsMoveUp

-----------------------------------------------------------------------------
(* Names and the formats they lead to                                        *)

(* The built-in formats list the names they prefer, but for the extension of RAW. *)
LEMMA AllListed ==
  ASSUME NEW k \in 1..21
  PROVE  /\ 1 \in DOMAIN ALL[k].mime_types
         /\ ALL[k].preferred_extension \in ALL[k].extensions \/ ALL[k].preferred_extension = "raw"
BY AllInOrder, Between
   DEF JPEG, PNG, GIF, WEBP, AVIF, JXL, HEIC, BMP, FARBFELD, PNM, DNG, RAW, TIFF, ICO, QOI,
       PDF, EXR, HDR, JP2, TGA, SVG, Definition, DefinitionOf

(* They are neither custom nor unknown, and have no name of the unknown format. *)
LEMMA AllKnown ==
  ASSUME NEW k \in 1..21
  PROVE  /\ ALL[k].name \notin {"unknown", "Custom"}
         /\ "bin" \notin NamesOf(ALL[k]) /\ "application/octet-stream" \notin NamesOf(ALL[k])
<1>1. ALL[k].name \notin {"unknown", "Custom"}
  BY AllInOrder, AllNames, Between
<1>2. "bin" \notin NamesOf(ALL[k]) /\ "application/octet-stream" \notin NamesOf(ALL[k])
  BY AllInOrder, LabelsOf, Between
<1>3. QED
  BY <1>1, <1>2

(* A built-in format has one definition, *)
LEMMA DefinitionOfBuiltin ==
  ASSUME NEW k \in 1..21
  PROVE  definition(Builtin(ALL[k].name)) = {ALL[k]}
<1>1. Builtin(ALL[k].name).variant = ALL[k].name /\ ALL[k].name # "Custom"
  BY AllKnown DEF Builtin
<1>2. DOMAIN ALL = 1..21
  BY AllInOrder
<1>3. \A i \in 1..21 : ALL[i].name = ALL[k].name => i = k
  BY NamesApart
<1>4. QED
  BY <1>1, <1>2, <1>3, Zenon DEF definition

(* the unknown one has none. *)
LEMMA NoDefinitionOfUnknown == definition(Unknown) = {}
<1>1. Unknown.variant = "unknown"
  BY DEF Unknown, Builtin
<1>2. \A k \in DOMAIN ALL : ALL[k].name # "unknown"
  BY AllKnown, AllInOrder
<1>3. QED
  BY <1>1, <1>2 DEF definition

(* A format with one definition goes by the names that one prefers. *)
LEMMA PreferredNames ==
  ASSUME NEW format, NEW d, definition(format) = {d}, format # Unknown
  PROVE  mime_type(format) = d.mime_types[1] /\ extension(format) = d.preferred_extension
<1>1. (CHOOSE e \in definition(format) : TRUE) = d
  OBVIOUS
<1>2. QED
  BY <1>1 DEF mime_type, extension

(* What is not built in is what a caller added; a custom format always is. *)
LEMMA AddedOrBuiltin ==
  ASSUME DetectionInv, NEW i \in DOMAIN registry
  PROVE  i \in Added \/ \E k \in 1..21 : registry[i] = ALL[k]
BY AllInOrder DEF Added

(* A format of the registry is custom and an added one's, or built in. *)
LEMMA FormatsOfRegistry ==
  ASSUME DetectionInv, NEW i \in DOMAIN registry, NEW format,
         format = to_image_format(registry[i])
  PROVE  \/ /\ i \in Added /\ format = Custom(registry[i]) /\ format # Unknown
            /\ format.variant = "Custom" /\ definition(format) = {registry[i]}
         \/ \E k \in 1..21 : /\ format = Builtin(ALL[k].name) /\ format # Unknown
                             /\ definition(format) = {ALL[k]}
<1>1. /\ registry[i].image_format \in {"Custom"} \cup {ALL[k].name : k \in 1..21}
  BY DetectionAssumption, AllInOrder DEF DetectionInv, IsRegistry
<1>2. CASE registry[i].image_format = "Custom"
  <2>1. format = Custom(registry[i])
    BY <1>2 DEF to_image_format
  <2>2. format.variant = "Custom" /\ format.def = registry[i]
    BY <2>1 DEF Custom
  <2>3. Unknown.variant = "unknown"
    BY DEF Unknown, Builtin
  <2>4. format # Unknown
    BY <2>2, <2>3
  <2>5. \A k \in 1..21 : registry[i] # ALL[k]
    BY <1>2, AllFormats, AllKnown
  <2>6. i \in Added
    BY <2>5, AddedOrBuiltin
  <2>7. definition(format) = {registry[i]}
    BY <2>2 DEF definition
  <2>8. QED
    BY <2>1, <2>2, <2>4, <2>6, <2>7
<1>3. ASSUME NEW k \in 1..21, registry[i].image_format = ALL[k].name
      PROVE  /\ format = Builtin(ALL[k].name) /\ format # Unknown /\ definition(format) = {ALL[k]}
  <2>1. format = Builtin(ALL[k].name)
    BY <1>3, AllKnown DEF to_image_format
  <2>2. Builtin(ALL[k].name).variant = ALL[k].name /\ Unknown.variant = "unknown"
    BY DEF Unknown, Builtin
  <2>3. format # Unknown
    BY <2>1, <2>2, AllKnown
  <2>4. QED
    BY <2>1, <2>3, DefinitionOfBuiltin
<1>4. QED
  BY <1>1, <1>2, <1>3

(* The names a format prefers belong to no other format of the registry. *)
LEMMA PreferredIsOwn ==
  ASSUME DetectionInv, AddedIsDistinct, NEW i \in DOMAIN registry, NEW format,
         format = Unknown \/ \E j \in DOMAIN registry : format = to_image_format(registry[j]),
         NEW name \in NamesOf(registry[i]), name \in {mime_type(format), extension(format)}
  PROVE  Same(to_image_format(registry[i]), format)
<1> DEFINE led == to_image_format(registry[i])
<1>1. \/ i \in Added
      \/ \E k \in 1..21 : registry[i] = ALL[k] /\ led = Builtin(ALL[k].name)
  BY AddedOrBuiltin, AllFormats
<1>2. CASE format = Unknown
  <2>1. name \in {mime_type(Unknown), extension(Unknown)}
    BY <1>2
  <2>2. i \notin Added
    BY <2>1 DEF AddedIsDistinct
  <2>3. name \in {"bin", "application/octet-stream"}
    BY <2>1 DEF mime_type, extension
  <2>4. QED
    BY <1>1, <2>2, <2>3, AllKnown
<1>3. ASSUME NEW j \in DOMAIN registry, format = to_image_format(registry[j])
      PROVE  Same(led, format)
  <2>1. CASE /\ j \in Added /\ format # Unknown /\ definition(format) = {registry[j]}
    <3>1. 1 \in DOMAIN registry[j].mime_types
      BY DetectionAssumption DEF DetectionInv, IsRegistry
    <3>2. name \in NamesOf(registry[j])
      BY <2>1, <3>1, PreferredNames DEF NamesOf
    <3>3. Same(format, led) \/ NamesOf(registry[j]) \cap NamesOf(registry[i]) = {}
      BY <1>3, <2>1 DEF AddedIsDistinct
    <3>4. QED
      BY <3>2, <3>3 DEF Same
  <2>2. ASSUME NEW k \in 1..21, format = Builtin(ALL[k].name), format # Unknown,
               definition(format) = {ALL[k]}
        PROVE  Same(led, format)
    <3>1. name \in NamesOf(ALL[k])
      BY <2>2, PreferredNames, AllListed DEF NamesOf
    <3>2. CASE i \in Added
      <4>1. ALL[k] \in {ALL[l] : l \in DOMAIN ALL} /\ to_image_format(ALL[k]) = format
        BY <2>2, AllInOrder, AllFormats
      <4>2. Same(led, format) \/ NamesOf(registry[i]) \cap NamesOf(ALL[k]) = {}
        BY <3>2, <4>1 DEF AddedIsDistinct
      <4>3. QED
        BY <3>1, <4>2
    <3>3. ASSUME NEW l \in 1..21, registry[i] = ALL[l], led = Builtin(ALL[l].name)
          PROVE  Same(led, format)
      <4>1. l = k
        BY <3>1, <3>3, LabelsApart
      <4>2. led = format /\ format.variant # "Custom"
        BY <2>2, <3>3, <4>1, AllKnown DEF Builtin
      <4>3. QED
        BY <4>2 DEF Same
    <3>4. QED
      BY <1>1, <3>2, <3>3
  <2>3. QED
    BY <1>3, <2>1, <2>2, FormatsOfRegistry
<1>4. QED
  BY <1>2, <1>3

(* A definition of the format itself lists the names the format prefers. *)
LEMMA PreferredIsListed ==
  ASSUME DetectionInv, AddedIsDistinct, NEW i \in DOMAIN registry, NEW format,
         format = Unknown \/ \E j \in DOMAIN registry : format = to_image_format(registry[j]),
         registry[i] \in definition(format)
  PROVE  /\ 1 \in DOMAIN registry[i].mime_types /\ mime_type(format) = registry[i].mime_types[1]
         /\ extension(format) \in registry[i].extensions \/ extension(format) = "raw"
<1> DEFINE d == registry[i]
<1>1. format # Unknown
  BY NoDefinitionOfUnknown
<1>2. PICK j \in DOMAIN registry : format = to_image_format(registry[j])
  BY <1>1
<1>3. 1 \in DOMAIN d.mime_types
  BY DetectionAssumption DEF DetectionInv, IsRegistry
<1>4. CASE j \in Added /\ definition(format) = {registry[j]}
  <2>1. d = registry[j] /\ mime_type(format) = d.mime_types[1] /\ extension(format) = d.preferred_extension
    BY <1>1, <1>4, PreferredNames
  <2>2. d.preferred_extension \in d.extensions
    BY <1>4, <2>1 DEF AddedIsDistinct
  <2>3. QED
    BY <1>3, <2>1, <2>2
<1>5. ASSUME NEW k \in 1..21, definition(format) = {ALL[k]}
      PROVE  /\ mime_type(format) = d.mime_types[1]
             /\ extension(format) \in d.extensions \/ extension(format) = "raw"
  BY <1>1, <1>5, PreferredNames, AllListed
<1>6. QED
  BY <1>2, <1>3, <1>4, <1>5, FormatsOfRegistry

(* Names given instead are listed by definitions of the format only. *)
LEMMA OverrideIsOwn ==
  ASSUME DetectionInv, NEW i \in DOMAIN registry, NEW format,
         NEW o \in Overrides \cup MimeOverrides, o[1] = format.variant,
         \/ o[2] \in registry[i].extensions
         \/ \E k \in DOMAIN registry[i].mime_types : registry[i].mime_types[k] = o[2]
  PROVE  Same(to_image_format(registry[i]), format)
BY DetectionAssumption DEF DetectionInv, IsOwnName, Same

(* What a name was looked up as, case by case of the table asked. *)
LEMMA NamesLead == DetectionInv => NamesLeadBack
<1> SUFFICES ASSUME DetectionInv, looked_up # NoAnswer, AddedIsDistinct PROVE NamesLeadBack
  BY DEF NamesLeadBack
<1> DEFINE format == named.format
           own == {registry[i] : i \in {k \in DOMAIN registry :
                                   Same(to_image_format(registry[k]), format)}}
<1>1. IsRegistry(registry)
  BY DetectionAssumption DEF DetectionInv
<1>2. /\ IsNamed(registry, named)
      /\ looked_up \in {AskedExtension(registry, named), AskedMimeType(registry, named)}
  BY DEF DetectionInv, NamedSoFar
<1>3. format = Unknown \/ \E j \in DOMAIN registry : format = to_image_format(registry[j])
  BY <1>2 DEF IsNamed
<1>4. \A i \in DOMAIN registry : to_image_format(registry[i]) # None
  BY FormatsAreSome
<1>5. \A d \in own : \E i \in DOMAIN registry : d = registry[i]
  OBVIOUS
<1>6. CASE looked_up = AskedExtension(registry, named)
  <2> DEFINE name == named.extension
  <2>1. looked_up.by = "extension" /\ looked_up.is = from_extension(registry, name)
    BY <1>6 DEF AskedExtension
  <2>2. \/ looked_up.is = None /\ \A i \in DOMAIN registry : name \notin registry[i].extensions
        \/ \E i \in DOMAIN registry :
             name \in registry[i].extensions /\ looked_up.is = to_image_format(registry[i])
    BY <1>1, <2>1, FoundByExtension
  <2>3. looked_up.is = None \/ Same(looked_up.is, format)
    <3> SUFFICES ASSUME NEW i \in DOMAIN registry, name \in registry[i].extensions
                 PROVE  Same(to_image_format(registry[i]), format)
      BY <2>2
    <3>1. CASE name = extension(format)
      BY <1>3, <3>1, PreferredIsOwn DEF NamesOf
    <3>2. ASSUME NEW o \in Overrides, o[1] = format.variant, o[2] = name
          PROVE  Same(to_image_format(registry[i]), format)
      BY <3>2, OverrideIsOwn
    <3>3. QED
      BY <1>2, <3>1, <3>2 DEF IsNamed
  <2>4. looked_up.is = None => \A d \in own : name \notin d.extensions
    BY <1>4, <1>5, <2>2
  <2>5. own \cap definition(format) # {} /\ name = extension(format) /\ name # "raw" => looked_up.is # None
    <3> SUFFICES ASSUME NEW d \in own, d \in definition(format), name = extension(format), name # "raw"
                 PROVE  looked_up.is # None
      OBVIOUS
    <3>1. PICK i \in DOMAIN registry : d = registry[i]
      BY <1>5
    <3>2. name \in d.extensions
      BY <1>3, <3>1, PreferredIsListed
    <3>3. QED
      BY <2>4, <3>2
  <2>6. QED
    BY <2>1, <2>3, <2>4, <2>5 DEF NamesLeadBack
<1>7. CASE looked_up = AskedMimeType(registry, named)
  <2> DEFINE name == named.mime_type
             Lists(d) == \E k \in DOMAIN d.mime_types : d.mime_types[k] = name
  <2>1. looked_up.by = "mime" /\ looked_up.is = from_mime_type(registry, name)
    BY <1>7 DEF AskedMimeType
  <2>2. \/ looked_up.is = None /\ \A i \in DOMAIN registry : ~Lists(registry[i])
        \/ \E i \in DOMAIN registry :
             Lists(registry[i]) /\ looked_up.is = to_image_format(registry[i])
    BY <1>1, <2>1, FoundByMime
  <2>3. looked_up.is = None \/ Same(looked_up.is, format)
    <3> SUFFICES ASSUME NEW i \in DOMAIN registry, Lists(registry[i])
                 PROVE  Same(to_image_format(registry[i]), format)
      BY <2>2
    <3>1. CASE name = mime_type(format)
      BY <1>3, <3>1, PreferredIsOwn DEF NamesOf
    <3>2. ASSUME NEW o \in MimeOverrides, o[1] = format.variant, o[2] = name
          PROVE  Same(to_image_format(registry[i]), format)
      BY <3>2, OverrideIsOwn
    <3>3. QED
      BY <1>2, <3>1, <3>2 DEF IsNamed
  <2>4. looked_up.is = None => \A d \in own : ~Lists(d)
    BY <1>4, <1>5, <2>2
  <2>5. own \cap definition(format) # {} /\ name = mime_type(format) => looked_up.is # None
    <3> SUFFICES ASSUME NEW d \in own, d \in definition(format), name = mime_type(format)
                 PROVE  looked_up.is # None
      OBVIOUS
    <3>1. PICK i \in DOMAIN registry : d = registry[i]
      BY <1>5
    <3>2. Lists(d)
      BY <1>3, <3>1, PreferredIsListed
    <3>3. QED
      BY <2>4, <3>2
  <2>6. QED
    BY <2>1, <2>3, <2>4, <2>5 DEF NamesLeadBack
<1>8. QED
  BY <1>2, <1>6, <1>7

(* The names an output goes by lead back to its format or nowhere. *)
THEOREM NamesLeadToFormats == DetectionSpec => []NamesLeadBack
BY DetectionInvariant, NamesLead, PTL

-----------------------------------------------------------------------------
(* What a file is and what it is taken for                                   *)

(* Which of the common definitions see something in a file. *)
LEMMA DetectsAt ==
  ASSUME NEW f, NEW n, NEW i \in 1..21
  PROVE  detect(ALL[i], f, n) <=>
           \/ f.kind = "plain" /\ \E m \in ALL[i].magic : m[1] = f.start /\ n >= m[2]
           \/ i = 5 /\ detect_avif(f, n)
           \/ i = 7 /\ detect_heic(f, n)
           \/ i = 11 /\ detect_dng(f, n)
           \/ i = 12 /\ detect_raw(f, n)
           \/ i = 13 /\ is_tiff_header(f, n)
           \/ i = 14 /\ detect_cursor(f, n)
           \/ i = 20 /\ detect_tga(f, n)
           \/ i = 21 /\ detect_svg(f, n)
<1>1. /\ (ALL[i] = AVIF <=> i = 5) /\ (ALL[i] = HEIC <=> i = 7) /\ (ALL[i] = DNG <=> i = 11)
      /\ (ALL[i] = RAW <=> i = 12) /\ (ALL[i] = TIFF <=> i = 13) /\ (ALL[i] = ICO <=> i = 14)
      /\ (ALL[i] = TGA <=> i = 20) /\ (ALL[i] = SVG <=> i = 21)
  BY AllInOrder, NamesApart
<1>2. QED
  BY <1>1 DEF detect

FirstSeen(f, n, i) ==
  /\ i \in 1..21 /\ detect(ALL[i], f, n)
  /\ \A k \in 1..i-1 : ~detect(ALL[k], f, n)

(* There is one first. *)
LEMMA OnlyFirst ==
  ASSUME NEW f, NEW n, NEW i, NEW k, FirstSeen(f, n, i), FirstSeen(f, n, k)
  PROVE  i = k
BY DEF FirstSeen

(* What a file is, it may be taken for. *)
LEMMA IsOnTheWay ==
  ASSUME NEW name
  PROVE  name \in OnTheWay(name)
BY DEF OnTheWay

(* A plain file is what starts like it; if nothing does, its footer decides. *)
LEMMA IdentityPlain ==
  ASSUME NEW f, f.kind = "plain"
  PROVE  /\ \A k \in 1..21 : \A m \in ALL[k].magic :
              m[1] = f.start => Identity(f) = ALL[k].name
         /\ (\A k \in 1..21 : \A m \in ALL[k].magic : m[1] # f.start) =>
              Identity(f) = IF f.footer THEN "tga" ELSE None
<1> DEFINE known == {d \in {ALL[i] : i \in DOMAIN ALL} : \E m \in d.magic : m[1] = f.start}
<1>1. Identity(f) = IF known # {} THEN (CHOOSE d \in known : TRUE).name
                    ELSE IF f.footer THEN "tga" ELSE None
  BY DEF Identity
<1>2. ASSUME NEW k \in 1..21, NEW m \in ALL[k].magic, m[1] = f.start
      PROVE  Identity(f) = ALL[k].name
  <2>1. ALL[k] \in known
    BY <1>2, AllInOrder
  <2>2. ASSUME NEW d \in known PROVE d = ALL[k]
    <3>1. PICK l \in 1..21 : d = ALL[l]
      BY AllInOrder
    <3>2. PICK o \in ALL[l].magic : o[1] = f.start
      BY <3>1
    <3>3. l = k
      BY <1>2, <3>2, StartsApart
    <3>4. QED
      BY <3>1, <3>3
  <2>3. (CHOOSE d \in known : TRUE) = ALL[k]
    BY <2>1, <2>2
  <2>4. QED
    BY <1>1, <2>1, <2>3
<1>3. ASSUME \A k \in 1..21 : \A m \in ALL[k].magic : m[1] # f.start
      PROVE  known = {}
  BY <1>3, AllInOrder
<1>4. QED
  BY <1>1, <1>2, <1>3

(* A plain file is seen by its start, or by a footer. *)
LEMMA PlainSeen ==
  ASSUME NEW f, f.kind = "plain", NEW n, NEW i \in 1..21
  PROVE  detect(ALL[i], f, n) <=>
           \/ \E m \in ALL[i].magic : m[1] = f.start /\ n >= m[2]
           \/ i = 20 /\ n >= 44 /\ f.footer /\ n = f.size
BY DetectsAt DEF detect_avif, detect_heic, detect_brand, has_ftyp, detect_dng, detect_raw,
                 is_tiff_header, detect_cursor, detect_tga, detect_svg

(* The definition that starts like it stands before TGA. *)
LEMMA PlainIsHonest ==
  ASSUME NEW f, IsFile(f), f.kind = "plain", NEW n \in Nat, n <= f.size, NEW i, FirstSeen(f, n, i)
  PROVE  ALL[i].name \in OnTheWay(Identity(f))
<1>1. CASE \E m \in ALL[i].magic : m[1] = f.start /\ n >= m[2]
  BY <1>1, IdentityPlain, IsOnTheWay DEF FirstSeen
<1>2. CASE i = 20 /\ n >= 44 /\ f.footer /\ n = f.size
  <2>1. ASSUME NEW k \in 1..21, NEW m \in ALL[k].magic, m[1] = f.start PROVE FALSE
    <3>1. m[2] \in 1..12 /\ k \in 1..i-1
      BY <1>2, StartsSeen
    <3>2. n >= m[2]
      BY <1>2, <3>1
    <3>3. QED
      BY <2>1, <3>1, <3>2, PlainSeen DEF FirstSeen
  <2>2. Identity(f) = "tga"
    BY <1>2, <2>1, IdentityPlain
  <2>3. QED
    BY <1>2, <2>2, AllInOrder, AllNames, IsOnTheWay
<1>3. QED
  BY <1>1, <1>2, PlainSeen DEF FirstSeen

(* What the common definitions say of a file that is known well enough. *)
Identified(f, n) ==
  \/ Identity(f) = None /\ \A i \in 1..21 : ~detect(ALL[i], f, n)
  \/ \E i \in 1..21 : FirstSeen(f, n, i) /\ ALL[i].name = Identity(f)

(* If the first to see something is right, the file is identified. *)
LEMMA FirstIdentifies ==
  ASSUME NEW f, NEW n, NEW i, FirstSeen(f, n, i), ALL[i].name = Identity(f)
  PROVE  Identified(f, n)
BY DEF FirstSeen, Identified

(* What a plain file starts with is in view. *)
LEMMA PlainIsIdentified ==
  ASSUME NEW f, IsFile(f), f.kind = "plain", NEW n \in Nat, n <= f.size, EnoughIsKnown(f, n)
  PROVE  Identified(f, n)
<1>0. f.size \in Nat /\ f.footer \in BOOLEAN /\ (f.footer => f.size >= 44)
  BY DEF IsFile
<1>1. ASSUME NEW k \in 1..21, NEW m \in ALL[k].magic, m[1] = f.start
      PROVE  Identified(f, n)
  <2>1. m[2] \in 1..12 /\ k < 20
    BY StartsSeen
  <2>2. m[2] <= f.size
    BY <1>1, AllInOrder DEF IsFile
  <2>3. n >= m[2]
    BY <2>1, <2>2 DEF EnoughIsKnown, RECOMMENDED_PROBE_BYTES
  <2>4. detect(ALL[k], f, n)
    BY <1>1, <2>3, PlainSeen
  <2>5. ASSUME NEW l \in 1..k-1 PROVE ~detect(ALL[l], f, n)
    <3>1. l \in 1..21 /\ l # k /\ l # 20
      BY <2>1
    <3>2. \A o \in ALL[l].magic : o[1] # f.start
      BY <1>1, <3>1, StartsApart
    <3>3. QED
      BY <3>1, <3>2, PlainSeen
  <2>6. Identity(f) = ALL[k].name
    BY <1>1, IdentityPlain
  <2>7. QED
    BY <2>4, <2>5, <2>6 DEF Identified, FirstSeen
<1>2. CASE \A k \in 1..21 : \A m \in ALL[k].magic : m[1] # f.start
  <2>1. Identity(f) = IF f.footer THEN "tga" ELSE None
    BY <1>2, IdentityPlain
  <2>2. \A k \in 1..21 : detect(ALL[k], f, n) <=> k = 20 /\ n >= 44 /\ f.footer /\ n = f.size
    BY <1>2, PlainSeen
  <2>3. CASE f.footer
    <3>1. n = f.size /\ n >= 44
      BY <1>0, <2>3 DEF EnoughIsKnown
    <3>2. FirstSeen(f, n, 20)
      BY <2>2, <2>3, <3>1 DEF FirstSeen
    <3>3. ALL[20].name = Identity(f)
      BY <2>1, <2>3, AllInOrder, AllNames
    <3>4. QED
      BY <3>2, <3>3 DEF Identified
  <2>4. CASE ~f.footer
    BY <2>1, <2>2, <2>4 DEF Identified
  <2>5. QED
    BY <2>3, <2>4
<1>3. QED
  BY <1>1, <1>2

-----------------------------------------------------------------------------
(* ISO BMFF: the brands                                                      *)

Brands(f) ==
  {f.major} \cup {f.slots[i] : i \in {k \in DOMAIN f.slots :
                                   f.box_size = 0 \/ 16 + 4 * k <= f.box_size}}

ClaimsOne(f, set) ==
  f.major \in set \/ (f.major \in {"mif1", "msf1"} /\ Brands(f) \cap set # {})

(* A box file is what its brands claim, AVIF first. *)
LEMMA IdentityBmff ==
  ASSUME NEW f, f.kind = "bmff"
  PROVE  Identity(f) = IF ClaimsOne(f, {"avif", "avis"}) THEN "avif"
                       ELSE IF ClaimsOne(f, HEIC_BRANDS) THEN "heic"
                       ELSE IF f.major = "crx" THEN "raw" ELSE None
BY DEF Identity, ClaimsOne, Brands

(* Only AVIF, HEIC and RAW look for brands. *)
LEMMA BmffSeen ==
  ASSUME NEW f, f.kind = "bmff", IsFile(f), NEW n, NEW i \in 1..21
  PROVE  detect(ALL[i], f, n) <=>
           \/ i = 5 /\ detect_brand(f, n, {"avif", "avis"}, {"avif", "avis"})
           \/ i = 7 /\ detect_brand(f, n, HEIC_BRANDS, HEIC_BRANDS)
           \/ i = 12 /\ n >= 12 /\ f.major = "crx"
<1>1. ~f.footer
  BY DEF IsFile
<1>2. QED
  BY <1>1, DetectsAt DEF detect_avif, detect_heic, has_ftyp, detect_dng, detect_raw,
                         is_tiff_header, detect_cursor, detect_tga, detect_svg, detect_brand

(* A brand seen is claimed. *)
LEMMA SeenIsClaimed ==
  ASSUME NEW f, IsFile(f), f.kind = "bmff", f.box_size # 1, NEW n \in Nat, NEW set,
         detect_brand(f, n, set, set)
  PROVE  ClaimsOne(f, set)
<1>0. f.box_size \in Nat /\ Len(f.slots) \in Nat /\ DOMAIN f.slots = 1..Len(f.slots)
  BY DEF IsFile
<1>1. CASE f.major \in set
  BY <1>1 DEF ClaimsOne
<1>2. CASE f.major \in {"mif1", "msf1"} /\ scan_compat_brands(f, n, set)
  <2>1. \E i \in 1..Len(f.slots) :
           f.slots[i] \in set /\ (f.box_size = 0 \/ 16 + 4 * i <= f.box_size)
    BY <1>0, <1>2 DEF scan_compat_brands
  <2>2. Brands(f) \cap set # {}
    BY <1>0, <2>1 DEF Brands
  <2>3. QED
    BY <1>2, <2>2 DEF ClaimsOne
<1>3. QED
  BY <1>1, <1>2 DEF detect_brand

(* A brand claimed is seen when the list is in view. *)
LEMMA ClaimedIsSeen ==
  ASSUME NEW f, IsFile(f), f.kind = "bmff", f.box_size # 1, NEW n \in Nat,
         16 + 4 * Len(f.slots) <= n, NEW set, "mif1" \notin set, "msf1" \notin set,
         ClaimsOne(f, set)
  PROVE  detect_brand(f, n, set, set)
<1>0. f.box_size \in Nat /\ Len(f.slots) \in Nat /\ DOMAIN f.slots = 1..Len(f.slots) /\ n >= 12
  BY DEF IsFile
<1>1. has_ftyp(f, n)
  BY <1>0 DEF has_ftyp
<1>2. CASE f.major \in set
  BY <1>1, <1>2 DEF detect_brand
<1>3. CASE f.major \in {"mif1", "msf1"} /\ Brands(f) \cap set # {}
  <2>1. PICK brand \in Brands(f) : brand \in set
    BY <1>3
  <2>2. brand # f.major
    BY <1>3, <2>1
  <2>3. PICK i \in 1..Len(f.slots) :
          f.slots[i] = brand /\ (f.box_size = 0 \/ 16 + 4 * i <= f.box_size)
    BY <1>0, <2>1, <2>2 DEF Brands
  <2>4. 16 + 4 * i <= n
    BY <1>0, <2>3
  <2>5. scan_compat_brands(f, n, set)
    BY <1>0, <2>1, <2>3, <2>4 DEF scan_compat_brands
  <2>6. QED
    BY <1>1, <1>3, <2>5 DEF detect_brand
<1>4. QED
  BY <1>2, <1>3 DEF ClaimsOne

(* Canon's brand is neither's. *)
LEMMA CrxClaimsNothing ==
  ASSUME NEW f, f.major = "crx"
  PROVE  ~ClaimsOne(f, {"avif", "avis"}) /\ ~ClaimsOne(f, HEIC_BRANDS)
BY DEF ClaimsOne, HEIC_BRANDS

(* While the list arrives, an AVIF may be taken for a HEIC. *)
LEMMA BmffIsHonest ==
  ASSUME NEW f, IsFile(f), f.kind = "bmff", WellFormed(f), NEW n \in Nat, NEW i,
         FirstSeen(f, n, i)
  PROVE  ALL[i].name \in OnTheWay(Identity(f))
<1>0. f.box_size # 1
  BY DEF WellFormed
<1>1. CASE i = 5 /\ detect_brand(f, n, {"avif", "avis"}, {"avif", "avis"})
  <2>1. Identity(f) = "avif"
    BY <1>0, <1>1, SeenIsClaimed, IdentityBmff
  <2>2. QED
    BY <1>1, <2>1, AllInOrder, AllNames, IsOnTheWay
<1>2. CASE i = 7 /\ detect_brand(f, n, HEIC_BRANDS, HEIC_BRANDS)
  <2>1. Identity(f) \in {"avif", "heic"}
    BY <1>0, <1>2, SeenIsClaimed, IdentityBmff
  <2>2. "heic" \in OnTheWay("avif")
    BY DEF OnTheWay
  <2>3. QED
    BY <1>2, <2>1, <2>2, AllInOrder, AllNames, IsOnTheWay
<1>3. CASE i = 12 /\ f.major = "crx"
  <2>1. Identity(f) = "raw"
    BY <1>3, CrxClaimsNothing, IdentityBmff
  <2>2. QED
    BY <1>3, <2>1, AllInOrder, AllNames, IsOnTheWay
<1>4. QED
  BY <1>1, <1>2, <1>3, BmffSeen DEF FirstSeen

(* With the list in view it is what it is. *)
LEMMA BmffIsIdentified ==
  ASSUME NEW f, IsFile(f), f.kind = "bmff", WellFormed(f), NEW n \in Nat, EnoughIsKnown(f, n)
  PROVE  Identified(f, n)
<1> DEFINE Avif == ClaimsOne(f, {"avif", "avis"})
           Heic == ClaimsOne(f, HEIC_BRANDS)
<1>1. 16 + 4 * Len(f.slots) <= n /\ f.box_size # 1 /\ n >= 12
  BY DEF IsFile, EnoughIsKnown, WellFormed
<1>2. detect_brand(f, n, {"avif", "avis"}, {"avif", "avis"}) <=> Avif
  BY <1>1, SeenIsClaimed, ClaimedIsSeen
<1>3. detect_brand(f, n, HEIC_BRANDS, HEIC_BRANDS) <=> Heic
  <2>1. "mif1" \notin HEIC_BRANDS /\ "msf1" \notin HEIC_BRANDS
    BY DEF HEIC_BRANDS
  <2>2. QED
    BY <1>1, <2>1, SeenIsClaimed, ClaimedIsSeen
<1>4. \A i \in 1..21 : detect(ALL[i], f, n) <=>
        (i = 5 /\ Avif) \/ (i = 7 /\ Heic) \/ (i = 12 /\ f.major = "crx")
  BY <1>1, <1>2, <1>3, BmffSeen
<1>5. Identity(f) = IF Avif THEN "avif" ELSE IF Heic THEN "heic"
                    ELSE IF f.major = "crx" THEN "raw" ELSE None
  BY IdentityBmff
<1>6. ALL[5].name = "avif" /\ ALL[7].name = "heic" /\ ALL[12].name = "raw"
  BY AllInOrder, AllNames
<1> HIDE DEF Avif, Heic
<1>7. CASE Avif
  <2>1. FirstSeen(f, n, 5)
    BY <1>4, <1>7 DEF FirstSeen
  <2>2. QED
    BY <1>5, <1>6, <1>7, <2>1, FirstIdentifies
<1>8. CASE ~Avif /\ Heic
  <2>1. FirstSeen(f, n, 7)
    BY <1>4, <1>8 DEF FirstSeen
  <2>2. QED
    BY <1>5, <1>6, <1>8, <2>1, FirstIdentifies
<1>9. CASE ~Avif /\ ~Heic /\ f.major = "crx"
  <2>1. FirstSeen(f, n, 12)
    BY <1>4, <1>9 DEF FirstSeen
  <2>2. QED
    BY <1>5, <1>6, <1>9, <2>1, FirstIdentifies
<1>10. CASE ~Avif /\ ~Heic /\ f.major # "crx"
  BY <1>4, <1>5, <1>10 DEF Identified
<1>11. QED
  BY <1>7, <1>8, <1>9, <1>10

-----------------------------------------------------------------------------
(* TIFF: the tags of its directory                                           *)

TagsOf(f) == {f.tags[i] : i \in DOMAIN f.tags}

(* A TIFF is what its tags say, DNG first. *)
LEMMA IdentityTiff ==
  ASSUME NEW f, f.kind = "tiff"
  PROVE  Identity(f) = IF f.at8 = "APPLEDNG" \/ DNG_VERSION \in TagsOf(f) THEN "dng"
                       ELSE IF f.at8 = "CR" \/ SUB_IFDS \in TagsOf(f) THEN "raw" ELSE "tiff"
BY DEF Identity, TagsOf

(* Only DNG, RAW and TIFF look for a TIFF header. *)
LEMMA TiffSeen ==
  ASSUME NEW f, f.kind = "tiff", IsFile(f), NEW n, NEW i \in 1..21
  PROVE  detect(ALL[i], f, n) <=>
           \/ i = 11 /\ detect_dng(f, n)
           \/ i = 12 /\ detect_raw(f, n)
           \/ i = 13 /\ n >= 4
<1>1. ~f.footer
  BY DEF IsFile
<1>2. QED
  BY <1>1, DetectsAt DEF detect_avif, detect_heic, detect_brand, has_ftyp, is_tiff_header,
                         detect_cursor, detect_tga, detect_svg

(* A tag seen is there; *)
LEMMA SeenTagIsThere ==
  ASSUME NEW f, IsFile(f), f.kind = "tiff", NEW n, NEW tag, has_ifd0_tag(f, n, tag)
  PROVE  tag \in TagsOf(f)
<1>1. f.tags \in Seq(Nat)
  BY DEF IsFile
<1>2. DOMAIN f.tags = 1..Len(f.tags)
  BY <1>1
<1>3. QED
  BY <1>2, Zenon DEF has_ifd0_tag, TagsOf

(* one that is there is seen when the directory is in view, as tags are in order. *)
LEMMA TagInViewIsSeen ==
  ASSUME NEW f, IsFile(f), f.kind = "tiff", WellFormed(f), NEW n \in Nat, n >= 8,
         f.ifd_offset + 2 + 12 * Len(f.tags) <= n, NEW tag \in TagsOf(f)
  PROVE  has_ifd0_tag(f, n, tag)
<1>1. f.tags \in Seq(Nat) /\ f.ifd_offset \in Nat
  BY DEF IsFile
<1>2. DOMAIN f.tags = 1..Len(f.tags) /\ Len(f.tags) \in Nat
  BY <1>1
<1>3. PICK i \in 1..Len(f.tags) : f.tags[i] = tag
  BY <1>2, Zenon DEF TagsOf
<1>4. f.ifd_offset + 2 <= n /\ f.ifd_offset + 4 + 12 * (i - 1) <= n
  <2> DEFINE at == f.ifd_offset
             entries == Len(f.tags)
  <2>1. at \in Nat /\ entries \in Nat /\ i \in 1..entries /\ at + 2 + 12 * entries <= n
    BY <1>1, <1>2, <1>3
  <2> HIDE DEF at, entries
  <2>2. at + 2 <= n /\ at + 4 + 12 * (i - 1) <= n
    BY <2>1
  <2>3. QED
    BY <2>2 DEF at
<1>5. ASSUME NEW k \in 1..i PROVE f.tags[k] <= tag
  <2>1. k \in DOMAIN f.tags /\ i \in DOMAIN f.tags
    BY <1>2
  <2>2. f.tags[k] \in Nat /\ f.tags[i] \in Nat
    BY <1>1, <2>1
  <2>3. k < i => f.tags[k] < f.tags[i]
    BY <2>1 DEF WellFormed
  <2>4. QED
    BY <1>3, <2>2, <2>3
<1>6. QED
  BY <1>3, <1>4, <1>5, Zenon DEF has_ifd0_tag

(* While the directory arrives, a DNG may be taken for a RAW or a TIFF. *)
LEMMA TiffIsHonest ==
  ASSUME NEW f, IsFile(f), f.kind = "tiff", NEW n, NEW i, FirstSeen(f, n, i)
  PROVE  ALL[i].name \in OnTheWay(Identity(f))
<1>1. /\ "tiff" \in OnTheWay("dng") /\ "raw" \in OnTheWay("dng") /\ "tiff" \in OnTheWay("raw")
  BY DEF OnTheWay
<1>2. ALL[11].name = "dng" /\ ALL[12].name = "raw" /\ ALL[13].name = "tiff"
  BY AllInOrder, AllNames
<1>3. CASE i = 11 /\ detect_dng(f, n)
  <2>1. f.at8 = "APPLEDNG" \/ DNG_VERSION \in TagsOf(f)
    BY <1>3, SeenTagIsThere DEF detect_dng, apple_dng
  <2>2. QED
    BY <1>2, <1>3, <2>1, IdentityTiff, IsOnTheWay
<1>4. CASE i = 12 /\ detect_raw(f, n)
  <2>1. f.at8 = "CR" \/ SUB_IFDS \in TagsOf(f)
    BY <1>4, SeenTagIsThere DEF detect_raw, has_ftyp
  <2>2. Identity(f) \in {"dng", "raw"}
    BY <2>1, IdentityTiff
  <2>3. QED
    BY <1>1, <1>2, <1>4, <2>2, IsOnTheWay
<1>5. CASE i = 13
  <2>1. Identity(f) \in {"dng", "raw", "tiff"}
    BY IdentityTiff
  <2>2. QED
    BY <1>1, <1>2, <1>5, <2>1, IsOnTheWay
<1>6. QED
  BY <1>3, <1>4, <1>5, TiffSeen DEF FirstSeen

(* With the directory in view it is what it is. *)
LEMMA TiffIsIdentified ==
  ASSUME NEW f, IsFile(f), f.kind = "tiff", WellFormed(f), NEW n \in Nat, EnoughIsKnown(f, n)
  PROVE  Identified(f, n)
<1> DEFINE Dng == f.at8 = "APPLEDNG" \/ DNG_VERSION \in TagsOf(f)
           Raw == f.at8 = "CR" \/ SUB_IFDS \in TagsOf(f)
<1>0. f.size \in Nat /\ 16 <= f.size /\ f.ifd_offset + 2 + 12 * Len(f.tags) <= f.size
  BY DEF IsFile
<1>1. n >= 16 /\ f.ifd_offset + 2 + 12 * Len(f.tags) <= n
  BY <1>0 DEF EnoughIsKnown, RECOMMENDED_PROBE_BYTES
<1>2. \A tag : has_ifd0_tag(f, n, tag) <=> tag \in TagsOf(f)
  BY <1>1, SeenTagIsThere, TagInViewIsSeen
<1>3. is_tiff_header(f, n) /\ n >= 4 /\ (apple_dng(f, n) <=> f.at8 = "APPLEDNG")
  BY <1>1 DEF is_tiff_header, apple_dng
<1>4. detect_dng(f, n) <=> Dng
  BY <1>2, <1>3 DEF detect_dng
<1>5. ~Dng => (detect_raw(f, n) <=> Raw)
  BY <1>1, <1>2, <1>3 DEF detect_raw, has_ftyp
<1>6. Identity(f) = IF Dng THEN "dng" ELSE IF Raw THEN "raw" ELSE "tiff"
  BY IdentityTiff
<1>7. ALL[11].name = "dng" /\ ALL[12].name = "raw" /\ ALL[13].name = "tiff"
  BY AllInOrder, AllNames
<1> HIDE DEF Dng, Raw
<1>8. CASE Dng
  <2>1. FirstSeen(f, n, 11)
    BY <1>4, <1>8, TiffSeen DEF FirstSeen
  <2>2. QED
    BY <1>6, <1>7, <1>8, <2>1, FirstIdentifies
<1>9. CASE ~Dng /\ Raw
  <2>1. FirstSeen(f, n, 12)
    BY <1>4, <1>5, <1>9, TiffSeen DEF FirstSeen
  <2>2. QED
    BY <1>6, <1>7, <1>9, <2>1, FirstIdentifies
<1>10. CASE ~Dng /\ ~Raw
  <2>1. FirstSeen(f, n, 13)
    BY <1>3, <1>4, <1>5, <1>10, TiffSeen DEF FirstSeen
  <2>2. QED
    BY <1>6, <1>7, <1>10, <2>1, FirstIdentifies
<1>11. QED
  BY <1>8, <1>9, <1>10

-----------------------------------------------------------------------------
(* TGA and SVG                                                               *)

(* A TGA has a footer or a header. *)
LEMMA IdentityTga ==
  ASSUME NEW f, f.kind = "tga"
  PROVE  Identity(f) = IF f.footer \/ tga_header(f) THEN "tga" ELSE None
BY DEF Identity

(* But for a cursor's, only TGA looks for one. *)
LEMMA TgaSeen ==
  ASSUME NEW f, IsFile(f), f.kind = "tga", WellFormed(f), NEW n \in Nat, n <= f.size,
         NEW i \in 1..21
  PROVE  detect(ALL[i], f, n) <=>
           i = 20 /\ ((n >= 44 /\ f.footer /\ n = f.size) \/ (n >= 18 /\ tga_header(f)))
<1>1. ~detect_cursor(f, n)
  BY DEF WellFormed, detect_cursor, IsFile
<1>2. detect_tga(f, n) <=> (n >= 44 /\ f.footer /\ n = f.size) \/ (n >= 18 /\ tga_header(f))
  BY DEF detect_tga
<1>3. QED
  BY <1>1, <1>2, DetectsAt DEF detect_avif, detect_heic, detect_brand, has_ftyp, detect_dng,
                               detect_raw, is_tiff_header, detect_svg

(* What is seen of it is right, *)
LEMMA TgaIsHonest ==
  ASSUME NEW f, IsFile(f), f.kind = "tga", WellFormed(f), NEW n \in Nat, n <= f.size, NEW i,
         FirstSeen(f, n, i)
  PROVE  ALL[i].name \in OnTheWay(Identity(f))
<1>1. i = 20 /\ (f.footer \/ tga_header(f))
  BY TgaSeen DEF FirstSeen
<1>2. ALL[i].name = Identity(f)
  BY <1>1, IdentityTga, AllInOrder, AllNames
<1>3. QED
  BY <1>2, IsOnTheWay

(* and enough is seen of it. *)
LEMMA TgaIsIdentified ==
  ASSUME NEW f, IsFile(f), f.kind = "tga", WellFormed(f), NEW n \in Nat, n <= f.size,
         EnoughIsKnown(f, n)
  PROVE  Identified(f, n)
<1>0. f.size \in Nat /\ f.size >= 18 /\ (f.footer => f.size >= 44)
  BY DEF IsFile
<1>1. n >= 18 /\ (f.footer => n >= 44 /\ n = f.size)
  BY <1>0 DEF EnoughIsKnown, RECOMMENDED_PROBE_BYTES
<1>2. \A i \in 1..21 : detect(ALL[i], f, n) <=> i = 20 /\ (f.footer \/ tga_header(f))
  BY <1>1, TgaSeen
<1>3. CASE f.footer \/ tga_header(f)
  <2>1. FirstSeen(f, n, 20)
    BY <1>2, <1>3 DEF FirstSeen
  <2>2. QED
    BY <1>3, <2>1, IdentityTga, AllInOrder, AllNames, FirstIdentifies
<1>4. CASE ~(f.footer \/ tga_header(f))
  BY <1>2, <1>4, IdentityTga DEF Identified
<1>5. QED
  BY <1>3, <1>4

(* An SVG says so early. *)
LEMMA IdentitySvg ==
  ASSUME NEW f, f.kind = "svg"
  PROVE  Identity(f) = IF SvgEnd(f) <= 1024 THEN "svg" ELSE None
BY DEF Identity

(* It is seen when enough of it is searched. *)
LEMMA SvgSeen ==
  ASSUME NEW f, IsFile(f), f.kind = "svg", NEW n \in Nat, NEW i \in 1..21
  PROVE  detect(ALL[i], f, n) <=> i = 21 /\ SvgEnd(f) <= n /\ SvgEnd(f) <= 1024
<1>1. /\ ~f.footer /\ f.opening \in {"<svg", "<!doctype", "<?xml"}
      /\ f.opens_at \in Nat /\ f.svg_at \in Nat
      /\ f.opening = "<?xml" => f.opens_at + 5 <= f.svg_at
  BY DEF IsFile
<1>2. detect_svg(f, n) <=> SvgEnd(f) <= n /\ SvgEnd(f) <= 1024
  BY <1>1 DEF detect_svg, SvgEnd
<1>3. QED
  BY <1>1, <1>2, DetectsAt DEF detect_avif, detect_heic, detect_brand, has_ftyp, detect_dng,
                               detect_raw, is_tiff_header, detect_cursor, detect_tga

(* What is seen of it is right, *)
LEMMA SvgIsHonest ==
  ASSUME NEW f, IsFile(f), f.kind = "svg", NEW n \in Nat, NEW i, FirstSeen(f, n, i)
  PROVE  ALL[i].name \in OnTheWay(Identity(f))
<1>1. i = 21 /\ SvgEnd(f) <= 1024
  BY SvgSeen DEF FirstSeen
<1>2. ALL[i].name = Identity(f)
  BY <1>1, IdentitySvg, AllInOrder, AllNames
<1>3. QED
  BY <1>2, IsOnTheWay

(* and the recommended probe sees it. *)
LEMMA SvgIsIdentified ==
  ASSUME NEW f, IsFile(f), f.kind = "svg", NEW n \in Nat, EnoughIsKnown(f, n)
  PROVE  Identified(f, n)
<1>1. SvgEnd(f) \in Nat /\ f.size \in Nat /\ SvgEnd(f) <= f.size
  BY DEF IsFile, SvgEnd
<1>2. SvgEnd(f) <= 1024 => SvgEnd(f) <= n
  BY <1>1 DEF EnoughIsKnown, RECOMMENDED_PROBE_BYTES
<1>3. \A i \in 1..21 : detect(ALL[i], f, n) <=> i = 21 /\ SvgEnd(f) <= 1024
  BY <1>2, SvgSeen
<1>4. CASE SvgEnd(f) <= 1024
  <2>1. FirstSeen(f, n, 21)
    BY <1>3, <1>4 DEF FirstSeen
  <2>2. QED
    BY <1>4, <2>1, IdentitySvg, AllInOrder, AllNames, FirstIdentifies
<1>5. CASE ~(SvgEnd(f) <= 1024)
  BY <1>3, <1>5, IdentitySvg DEF Identified
<1>6. QED
  BY <1>4, <1>5

-----------------------------------------------------------------------------
(* The common registry                                                       *)

(* Of any kind of file, a prefix is taken for what may share it. *)
LEMMA Honest ==
  ASSUME NEW f, IsFile(f), WellFormed(f), NEW n \in Nat, n <= f.size, NEW i, FirstSeen(f, n, i)
  PROVE  ALL[i].name \in OnTheWay(Identity(f))
<1>1. f.kind \in {"plain", "bmff", "tiff", "tga", "svg"}
  BY DEF IsFile
<1>2. QED
  BY <1>1, PlainIsHonest, BmffIsHonest, TiffIsHonest, TgaIsHonest, SvgIsHonest

(* Of any kind of file, enough of it identifies it. *)
LEMMA EnoughIdentifies ==
  ASSUME NEW f, IsFile(f), WellFormed(f), NEW n \in Nat, n <= f.size, EnoughIsKnown(f, n)
  PROVE  Identified(f, n)
<1>1. f.kind \in {"plain", "bmff", "tiff", "tga", "svg"}
  BY DEF IsFile
<1>2. QED
  BY <1>1, PlainIsIdentified, BmffIsIdentified, TiffIsIdentified, TgaIsIdentified, SvgIsIdentified

(* It answers the first common definition that sees something, and one added *)
(* only where none of them does.                                             *)
LEMMA CommonVerdict ==
  ASSUME DetectionInv, Common, verdict = Detect(registry, file, probed)
  PROVE  \/ /\ \A i \in 1..21 : ~detect(ALL[i], file, probed)
            /\ verdict = None \/ IsAdded(verdict)
         \/ \E i \in 1..21 : FirstSeen(file, probed, i) /\ verdict = Builtin(ALL[i].name)
<1>1. IsRegistry(registry)
  BY DetectionAssumption DEF DetectionInv
<1>2. Len(registry) \in Nat /\ DOMAIN registry = 1..Len(registry)
  BY <1>1 DEF IsRegistry
<1>3. Len(registry) >= 21 /\ \A i \in 1..21 : registry[i] = ALL[i] /\ i \in DOMAIN registry
  BY <1>2, AllInOrder DEF Common
<1>4. CASE verdict = None /\ \A i \in DOMAIN registry : ~detect(registry[i], file, probed)
  BY <1>3, <1>4
<1>5. ASSUME NEW i \in DOMAIN registry, detect(registry[i], file, probed),
             \A k \in 1..i-1 : ~detect(registry[k], file, probed),
             verdict = to_image_format(registry[i])
      PROVE  \/ /\ \A k \in 1..21 : ~detect(ALL[k], file, probed)
                /\ IsAdded(verdict)
             \/ \E k \in 1..21 : FirstSeen(file, probed, k) /\ verdict = Builtin(ALL[k].name)
  <2>1. CASE i \in 1..21
    <3>1. ASSUME NEW k \in 1..i-1 PROVE ~detect(ALL[k], file, probed)
      <4>1. k \in 1..21
        BY <2>1
      <4>2. registry[k] = ALL[k]
        BY <1>3, <4>1
      <4>3. QED
        BY <1>5, <4>2
    <3>2. detect(ALL[i], file, probed) /\ verdict = Builtin(ALL[i].name)
      BY <1>3, <1>5, <2>1, AllFormats
    <3>3. FirstSeen(file, probed, i)
      BY <2>1, <3>1, <3>2 DEF FirstSeen
    <3>4. QED
      BY <2>1, <3>2, <3>3
  <2>2. CASE i \notin 1..21
    <3>1. ASSUME NEW k \in 1..21 PROVE ~detect(ALL[k], file, probed)
      <4>0. i \in Nat /\ i >= 1
        BY <1>2
      <4>1. k \in 1..i-1
        BY <2>2, <4>0
      <4>2. registry[k] = ALL[k]
        BY <1>3
      <4>3. QED
        BY <1>5, <4>1, <4>2
    <3>2. i \in Added
      BY <1>5, <3>1, AddedOrBuiltin
    <3>3. IsAdded(verdict)
      BY <1>5, <3>2 DEF IsAdded
    <3>4. QED
      BY <3>1, <3>3
  <2>3. QED
    BY <2>1, <2>2
<1>6. \/ verdict = None /\ \A i \in DOMAIN registry : ~detect(registry[i], file, probed)
      \/ \E i \in DOMAIN registry :
           /\ detect(registry[i], file, probed)
           /\ \A k \in 1..i-1 : ~detect(registry[k], file, probed)
           /\ verdict = to_image_format(registry[i])
  BY <1>1, Detected
<1>7. QED
  BY <1>4, <1>5, <1>6

(* What the invariant says of a probe. *)
LEMMA FileProbed ==
  ASSUME DetectionInv, file # None
  PROVE  /\ IsFile(file) /\ probed \in Nat /\ file.size \in Nat \ {0} /\ probed <= file.size
         /\ (probed = 0 /\ verdict = None) \/ verdict = Detect(registry, file, probed)
<1>1. file \in Files /\ IsFile(file)
  BY DetectionAssumption DEF DetectionInv, ProbedSoFar
<1>2. file.size \in Nat \ {0}
  BY <1>1 DEF IsFile
<1>3. QED
  BY <1>1, <1>2 DEF DetectionInv, ProbedSoFar

(* The invariant implies that prefixes are honest, *)
LEMMA PrefixHonest == DetectionInv => PrefixIsHonest
<1> SUFFICES ASSUME DetectionInv, file # None, Common, WellFormed(file)
             PROVE  \/ verdict = None \/ IsAdded(verdict)
                    \/ verdict.variant \in OnTheWay(Identity(file))
  BY DEF PrefixIsHonest
<1>1. CASE verdict = None
  BY <1>1
<1>2. CASE verdict = Detect(registry, file, probed)
  <2>1. ASSUME NEW i \in 1..21, FirstSeen(file, probed, i), verdict = Builtin(ALL[i].name)
        PROVE  verdict.variant \in OnTheWay(Identity(file))
    <3>1. ALL[i].name \in OnTheWay(Identity(file))
      BY <2>1, FileProbed, Honest
    <3>2. verdict.variant = ALL[i].name
      BY <2>1 DEF Builtin
    <3>3. QED
      BY <3>1, <3>2
  <2>2. QED
    BY <1>2, <2>1, CommonVerdict
<1>3. QED
  BY <1>1, <1>2, FileProbed

(* and that files are identified. *)
LEMMA WholeIdentified == DetectionInv => WholeFileIsIdentified
<1> SUFFICES ASSUME DetectionInv, file # None, Common, WellFormed(file), EnoughIsKnown(file, probed)
             PROVE  IF Identity(file) = None THEN verdict = None \/ IsAdded(verdict)
                    ELSE verdict = Builtin(Identity(file))
  BY DEF WholeFileIsIdentified
<1>1. probed # 0
  BY FileProbed DEF EnoughIsKnown, RECOMMENDED_PROBE_BYTES
<1>2. verdict = Detect(registry, file, probed)
  BY <1>1, FileProbed
<1>3. Identified(file, probed)
  BY FileProbed, EnoughIdentifies
<1>4. CASE Identity(file) = None /\ \A i \in 1..21 : ~detect(ALL[i], file, probed)
  BY <1>2, <1>4, CommonVerdict DEF FirstSeen
<1>5. ASSUME NEW i \in 1..21, FirstSeen(file, probed, i), ALL[i].name = Identity(file)
      PROVE  Identity(file) # None /\ verdict = Builtin(Identity(file))
  <2>1. ALL[i].name # None
    BY DetectionAssumption, AllInOrder
  <2>2. detect(ALL[i], file, probed)
    BY <1>5 DEF FirstSeen
  <2>3. PICK k \in 1..21 : FirstSeen(file, probed, k) /\ verdict = Builtin(ALL[k].name)
    BY <1>2, <2>2, CommonVerdict
  <2>4. k = i
    BY <1>5, <2>3, OnlyFirst
  <2>5. QED
    BY <1>5, <2>1, <2>3, <2>4
<1>6. QED
  BY <1>3, <1>4, <1>5 DEF Identified

(* By a prefix, the common registry takes a well-formed file for nothing, for *)
(* what it is, for a format that shares its beginning or for one added.       *)
THEOREM PrefixesAreHonest == DetectionSpec => []PrefixIsHonest
BY DetectionInvariant, PrefixHonest, PTL

(* With the whole file or the recommended probe, it answers what the file is. *)
THEOREM FilesAreIdentified == DetectionSpec => []WholeFileIsIdentified
BY DetectionInvariant, WholeIdentified, PTL
=============================================================================
