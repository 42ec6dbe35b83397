------------------------------ MODULE Dispatch -------------------------------
(***************************************************************************)
(* A caller that knows no codec by name turns a file of one into a file of    *)
(* another, through the object-safe traits (src/src/traits): it tries the     *)
(* ways of its plan, and from the cause it finds in a boxed error it tells    *)
(* whether to try the next one.  What a codec does not support is answered    *)
(* by the traits' default methods, the unit animation encoder, or the codec's *)
(* job.  The codecs are such as those under src/tests: a codec is what it     *)
(* supports, the error types it wraps around a cause (outermost first), and   *)
(* for a decoder whether a sink's error stays its source.                     *)
(***************************************************************************)
EXTENDS Integers, ErrorChain, Capabilities

CONSTANTS Decoders, Encoders,      (* codecs                                  *)
          Plans,                   (* the ways a caller goes, in this order   *)
          Heights                  (* of the image                            *)

Ways == {"rows",                   (* next_batch and push_rows in turns       *)
         "sink",                   (* push_decode, the sink calls push_rows   *)
         "pull",                   (* encode_from, its source calls next_batch *)
         "frames",                 (* animation decoder to animation encoder  *)
         "frame_sink",             (* its frame to a sink that calls push_rows *)
         "whole"}                  (* decode, then encode                     *)

(* The types a codec's error has around the cause: its own, and at least one. *)
IsCodecError(error) ==
  /\ error \in Seq(STRING) /\ error # <<>>
  /\ \A i \in DOMAIN error : error[i] \notin {"UnsupportedOperation", "LimitExceeded"}

ASSUME DispatchAssumption ==
  /\ \A d \in Decoders : d.caps \subseteq DecodeFlags /\ d.sink \in {"source", "text"}
  /\ \A e \in Encoders : e.caps \subseteq EncodeFlags /\ e.unit \in BOOLEAN
  /\ \A codec \in Decoders \cup Encoders : IsCodecError(codec.error)
  /\ \A p \in Plans : p \in Seq(Ways) /\ p # <<>> /\ Last(p) = "whole"
  /\ Heights \subseteq Nat \ {0}
  /\ None \notin UnsupportedOperation \cup {"height"}

VARIABLES decoder, encoder,        (* the two configs                         *)
          height, complete, fits,  (* the file: rows, rows whose bytes are    *)
                                   (* there, whether it is within the limits  *)
          plan,                    (* ways left, the first one being gone     *)
          decoding, encoding,      (* what the caller holds of either side    *)
          next_row,                (* of the streaming decoder                *)
          pixels,                  (* rows in the caller's hands              *)
          taken,                   (* rows the encoder has taken in           *)
          answer,                  (* the error of the last call, or Ok       *)
          output                   (* rows of the file written, or None       *)

given == <<decoder, encoder, height, complete, fits>>
vars == <<given, plan, decoding, encoding, next_row, pixels, taken, answer, output>>

way == Head(plan)
Rows == [i \in 1..height |-> i]
Going == answer = Ok /\ output = None

-----------------------------------------------------------------------------
(* What the codecs answer, Ok or an error.                                    *)

(* A codec's error type around a cause; without one it is, say, InvalidData.   *)
Wrapped(codec, cause) == [i \in DOMAIN codec.error |-> Link(codec.error[i], None)] \o cause

(* Encoder::reject *)
reject(codec, op) == Wrapped(codec, <<Link("UnsupportedOperation", op)>>)

(* What encode traits answer by default if the codec does not override them.   *)
push_rows(codec) == IF "push_rows" \in codec.caps THEN Ok ELSE reject(codec, "RowLevelEncode")
finish(codec) == IF "push_rows" \in codec.caps THEN Ok ELSE reject(codec, "RowLevelEncode")

(* Mutant of encode_from: the wrong operation is named. *)
encode_from_copied(codec) ==
  IF "encode_from" \in codec.caps THEN Ok ELSE reject(codec, "RowLevelEncode")

encode_from(codec) == IF "encode_from" \in codec.caps THEN Ok ELSE reject(codec, "PullEncode")

(* A codec without animation answers, or hands out the unit encoder, whose     *)
(* error is the operation itself.                                             *)
animation_frame_encoder(codec) ==
  IF "animation" \in codec.caps \/ codec.unit THEN Ok ELSE reject(codec, "AnimationEncode")

push_frame(codec) ==
  IF "animation" \in codec.caps THEN Ok ELSE <<Link("UnsupportedOperation", "AnimationEncode")>>

(* check_dimensions with #[from] or From *)
WithinLimits(codec) == IF fits THEN Ok ELSE Wrapped(codec, <<Link("LimitExceeded", "height")>>)

streaming_decoder(codec) ==
  IF "streaming" \in codec.caps THEN WithinLimits(codec) ELSE reject(codec, "RowLevelDecode")

animation_frame_decoder(codec) ==
  IF "animation" \in codec.caps THEN WithinLimits(codec) ELSE reject(codec, "AnimationDecode")

(* The rows there are, or InvalidData.                                        *)
Decoded(codec) == IF complete < height THEN Wrapped(codec, Ok) ELSE Ok

(* The codec's wrap_sink_error: the sink's error is its source, or its text is *)
(* kept.                                                                      *)
wrap_sink_error(codec, err) == Wrapped(codec, IF codec.sink = "source" THEN err ELSE Ok)

(* copy_frame_to_sink; the sink pushes the rows on.                            *)
CopyToSink(codec, target) ==
  IF Decoded(codec) # Ok THEN Decoded(codec)
  ELSE IF push_rows(target) # Ok THEN wrap_sink_error(codec, boxed(push_rows(target)))
  ELSE Ok

(* copy_decode_to_sink, of a decoder that may not come about.                  *)
push_decoder(codec, target) ==
  IF WithinLimits(codec) # Ok THEN WithinLimits(codec) ELSE CopyToSink(codec, target)

-----------------------------------------------------------------------------
(* What the caller does.                                                       *)

Init ==
  /\ decoder \in Decoders /\ encoder \in Encoders
  /\ height \in Heights /\ complete \in 0..height /\ fits \in BOOLEAN
  /\ plan \in Plans
  /\ decoding = "config" /\ encoding = "config"
  /\ next_row = 1 /\ pixels = <<>> /\ taken = <<>>
  /\ answer = Ok /\ output = None

(* dyn_job(): of a clone, the config stays.                                    *)
dyn_job ==
  /\ Going /\ decoding = "config"
  /\ decoding' = "job"
  /\ encoding' = IF encoding = "config" THEN "job" ELSE encoding
  /\ UNCHANGED <<given, plan, next_row, pixels, taken, answer, output>>

(* An into_* method consumes the job, and answers with an executor or an error. *)
IntoDecoding(executor, result) ==
  /\ Going /\ decoding = "job"
  /\ answer' = boxed(result)
  /\ decoding' = IF result = Ok THEN executor ELSE "consumed"
  /\ UNCHANGED <<given, plan, encoding, next_row, pixels, taken, output>>

IntoEncoding(executor, result) ==
  /\ Going /\ encoding = "job"
  /\ answer' = boxed(result)
  /\ encoding' = IF result = Ok THEN executor ELSE "consumed"
  /\ UNCHANGED <<given, plan, decoding, next_row, pixels, taken, output>>

into_decoder == way = "whole" /\ IntoDecoding("decoder", WithinLimits(decoder))

into_streaming_decoder ==
  way \in {"rows", "pull"} /\ IntoDecoding("stream", streaming_decoder(decoder))

into_animation_frame_decoder ==
  way \in {"frames", "frame_sink"} /\ IntoDecoding("frames", animation_frame_decoder(decoder))

into_encoder == way # "frames" /\ IntoEncoding("encoder", Ok)

into_animation_frame_encoder ==
  way = "frames" /\ IntoEncoding("frames", animation_frame_encoder(encoder))

(* decode(self), render_next_frame_owned of the only frame: all rows at once.   *)
DecodeAll(executor) ==
  /\ Going /\ decoding = executor
  /\ answer' = boxed(Decoded(decoder))
  /\ pixels' = IF Decoded(decoder) = Ok THEN Rows ELSE <<>>
  /\ decoding' = "consumed"
  /\ UNCHANGED <<given, plan, encoding, next_row, taken, output>>

decode == DecodeAll("decoder")
render_next_frame_owned == way = "frames" /\ DecodeAll("frames")

(* Mutant of next_batch: where bytes are missing the image seems to end. *)
next_batch_ends_early ==
  IF next_row > complete THEN [row |-> <<>>, err |-> Ok] ELSE [row |-> <<next_row>>, err |-> Ok]

(* The next row, none after the last, or an error where bytes are missing.      *)
next_batch ==
  IF next_row > height THEN [row |-> <<>>, err |-> Ok]
  ELSE IF next_row > complete THEN [row |-> <<>>, err |-> Wrapped(decoder, Ok)]
  ELSE [row |-> <<next_row>>, err |-> Ok]

(* The caller asks the streaming decoder.                                       *)
NextBatch ==
  /\ Going /\ way = "rows" /\ decoding = "stream" /\ pixels = <<>>
  /\ pixels' = next_batch.row
  /\ answer' = boxed(next_batch.err)
  /\ next_row' = next_row + Len(next_batch.row)
  /\ decoding' = IF next_batch.row = <<>> THEN "consumed" ELSE "stream"
  /\ UNCHANGED <<given, plan, encoding, taken, output>>

(* push_rows(&mut self): after a rejection the encoder is still there.           *)
PushRows ==
  /\ Going /\ way = "rows" /\ encoding = "encoder" /\ pixels # <<>>
  /\ answer' = boxed(push_rows(encoder))
  /\ taken' = IF push_rows(encoder) = Ok THEN taken \o pixels ELSE taken
  /\ pixels' = <<>>
  /\ UNCHANGED <<given, plan, decoding, encoding, next_row, output>>

(* A sink that pushes what it gets into the encoder.                             *)
IntoSink(executor, result) ==
  /\ Going /\ decoding = executor /\ encoding = "encoder"
  /\ answer' = boxed(result)
  /\ taken' = IF result = Ok THEN Rows ELSE taken
  /\ decoding' = "consumed"
  /\ UNCHANGED <<given, plan, encoding, next_row, pixels, output>>

PushDecode == way = "sink" /\ IntoSink("job", push_decoder(decoder, encoder))

render_next_frame_to_sink ==
  way = "frame_sink" /\ IntoSink("frames", CopyToSink(decoder, encoder))

(* A method that takes the encoder by value writes the rows, or answers.         *)
Write(rows, result) ==
  /\ answer' = boxed(result)
  /\ output' = IF result = Ok THEN rows ELSE None
  /\ encoding' = "consumed"
  /\ UNCHANGED <<given, plan, decoding, next_row, pixels, taken>>

(* finish(), when the decoder has no more.                                       *)
Finish ==
  /\ Going /\ way \in {"rows", "sink", "frame_sink"} /\ decoding = "consumed" /\ pixels = <<>>
  /\ encoding = "encoder"
  /\ Write(taken, finish(encoder))

(* encode(), or encode_srgba8() which does the same with bytes.                  *)
Encode ==
  /\ Going /\ way = "whole" /\ encoding = "encoder" /\ pixels # <<>>
  /\ Write(pixels, Ok)

(* encode_from(): rejected, or the encoder begins to pull.                       *)
EncodeFrom ==
  /\ Going /\ way = "pull" /\ encoding = "encoder" /\ decoding = "stream"
  /\ answer' = boxed(encode_from(encoder))
  /\ encoding' = IF encode_from(encoder) = Ok THEN "pulling" ELSE "consumed"
  /\ taken' = <<>>
  /\ UNCHANGED <<given, plan, decoding, next_row, pixels, output>>

(* The encoder calls the source.  It has no way to answer with an error: it says *)
(* 0 and keeps the error for the caller, who throws the short output away.        *)
Pull ==
  /\ Going /\ encoding = "pulling"
  /\ IF next_batch.row # <<>>
     THEN /\ taken' = taken \o next_batch.row
          /\ next_row' = next_row + 1
          /\ UNCHANGED <<given, plan, decoding, encoding, pixels, answer, output>>
     ELSE Write(taken, next_batch.err)

(* push_frame() and finish() of the animation encoder.                           *)
PushFrame ==
  /\ Going /\ encoding = "frames" /\ pixels # <<>>
  /\ answer' = boxed(push_frame(encoder))
  /\ taken' = IF push_frame(encoder) = Ok THEN pixels ELSE taken
  /\ pixels' = <<>>
  /\ UNCHANGED <<given, plan, decoding, encoding, next_row, output>>

FinishFrames ==
  /\ Going /\ encoding = "frames" /\ decoding = "consumed" /\ pixels = <<>>
  /\ Write(taken, push_frame(encoder))

(* The next way, from the configs and the file, on with the encoder if there      *)
(* still is one.                                                                  *)
NextWay ==
  /\ plan' = Tail(plan)
  /\ decoding' = "config"
  /\ encoding' \in {"config"} \cup ({"encoder"} \cap (IF way' = "frames" THEN {} ELSE {encoding}))
  /\ next_row' = 1 /\ pixels' = <<>> /\ taken' = <<>> /\ answer' = Ok
  /\ UNCHANGED <<given, output>>

(* An error that says "not supported" is no reason to give up.                    *)
FallBack ==
  /\ unsupported_operation(answer) # None
  /\ Len(plan) > 1
  /\ NextWay

(* The operations of a way.                                                       *)
Needs ==
  [rows   |-> [decode |-> {"RowLevelDecode"}, encode |-> {"RowLevelEncode"}],
   sink   |-> [decode |-> {}, encode |-> {"RowLevelEncode"}],
   pull   |-> [decode |-> {"RowLevelDecode"}, encode |-> {"PullEncode"}],
   frames |-> [decode |-> {"AnimationDecode"}, encode |-> {"AnimationEncode"}],
   frame_sink |-> [decode |-> {"AnimationDecode"}, encode |-> {"RowLevelEncode"}],
   whole  |-> [decode |-> {}, encode |-> {}]]

(* A caller that asks before it calls: capabilities().supports(op).               *)
Skip ==
  /\ Going /\ decoding = "config" /\ encoding = "config"
  /\ \/ \E op \in Needs[way].decode : ~decode_supports(decoder.caps, op)
     \/ \E op \in Needs[way].encode : ~encode_supports(encoder.caps, op)
  /\ NextWay

Into ==
  \/ into_decoder \/ into_streaming_decoder \/ into_animation_frame_decoder
  \/ into_encoder \/ into_animation_frame_encoder

Next ==
  \/ dyn_job \/ Into
  \/ decode \/ render_next_frame_owned \/ render_next_frame_to_sink \/ NextBatch \/ PushDecode
  \/ PushRows \/ Finish \/ Encode \/ EncodeFrom \/ Pull \/ PushFrame \/ FinishFrames
  \/ FallBack \/ Skip

(* A caller that can go on does.                                                  *)
Spec == Init /\ [][Next]_vars /\ WF_vars(Next)

-----------------------------------------------------------------------------
TypeOK ==
  /\ decoding \in {"config", "job", "decoder", "stream", "frames", "consumed"}
  /\ encoding \in {"config", "job", "encoder", "frames", "pulling", "consumed"}
  /\ next_row \in 1..height + 1
  /\ plan # <<>>
  /\ \A rows \in {pixels, taken} : rows \in Seq(1..height)

(* A codec that keeps of a sink's error only the text hides what the sink met.    *)
Flattened ==
  /\ decoder.sink = "text" /\ way \in {"sink", "frame_sink"}
  /\ ~encode_supports(encoder.caps, "RowLevelEncode")

(* Through two codecs, a sink between them, and whatever types their errors wrap  *)
(* around it, the caller finds in a boxed error what really happened: an operation *)
(* is named that its codec indeed says it does not support, a limit only if it is  *)
(* exceeded, and neither only for a file that is broken.                          *)
ErrorTellsCause ==
  answer # Ok =>
    LET op == unsupported_operation(answer)
        limit == limit_exceeded(answer)
    IN /\ op # None => /\ op \in UnsupportedOperation /\ limit = None
                       /\ op \in DecodeOperations => ~decode_supports(decoder.caps, op)
                       /\ op \in EncodeOperations => ~encode_supports(encoder.caps, op)
       /\ limit # None => ~fits
       /\ op = None /\ limit = None => complete < height \/ Flattened

(* However many ways failed before and what they left in an encoder that stayed,  *)
(* a file is written only of a whole image within the limits, each row once.      *)
OutputIsWhole == output # None => fits /\ complete = height /\ output = Rows

(* Whatever two codecs do not support, a caller whose plan ends in decode() and    *)
(* encode() gets its file, or the cause why there is none.                        *)
CallerIsServed ==
  <>(output # None \/ (answer # Ok /\ (~fits \/ complete < height \/ Flattened)))
=============================================================================
