--------------------------- MODULE DecodePipeline ----------------------------
(***************************************************************************)
(* A decode from the dyn job to the pixels: a caller configures a boxed     *)
(* DynDecodeJob, turns it into one of the four executors, and receives      *)
(* pixels.  DynJobShim is the job's shell, SinkCopy the copy of a push      *)
(* decode; the codec between them is the reference codec of                 *)
(* src/tests/mock_anim/mod.rs (MockDecodeJob, MockDec, MockStreamDec).      *)
(* Another thread may cancel the job's stop token at any moment.  What an   *)
(* animation decoder does once it exists is AnimationDecode.                *)
(***************************************************************************)
EXTENDS DynJobShim, SinkCopy

ASSUME PipelineAssumption ==
  /\ {"stop", "limits", "start_frame"} \subseteq Supported  (* by MockDecodeJob *)
  /\ Values \subseteq Nat           (* rows, a frame index, one token's name  *)
  /\ Pictures = {0}                (* only frame 0 is decoded on these paths  *)

VARIABLES header_ok,               (* parse_mock_header accepts the data      *)
          height,                  (* rows of the image                       *)
          complete,                (* rows whose bytes are all there          *)
          cancelled,               (* the stop token                          *)
          path,                    (* the into_* method used                  *)
          late,                    (* history: cancelled before that call     *)
          current_row,             (* of MockStreamDec                        *)
          received,                (* history: y of the rows next_batch yielded *)
          current_frame            (* of a new MockAnimationFrameDec          *)

file == <<header_ok, height, complete>>
streamVars == <<current_row, received>>
vars == <<shimVars, copyVars, file, cancelled, path, late, streamVars, current_frame>>

Paths == {"decoder", "push", "streaming", "animation"}

Outcomes == {"none", "running", "ready", "ok", "end", "invalid", "limit", "stopped",
             "truncated", "double_take", "sink_error", "panic"}

TypeOK ==
  /\ ShimTypeOK
  /\ CopyTypeOK
  /\ pc \in {"idle", "header", "limits", "stop", "decode"} \cup CopySteps
  /\ outcome \in Outcomes
  /\ header_ok \in BOOLEAN
  /\ height \in Heights
  /\ complete \in 0..height
  /\ cancelled \in BOOLEAN
  /\ path \in Paths \cup {"none"}
  /\ late \in BOOLEAN
  /\ current_row \in Nat
  /\ received \in Seq(Nat)
  /\ current_frame \in Nat

Init ==
  /\ ShimInit
  /\ pc = "idle"
  /\ outcome = "none"
  /\ header_ok \in BOOLEAN
  /\ height \in Heights
  /\ complete \in 0..height
  /\ CopyInit(0, height)
  /\ cancelled = FALSE
  /\ path = "none"
  /\ late = FALSE
  /\ current_row = 0
  /\ received = <<>>
  /\ current_frame = 0

(* The caller configures and inspects the job it holds. *)
Configure ==
  /\ SetSome \/ Inspect
  /\ UNCHANGED <<copyVars, file, cancelled, path, late, streamVars, current_frame>>

(* Another thread cancels the token the job may have been given. *)
Cancel ==
  /\ ~cancelled
  /\ cancelled' = TRUE
  /\ UNCHANGED <<shimVars, copyVars, file, path, late, streamVars, current_frame>>

(* into_decoder, push_decode, into_streaming_decoder,                       *)
(* into_animation_frame_decoder: take the job, then the codec's method.     *)
Enter(p) ==
  /\ Into
  /\ path' = p
  /\ late' = cancelled
  /\ IF slot = NoJob
     THEN Return("double_take")
     ELSE pc' = "header" /\ outcome' = "running"
  /\ UNCHANGED <<pic, rows, row, sink, file, cancelled, streamVars, current_frame>>

(* let (w, h, ..) = parse_mock_header(&data)?;  *)
ParseHeader ==
  /\ pc = "header"
  /\ IF header_ok THEN pc' = "limits" /\ UNCHANGED outcome ELSE Return("invalid")
  /\ UNCHANGED <<shimVars, pic, rows, row, sink, file, cancelled, path, late,
                 streamVars, current_frame>>

WithinLimits == job["limits"] # Unset => height <= job["limits"]

(* self.limits.check_dimensions(w, h)?; a streaming or animation decoder is *)
(* then built, at its first row or at the start frame.                      *)
CheckLimits ==
  /\ pc = "limits"
  /\ \/ ~WithinLimits /\ Return("limit") /\ UNCHANGED <<current_row, current_frame>>
     \/ /\ WithinLimits
        /\ path \in {"decoder", "push"}
        /\ pc' = "stop"
        /\ UNCHANGED <<outcome, current_row, current_frame>>
     \/ /\ WithinLimits
        /\ path = "streaming"
        /\ Return("ready")
        /\ current_row' = 0
        /\ UNCHANGED current_frame
     \/ /\ WithinLimits
        /\ path = "animation"
        /\ Return("ready")
        /\ current_frame' = IF job["start_frame"] = Unset THEN 0 ELSE job["start_frame"]
        /\ UNCHANGED current_row
  /\ UNCHANGED <<shimVars, pic, rows, row, sink, file, cancelled, path, late, received>>

(* Mutant of CheckStop: a push decode does not ask. *)
CheckStopOneShotOnly ==
  /\ pc = "stop"
  /\ IF path = "decoder" /\ job["stop"] # Unset /\ cancelled
     THEN Return("stopped")
     ELSE IF path = "push"
          THEN pc' = "decode" /\ UNCHANGED outcome
          ELSE Return("ready")
  /\ UNCHANGED <<shimVars, pic, rows, row, sink, file, cancelled, path, late,
                 streamVars, current_frame>>

(* if let Some(ref stop) = self.stop { stop.check()?; }, only in decoder(). *)
CheckStop ==
  /\ pc = "stop"
  /\ IF job["stop"] # Unset /\ cancelled
     THEN Return("stopped")
     ELSE IF path = "push"
          THEN pc' = "decode" /\ UNCHANGED outcome
          ELSE Return("ready")
  /\ UNCHANGED <<shimVars, pic, rows, row, sink, file, cancelled, path, late,
                 streamVars, current_frame>>

(* The caller calls decode() on the one-shot decoder, consuming it. *)
CallDecode ==
  /\ path = "decoder"
  /\ outcome = "ready"
  /\ pc' = "decode"
  /\ outcome' = "running"
  /\ UNCHANGED <<shimVars, pic, rows, row, sink, file, cancelled, path, late,
                 streamVars, current_frame>>

(* MockDec::decode: all rows of frame 0, or an error; a push decode then    *)
(* copies them to the sink.                                                 *)
Decode ==
  /\ pc = "decode"
  /\ IF complete < height
     THEN Return("truncated") /\ UNCHANGED <<pic, rows, row, sink>>
     ELSE IF path = "push"
          THEN StartCopy(0, height)
          ELSE Return("ok") /\ UNCHANGED <<pic, rows, row, sink>>
  /\ UNCHANGED <<shimVars, file, cancelled, path, late, streamVars, current_frame>>

(* The rest of copy_decode_to_sink. *)
ToSink ==
  /\ CopyStep
  /\ UNCHANGED <<shimVars, file, cancelled, path, late, streamVars, current_frame>>

(* Mutant of NextBatch: missing bytes look like the end. *)
NextBatchTruncatedIsEnd ==
  /\ path = "streaming"
  /\ outcome \in {"ready", "end"}
  /\ \/ current_row >= complete /\ outcome' = "end" /\ UNCHANGED streamVars
     \/ /\ current_row < complete
        /\ outcome' = "ready"
        /\ received' = Append(received, current_row)
        /\ current_row' = current_row + 1
  /\ UNCHANGED <<shimVars, pc, pic, rows, row, sink, file, cancelled, path, late,
                 current_frame>>

(* MockStreamDec::next_batch: one row, the end, or missing bytes. *)
NextBatch ==
  /\ path = "streaming"
  /\ outcome \in {"ready", "end", "truncated"}
  /\ \/ current_row >= height /\ outcome' = "end" /\ UNCHANGED streamVars
     \/ /\ current_row < height
        /\ current_row >= complete
        /\ outcome' = "truncated"
        /\ UNCHANGED streamVars
     \/ /\ current_row < height
        /\ current_row < complete
        /\ outcome' = "ready"
        /\ received' = Append(received, current_row)
        /\ current_row' = current_row + 1
  /\ UNCHANGED <<shimVars, pc, pic, rows, row, sink, file, cancelled, path, late,
                 current_frame>>

Codec == ParseHeader \/ CheckLimits \/ CheckStop \/ Decode \/ ToSink

Next ==
  \/ Configure
  \/ Cancel
  \/ \E p \in Paths : Enter(p)
  \/ CallDecode
  \/ Codec
  \/ NextBatch

Spec == Init /\ [][Next]_vars

(* The codec is synchronous: a call that has begun goes on.  A streaming     *)
(* caller keeps asking for rows.                                            *)
FairSpec == Spec /\ WF_vars(Codec) /\ WF_vars(NextBatch)

-----------------------------------------------------------------------------
(* Pixels have left the decoder, or a decoder that will yield them exists. *)
Produced ==
  \/ sink.phase # "idle"
  \/ received # <<>>
  \/ path = "decoder" /\ outcome = "ok"
  \/ path = "animation" /\ outcome = "ready"

(* On every path, whatever the order of the setters and wherever one of     *)
(* them panicked: no pixel without a valid header and within the limits     *)
(* the caller last set on the dyn job.                                      *)
LimitsHold ==
  Produced => /\ header_ok
              /\ requested["limits"] # Unset => height <= requested["limits"]

(* A one-shot or push decode asked for after the job's token was cancelled  *)
(* produces nothing.                                                        *)
CancelledBeforehand ==
  late /\ requested["stop"] # Unset /\ path \in {"decoder", "push"} => ~Produced

(* A streaming decode yields the rows 0, 1, 2, .. without gap or repeat, up  *)
(* to where the data breaks off, and says it is over only after all of them. *)
RowsInOrder ==
  /\ received = [i \in 1..current_row |-> i - 1]
  /\ path = "streaming" /\ outcome = "end" => current_row = height
  /\ path = "streaming" /\ outcome = "truncated" => current_row = complete

(* The sink is bothered only for an image that decodes, the push decode     *)
(* answers Ok exactly when the sink was finished, and by then every row of  *)
(* its buffer is the picture's.                                             *)
PushAnswersTruly ==
  /\ sink.phase # "idle" => path = "push" /\ complete = height
  /\ path = "push" => (outcome = "ok" <=> sink.phase = "done")
  /\ sink.phase = "done" => sink.buf = [i \in 1..height |-> 0]

(* The sink sees one well-formed session. *)
SinkProtocol == Session!SinkSpec

(* Every into_* and decode call returns, and a caller that keeps asking a   *)
(* streaming decoder for rows reaches its end or the missing bytes.         *)
CallsReturn ==
  /\ pc # "idle" ~> pc = "idle"
  /\ path = "streaming" /\ outcome = "ready" ~> outcome \in {"end", "truncated"}
=============================================================================
