--------------------------- MODULE AnimationDecode ---------------------------
(***************************************************************************)
(* An AnimationFrameDecoder driven frame by frame: the reference codec's    *)
(* MockAnimationFrameDec (src/tests/mock_anim/mod.rs) with its two ways of  *)
(* handing a frame over, render_next_frame (and the default                 *)
(* render_next_frame_owned, which only copies what it returns) and          *)
(* render_next_frame_to_sink = helpers::copy_frame_to_sink.  Three parties  *)
(* act: the caller, who may call again after any result, with or without    *)
(* a stop token; whoever holds the token and cancels it from another        *)
(* thread; and the sink, which may refuse any call.                         *)
(***************************************************************************)
EXTENDS SinkCopy

CONSTANTS MaxFrames,               (* bound: frames the header may declare   *)
          MaxStart                 (* bound: start frame the job may ask for *)

ASSUME AnimationAssumption ==
  /\ MaxFrames \in Nat \ {0}
  /\ MaxStart \in Nat
  /\ Pictures = 0..MaxFrames - 1   (* a picture is named by its frame index  *)

VARIABLES frame_count,             (* declared by the header, never zero     *)
          available,               (* frames whose data is complete          *)
          start,                   (* start_frame.unwrap_or(0) of the job    *)
          canvas,                  (* rows of every frame                    *)
          current_frame,           (* next frame to render                   *)
          cancelled,               (* the stop token, once set never reset   *)
          call,                    (* arguments of the call in progress      *)
          entry,                   (* history: current_frame when it began   *)
          delivered,               (* history: frame indices handed over     *)
          lost                     (* history: frames rendered, not handed over *)

file == <<frame_count, available, start, canvas>>
vars == <<copyVars, file, current_frame, cancelled, call, entry, delivered, lost>>

Calls == [method : {"render_next_frame", "render_next_frame_to_sink"},
          token : BOOLEAN]

Outcomes == {"none", "running", "ok", "end", "stopped", "truncated",
             "sink_error", "panic"}

TypeOK ==
  /\ CopyTypeOK
  /\ pc \in {"idle", "check", "render"} \cup CopySteps
  /\ outcome \in Outcomes
  /\ frame_count \in 1..MaxFrames
  /\ available \in 0..frame_count
  /\ start \in 0..MaxStart
  /\ canvas \in Heights
  /\ current_frame \in Nat
  /\ cancelled \in BOOLEAN
  /\ call \in Calls
  /\ entry \in Nat
  /\ delivered \in Seq(Nat)
  /\ lost \subseteq Nat

Init ==
  /\ pc = "idle"
  /\ outcome = "none"
  /\ frame_count \in 1..MaxFrames
  /\ available \in 0..frame_count
  /\ start \in 0..MaxStart
  /\ canvas \in Heights
  /\ CopyInit(0, canvas)
  /\ current_frame = start
  /\ cancelled = FALSE
  /\ call = [method |-> "render_next_frame", token |-> FALSE]
  /\ entry = start
  /\ delivered = <<>>
  /\ lost = {}

(* The caller calls a render method, with Some(stop) or None. *)
Call(c) ==
  /\ pc = "idle"
  /\ pc' = "check"
  /\ outcome' = "running"
  /\ call' = c
  /\ entry' = current_frame
  /\ UNCHANGED <<pic, rows, row, sink, file, current_frame, cancelled, delivered, lost>>

(* Another thread cancels the token. *)
Cancel ==
  /\ ~cancelled
  /\ cancelled' = TRUE
  /\ UNCHANGED <<copyVars, file, current_frame, call, entry, delivered, lost>>

(* if let Some(s) = stop { s.check()?; } *)
CheckStop ==
  /\ pc = "check"
  /\ IF call.token /\ cancelled
     THEN Return("stopped")
     ELSE pc' = "render" /\ UNCHANGED outcome
  /\ UNCHANGED <<pic, rows, row, sink, file, current_frame, cancelled, call, entry,
                 delivered, lost>>

(* Mutant of RenderNothing: missing data ends the animation. *)
RenderNothingTruncatedIsEnd ==
  /\ \/ current_frame >= frame_count
     \/ current_frame >= available
  /\ Return("end")
  /\ UNCHANGED <<pic, rows, row, sink, current_frame, delivered, lost>>

(* Mutant of RenderNothing: the damaged frame is skipped. *)
RenderNothingSkips ==
  /\ \/ current_frame >= frame_count /\ Return("end") /\ UNCHANGED current_frame
     \/ /\ current_frame < frame_count
        /\ current_frame >= available
        /\ Return("truncated")
        /\ current_frame' = current_frame + 1
  /\ UNCHANGED <<pic, rows, row, sink, delivered, lost>>

(* Nothing left, or the frame's bytes are missing: current_frame stays. *)
RenderNothing ==
  /\ \/ current_frame >= frame_count /\ Return("end")
     \/ /\ current_frame < frame_count
        /\ current_frame >= available
        /\ Return("truncated")
  /\ UNCHANGED <<pic, rows, row, sink, current_frame, delivered, lost>>

(* Mutant of RenderFrame: the index is read after it was advanced. *)
RenderFrameIndexAfter ==
  /\ current_frame < frame_count
  /\ current_frame < available
  /\ current_frame' = current_frame + 1
  /\ UNCHANGED lost
  /\ IF call.method = "render_next_frame"
     THEN /\ Return("ok")
          /\ delivered' = Append(delivered, current_frame + 1)
          /\ UNCHANGED <<pic, rows, row, sink>>
     ELSE /\ StartCopy(current_frame, canvas)
          /\ UNCHANGED delivered

(* Mutant of RenderFrame: a frame for the sink is not passed. *)
RenderFrameSinkRepeats ==
  /\ current_frame < frame_count
  /\ current_frame < available
  /\ UNCHANGED lost
  /\ IF call.method = "render_next_frame"
     THEN /\ Return("ok")
          /\ current_frame' = current_frame + 1
          /\ delivered' = Append(delivered, current_frame)
          /\ UNCHANGED <<pic, rows, row, sink>>
     ELSE /\ StartCopy(current_frame, canvas)
          /\ UNCHANGED <<delivered, current_frame>>

(* The frame is the caller's, or goes on to the sink: current_frame has     *)
(* moved past it either way, before the sink is asked.                      *)
RenderFrame ==
  /\ current_frame < frame_count
  /\ current_frame < available
  /\ current_frame' = current_frame + 1
  /\ UNCHANGED lost
  /\ IF call.method = "render_next_frame"
     THEN /\ Return("ok")
          /\ delivered' = Append(delivered, current_frame)
          /\ UNCHANGED <<pic, rows, row, sink>>
     ELSE /\ StartCopy(current_frame, canvas)
          /\ UNCHANGED delivered

Render ==
  /\ pc = "render"
  /\ RenderNothing \/ RenderFrame
  /\ UNCHANGED <<file, cancelled, call, entry>>

(* The rest of copy_frame_to_sink; Ok(Some(info)) hands the frame over, an  *)
(* error or a panic drops it, and the decoder will not render it again.     *)
ToSink ==
  /\ CopyStep
  /\ delivered' = IF outcome' = "ok" THEN Append(delivered, pic) ELSE delivered
  /\ lost' = IF outcome' \in {"sink_error", "panic"} THEN lost \cup {pic} ELSE lost
  /\ UNCHANGED <<file, current_frame, cancelled, call, entry>>

Next ==
  \/ \E c \in Calls : Call(c)
  \/ Cancel
  \/ CheckStop
  \/ Render
  \/ ToSink

Spec == Init /\ [][Next]_vars

(* The decoder is synchronous code: a call it has begun goes on.  The       *)
(* persistent caller keeps calling, as a drain loop does; nothing is        *)
(* assumed of the token or of the sink's answers.                           *)
PersistentSpec ==
  /\ Spec
  /\ WF_vars(CheckStop \/ Render \/ ToSink)
  /\ WF_vars(\E c \in Calls : Call(c))

-----------------------------------------------------------------------------
Delivered == {delivered[i] : i \in DOMAIN delivered}
InFlight == IF pc \in CopySteps THEN {pic} ELSE {}

(* Whatever mix of calls, cancellations and sink refusals: frames come out  *)
(* in increasing order, and every frame the decoder has passed is in exactly *)
(* one place: with the caller, dropped by a failed sink call, or on its way. *)
FramesAccounted ==
  /\ \A i, j \in DOMAIN delivered : i < j => delivered[i] < delivered[j]
  /\ Delivered \cap lost = {}
  /\ InFlight \cap (Delivered \cup lost) = {}
  /\ Delivered \cup lost \cup InFlight = start..current_frame - 1

(* Ok(None) means the animation is over: every frame from the start frame   *)
(* on was handed over or dropped by a sink call that reported it.  In        *)
(* particular a truncated file never ends as if it were complete.            *)
EndIsEarned ==
  outcome = "end" => /\ Delivered \cup lost = start..frame_count - 1
                     /\ available = frame_count \/ start >= frame_count

(* A call that stops, finds truncated data or finds nothing leaves the       *)
(* decoder where it was: the caller may retry and misses no frame.           *)
FailedCallKeepsPosition ==
  outcome \in {"stopped", "truncated", "end"} => current_frame = entry

(* When finish is called every row of the lent buffer holds this picture:   *)
(* none was skipped, and none is left from an earlier session.              *)
PictureIsWhole == pc = "finish" => sink.buf = [i \in 1..rows |-> pic]

(* The sink sees only well-formed sessions, one per frame, even when the     *)
(* caller retries after the sink refused or panicked.                        *)
SinkProtocol == Session!SinkSpec

(* A drain loop ends: the sink may refuse every picture and the token be     *)
(* cancelled at any time, yet the caller reaches the end, the place where    *)
(* the data breaks off, or the cancellation.                                 *)
DrainTerminates == <>(outcome \in {"end", "truncated", "stopped"})
=============================================================================
