------------------------ MODULE DecodePipelineProofs -------------------------
(**************************************************************************)
(* Proofs about DecodePipeline, for images of any height and any values of *)
(* the settings: what the dyn job was told holds at the far end, where the *)
(* pixels come out.  Then about two values a caller of it holds: the       *)
(* ResourceLimits a job is given, for every width of the integers, and the *)
(* Metadata made of what was decoded, for EXIF blobs of any length in both *)
(* parsers and any sequence of builder calls.                              *)
(**************************************************************************)
EXTENDS DecodePipeline, ResourceLimits, Metadata, DynJobShimProofs, SinkCopyProofs,
        WellFoundedInduction, SequenceTheorems

(* What the call in progress, or the one that ended, has been through: a     *)
(* valid header and the limits; the stop check of a one-shot or push decode. *)
Admitted == job # NoJob /\ header_ok /\ WithinLimits
Allowed == late => job["stop"] = Unset

Early == {"header", "limits", "stop", "decode"}

(* Types of the variables the pipeline adds to shim and copy. *)
LocalTypeOK ==
  /\ pc \in {"idle"} \cup Early \cup CopySteps
  /\ outcome \in Outcomes
  /\ header_ok \in BOOLEAN
  /\ height \in Heights
  /\ complete \in 0..height
  /\ cancelled \in BOOLEAN
  /\ path \in Paths \cup {"none"}
  /\ late \in BOOLEAN
  /\ current_row \in Nat
  /\ received \in Seq(Nat)
  /\ current_frame \in Nat

(* How far the call is, and what it has been through there. *)
Stage ==
  /\ box = "held" <=> path = "none"
  /\ path = "none" => pc = "idle" /\ outcome = "none"
  /\ pc # "idle" <=> outcome = "running"
  /\ late => cancelled
  /\ pc = "header" => job # NoJob
  /\ pc = "limits" => job # NoJob /\ header_ok
  /\ pc = "stop" => Admitted /\ path \in {"decoder", "push"}
  /\ pc = "decode" => Admitted /\ Allowed /\ path \in {"decoder", "push"}
  /\ pc \in CopySteps => rows = height /\ pic = 0 /\ path = "push" /\ complete = height
                         /\ Admitted /\ Allowed
  /\ pc = "begin" => sink.phase = "idle"

(* The executor that a call left behind has been through its checks. *)
Executor ==
  /\ path = "decoder" /\ outcome \in {"ready", "ok"} => Admitted /\ Allowed
  /\ path = "animation" /\ outcome = "ready" => Admitted
  /\ path = "streaming" /\ outcome \in {"ready", "end", "truncated"} => Admitted

(* The sink is touched by an admitted push decode only. *)
Sunk ==
  /\ pc \in Early => sink.phase = "idle"
  /\ sink.phase # "idle" => path = "push" /\ complete = height /\ Admitted /\ Allowed
  /\ path = "push" => (outcome = "ok" <=> sink.phase = "done")
  /\ sink.phase = "done" => sink.buf = [i \in 1..height |-> 0]

(* Rows have come out of an admitted streaming decoder only. *)
Streamed ==
  /\ current_row <= complete
  /\ current_row # 0 => path = "streaming" /\ outcome \in {"ready", "end", "truncated"}
  /\ RowsInOrder

PInv == LocalTypeOK /\ ShimInv /\ CopyInv /\ Stage /\ Executor /\ Sunk /\ Streamed

(* The settings the codec looks up are settings. *)
LEMMA LimitsSetting == {"limits", "stop", "start_frame"} \subseteq Settings
BY PipelineAssumption, ShimAssumption

(* Nothing has been called yet. *)
LEMMA InitPInv == Init => PInv
<1> SUFFICES ASSUME Init
             PROVE  PInv
  OBVIOUS
<1>1. ShimInv
  BY ShimInitInv DEF Init
<1>2. 0 \in Pictures /\ pc \notin CopySteps /\ height \in Heights
  BY PipelineAssumption DEF Init, CopySteps
<1>3. CopyInv
  BY <1>2, CopyInitInv DEF Init
<1>4. LocalTypeOK
  <2>1. received \in Seq(Nat) /\ current_row \in Nat /\ current_frame \in Nat
    BY DEF Init
  <2>2. QED
    BY <2>1 DEF Init, LocalTypeOK, Outcomes
<1>5. sink.phase = "idle" /\ box = "held"
  BY DEF Init, CopyInit, NewSink, ShimInit
<1>6. Stage /\ Executor /\ Sunk
  BY <1>5 DEF Init, Stage, Executor, Sunk, CopySteps, Early
<1>7. Streamed
  <2>1. received = <<>> /\ current_row = 0 /\ complete \in 0..height /\ height \in Nat
    BY SinkCopyAssumption DEF Init
  <2>2. received = [i \in 1..current_row |-> i - 1]
    BY <2>1
  <2>3. QED
    BY <2>1, <2>2 DEF Init, Streamed, RowsInOrder
<1>8. QED
  BY <1>1, <1>3, <1>4, <1>6, <1>7 DEF PInv

(* Setters and inspection leave everything but the shim alone, and they need *)
(* the box that no call has taken yet.                                      *)
LEMMA ConfigureKeeps ==
  ASSUME PInv, Configure
  PROVE  PInv'
<1>1. /\ UNCHANGED <<copyVars, file, cancelled, path, late, streamVars, current_frame>>
      /\ box = "held" /\ box' = "held"
  BY DEF Configure, SetSome, Set, Inspect
<1>2. ShimInv'
  BY ShimStepKeeps DEF PInv, Configure, ShimNext
<1>3. CopyInv'
  BY <1>1 DEF PInv, CopyInv, CopyTypeOK, copyVars, OpenSink, WrittenTo
<1>4. path = "none" /\ pc = "idle" /\ outcome = "none"
  BY <1>1 DEF PInv, Stage
<1>5. LocalTypeOK'
  BY <1>1 DEF PInv, LocalTypeOK, copyVars, file, streamVars
<1>6. Stage' /\ Executor' /\ Sunk' /\ Streamed'
  BY <1>1, <1>4
  DEF PInv, Stage, Executor, Sunk, Streamed, RowsInOrder, copyVars, file, streamVars,
      CopySteps, Early
<1>7. QED
  BY <1>2, <1>3, <1>5, <1>6 DEF PInv

(* The token is cancelled: no check already passed is undone. *)
LEMMA CancelKeeps ==
  ASSUME PInv, Cancel
  PROVE  PInv'
<1>1. UNCHANGED <<shimVars, copyVars, file, path, late, streamVars, current_frame>>
      /\ cancelled' = TRUE
  BY DEF Cancel
<1>2. ShimInv'
  BY <1>1, ShimStepKeeps DEF PInv
<1>3. CopyInv'
  BY <1>1 DEF PInv, CopyInv, CopyTypeOK, copyVars, OpenSink, WrittenTo
<1>4. LocalTypeOK'
  BY <1>1 DEF PInv, LocalTypeOK, copyVars, file, streamVars
<1>5. Admitted' = Admitted /\ Allowed' = Allowed
  BY <1>1 DEF Admitted, Allowed, WithinLimits, shimVars, file
<1>6. Stage' /\ Executor' /\ Sunk' /\ Streamed'
  BY <1>1, <1>5
  DEF PInv, Stage, Executor, Sunk, Streamed, RowsInOrder, shimVars, copyVars, file,
      streamVars
<1>7. QED
  BY <1>2, <1>3, <1>4, <1>6 DEF PInv

(* into_* and push_decode take the box, and the job if it is still there. *)
LEMMA EnterKeeps ==
  ASSUME PInv, NEW p \in Paths, Enter(p)
  PROVE  PInv'
<1>1. /\ UNCHANGED <<pic, rows, row, sink, file, cancelled, streamVars, current_frame>>
      /\ box = "held" /\ box' = "consumed" /\ job' = slot /\ path' = p /\ late' = cancelled
      /\ \/ slot = NoJob /\ pc' = "idle" /\ outcome' = "double_take"
         \/ slot # NoJob /\ pc' = "header" /\ outcome' = "running"
  BY DEF Enter, Into, Return
<1>2. ShimInv'
  BY ShimStepKeeps DEF PInv, Enter, ShimNext
<1>3. CopyInv'
  BY <1>1, OutsideKeeps DEF PInv, CopySteps
<1>4. LocalTypeOK'
  BY <1>1 DEF PInv, LocalTypeOK, file, streamVars, Outcomes, Early
<1>5. path = "none" /\ pc = "idle" /\ outcome = "none" /\ sink.phase = "idle"
      /\ current_row = 0
  BY <1>1 DEF PInv, Stage, Sunk, Streamed
<1>6. p # "none"
  BY DEF Paths
<1>7. Stage' /\ Executor' /\ Sunk' /\ Streamed'
  BY <1>1, <1>5, <1>6
  DEF PInv, Stage, Executor, Sunk, Streamed, RowsInOrder, file, streamVars, CopySteps, Early
<1>8. QED
  BY <1>2, <1>3, <1>4, <1>7 DEF PInv

(* What the codec's own steps have in common: the shim is done with, and     *)
(* the job, the file and the answer to a late cancellation are fixed.       *)
LEMMA CodecKeepsShim ==
  ASSUME PInv, UNCHANGED shimVars
  PROVE  ShimInv'
BY ShimStepKeeps DEF PInv

(* What was admitted and allowed remains so. *)
LEMMA SameChecks ==
  ASSUME UNCHANGED <<shimVars, file, late>>
  PROVE  Admitted' = Admitted /\ Allowed' = Allowed /\ box' = box
BY DEF Admitted, Allowed, WithinLimits, shimVars, file

(* The header is read. *)
LEMMA ParseHeaderKeeps ==
  ASSUME PInv, ParseHeader
  PROVE  PInv'
<1>1. /\ UNCHANGED <<shimVars, pic, rows, row, sink, file, cancelled, path, late,
                     streamVars, current_frame>>
      /\ pc = "header"
      /\ \/ header_ok /\ pc' = "limits" /\ outcome' = outcome
         \/ pc' = "idle" /\ outcome' = "invalid"
  BY DEF ParseHeader, Return
<1>2. ShimInv' /\ CopyInv'
  BY <1>1, CodecKeepsShim, OutsideKeeps DEF PInv, CopySteps
<1>3. Admitted' = Admitted /\ Allowed' = Allowed /\ box' = box /\ job' = job
  BY <1>1, SameChecks DEF shimVars
<1>4. LocalTypeOK'
  BY <1>1 DEF PInv, LocalTypeOK, file, streamVars, Outcomes, Early
<1>5. Stage' /\ Executor' /\ Sunk' /\ Streamed'
  BY <1>1, <1>3
  DEF PInv, Stage, Executor, Sunk, Streamed, RowsInOrder, file, streamVars, CopySteps, Early
<1>6. QED
  BY <1>2, <1>4, <1>5 DEF PInv

(* The limits are checked, and two of the four executors built. *)
LEMMA CheckLimitsKeeps ==
  ASSUME PInv, CheckLimits
  PROVE  PInv'
<1>1. /\ UNCHANGED <<shimVars, pic, rows, row, sink, file, cancelled, path, late, received>>
      /\ pc = "limits"
      /\ \/ pc' = "idle" /\ outcome' = "limit" /\ UNCHANGED current_row
         \/ WithinLimits /\ path \in {"decoder", "push"} /\ pc' = "stop"
            /\ outcome' = outcome /\ UNCHANGED current_row
         \/ WithinLimits /\ path = "streaming" /\ pc' = "idle" /\ outcome' = "ready"
            /\ current_row' = 0
         \/ WithinLimits /\ path = "animation" /\ pc' = "idle" /\ outcome' = "ready"
            /\ UNCHANGED current_row
  BY DEF CheckLimits, Return
<1>2. ShimInv' /\ CopyInv'
  BY <1>1, CodecKeepsShim, OutsideKeeps DEF PInv, CopySteps
<1>3. Admitted' = Admitted /\ Allowed' = Allowed /\ box' = box /\ job' = job
  BY <1>1, SameChecks DEF shimVars
<1>4. job # NoJob /\ header_ok /\ (WithinLimits => Admitted)
  BY <1>1 DEF PInv, Stage, Admitted
<1>5. current_frame' \in Nat
  <2>1. job["start_frame"] \in Values \cup {Unset}
    BY <1>4, LimitsSetting DEF PInv, ShimInv, ShimTypeOK, Jobs
  <2>2. \/ current_frame' = current_frame
        \/ current_frame' = 0
        \/ current_frame' = job["start_frame"] /\ job["start_frame"] # Unset
    BY DEF CheckLimits
  <2>3. current_frame' = job["start_frame"] /\ job["start_frame"] # Unset
          => current_frame' \in Values
    BY <2>1
  <2>4. Values \subseteq Nat /\ current_frame \in Nat /\ 0 \in Nat
    BY PipelineAssumption DEF PInv, LocalTypeOK
  <2>5. QED
    BY <2>2, <2>3, <2>4
<1>6. outcome = "running" /\ current_row = 0
  BY <1>1 DEF PInv, Stage, Streamed
<1>7. current_row' = 0 /\ received' = received /\ complete' = complete /\ height' = height
  BY <1>1, <1>6 DEF file
<1>8. LocalTypeOK'
  BY <1>1, <1>5, <1>7 DEF PInv, LocalTypeOK, file, Outcomes, Early
<1>9. Streamed'
  BY <1>1, <1>6, <1>7 DEF PInv, Streamed, RowsInOrder
<1>10. Stage' /\ Executor' /\ Sunk'
  BY <1>1, <1>3, <1>4, <1>6 DEF PInv, Stage, Executor, Sunk, file, CopySteps, Early
<1>11. QED
  BY <1>2, <1>8, <1>9, <1>10 DEF PInv

(* The stop check: a cancellation that came before the call is seen here. *)
LEMMA CheckStopKeeps ==
  ASSUME PInv, CheckStop
  PROVE  PInv'
<1>1. /\ UNCHANGED <<shimVars, pic, rows, row, sink, file, cancelled, path, late,
                     streamVars, current_frame>>
      /\ pc = "stop"
      /\ \/ pc' = "idle" /\ outcome' = "stopped"
         \/ /\ job["stop"] # Unset => ~cancelled
            /\ \/ path = "push" /\ pc' = "decode" /\ outcome' = outcome
               \/ path # "push" /\ pc' = "idle" /\ outcome' = "ready"
  BY DEF CheckStop, Return
<1>2. ShimInv' /\ CopyInv'
  BY <1>1, CodecKeepsShim, OutsideKeeps DEF PInv, CopySteps
<1>3. Admitted' = Admitted /\ Allowed' = Allowed /\ box' = box /\ job' = job
  BY <1>1, SameChecks DEF shimVars
<1>4. Admitted /\ path \in {"decoder", "push"} /\ outcome = "running" /\ current_row = 0
      /\ (~(job["stop"] # Unset /\ cancelled) => Allowed)
  BY <1>1 DEF PInv, Stage, Streamed, Allowed
<1>5. LocalTypeOK'
  BY <1>1 DEF PInv, LocalTypeOK, file, streamVars, Outcomes, Early
<1>6. Streamed'
  BY <1>1, <1>4 DEF PInv, Streamed, RowsInOrder, streamVars, file
<1>7. Stage' /\ Executor' /\ Sunk'
  BY <1>1, <1>3, <1>4 DEF PInv, Stage, Executor, Sunk, file, CopySteps, Early
<1>8. QED
  BY <1>2, <1>5, <1>6, <1>7 DEF PInv

(* The caller has the one-shot decoder decode. *)
LEMMA CallDecodeKeeps ==
  ASSUME PInv, CallDecode
  PROVE  PInv'
<1>1. /\ UNCHANGED <<shimVars, pic, rows, row, sink, file, cancelled, path, late,
                     streamVars, current_frame>>
      /\ path = "decoder" /\ outcome = "ready" /\ pc' = "decode" /\ outcome' = "running"
  BY DEF CallDecode
<1>2. ShimInv' /\ CopyInv'
  BY <1>1, CodecKeepsShim, OutsideKeeps DEF PInv, CopySteps
<1>3. Admitted' = Admitted /\ Allowed' = Allowed /\ box' = box /\ job' = job
  BY <1>1, SameChecks DEF shimVars
<1>4. Admitted /\ Allowed /\ sink.phase = "idle" /\ current_row = 0
  BY <1>1 DEF PInv, Executor, Sunk, Streamed
<1>5. LocalTypeOK'
  BY <1>1 DEF PInv, LocalTypeOK, file, streamVars, Outcomes, Early
<1>6. Streamed'
  BY <1>1, <1>4 DEF PInv, Streamed, RowsInOrder, streamVars, file
<1>7. Stage' /\ Executor' /\ Sunk'
  BY <1>1, <1>3, <1>4 DEF PInv, Stage, Executor, Sunk, file, CopySteps, Early
<1>8. QED
  BY <1>2, <1>5, <1>6, <1>7 DEF PInv

(* The rows are there or not; a push decode turns to the sink with them. *)
LEMMA DecodeKeeps ==
  ASSUME PInv, Decode
  PROVE  PInv'
<1>1. UNCHANGED <<shimVars, file, cancelled, path, late, streamVars, current_frame>>
      /\ pc = "decode"
  BY DEF Decode
<1>2. ShimInv'
  BY <1>1, CodecKeepsShim
<1>3. Admitted' = Admitted /\ Allowed' = Allowed /\ box' = box /\ job' = job
  BY <1>1, SameChecks DEF shimVars
<1>4. /\ Admitted /\ Allowed /\ path \in {"decoder", "push"} /\ outcome = "running"
      /\ sink.phase = "idle" /\ current_row = 0 /\ height \in Heights /\ 0 \in Pictures
      /\ complete \in 0..height /\ height \in Nat
  BY <1>1, PipelineAssumption, SinkCopyAssumption
  DEF PInv, Stage, Streamed, Sunk, Early, LocalTypeOK
<1>5. CASE complete < height \/ path # "push"
  <2>1. /\ UNCHANGED <<pic, rows, row, sink>> /\ pc' = "idle"
        /\ \/ outcome' = "truncated"
           \/ outcome' = "ok" /\ path # "push"
    BY <1>5 DEF Decode, Return
  <2>2. CopyInv'
    BY <2>1, OutsideKeeps DEF PInv, CopySteps
  <2>3. LocalTypeOK'
    BY <1>1, <2>1 DEF PInv, LocalTypeOK, file, streamVars, Outcomes
  <2>4. Streamed'
    BY <1>1, <1>4, <2>1 DEF PInv, Streamed, RowsInOrder, streamVars, file
  <2>5. Stage' /\ Executor' /\ Sunk'
    BY <1>1, <1>3, <1>4, <2>1 DEF PInv, Stage, Executor, Sunk, file, CopySteps, Early
  <2>6. QED
    BY <1>2, <2>2, <2>3, <2>4, <2>5 DEF PInv
<1>6. CASE ~(complete < height) /\ path = "push"
  <2>1. StartCopy(0, height) /\ complete = height
    BY <1>4, <1>6 DEF Decode
  <2>2. pc' = "begin" /\ pic' = 0 /\ rows' = height /\ outcome' = outcome /\ sink' = sink
    BY <2>1 DEF StartCopy
  <2>3. CopyInv'
    BY <1>4, <2>1, StartCopyKeeps DEF PInv
  <2>4. LocalTypeOK'
    BY <1>1, <2>2 DEF PInv, LocalTypeOK, file, streamVars, CopySteps
  <2>5. Streamed'
    BY <1>1, <1>4, <2>2 DEF PInv, Streamed, RowsInOrder, streamVars, file
  <2>6. Stage' /\ Executor' /\ Sunk'
    BY <1>1, <1>3, <1>4, <1>6, <2>1, <2>2
    DEF PInv, Stage, Executor, Sunk, file, CopySteps, Early
  <2>7. QED
    BY <1>2, <2>3, <2>4, <2>5, <2>6 DEF PInv
<1>7. QED
  BY <1>5, <1>6

(* A step of the copy. *)
LEMMA ToSinkKeeps ==
  ASSUME PInv, ToSink
  PROVE  PInv'
<1>1. CopyStep /\ UNCHANGED <<shimVars, file, cancelled, path, late, streamVars, current_frame>>
  BY DEF ToSink
<1>2. pc \in CopySteps
  BY <1>1 DEF CopyStep, Begin, Provide, CopyRow, DropBuffer, Finish, CopySteps
<1>3. outcome = "running"
  BY <1>2 DEF PInv, Stage, CopySteps
<1>4. /\ UNCHANGED <<pic, rows>>
      /\ \/ pc' \in CopySteps \ {"begin"} /\ outcome' = "running"
         \/ pc' = "idle" /\ outcome' \in {"ok", "sink_error", "panic"}
  BY <1>1, <1>3, CopyStepEnds DEF PInv
<1>5. /\ outcome' = "ok" <=> sink'.phase = "done"
      /\ outcome' = "ok" => pc = "finish" /\ sink'.buf = sink.buf
  BY <1>1, <1>3, CopyStepPhase DEF PInv, Stage
<1>6. ShimInv' /\ CopyInv'
  BY <1>1, CodecKeepsShim, CopyStepKeeps DEF PInv
<1>7. Admitted' = Admitted /\ Allowed' = Allowed /\ box' = box /\ job' = job
  BY <1>1, SameChecks DEF shimVars
<1>8. rows = height /\ pic = 0 /\ path = "push" /\ complete = height /\ Admitted /\ Allowed
      /\ current_row = 0
  BY <1>2, <1>3 DEF PInv, Stage, Streamed
<1>9. LocalTypeOK'
  BY <1>1, <1>4 DEF PInv, LocalTypeOK, file, streamVars, Outcomes
<1>10. Streamed'
  BY <1>1, <1>8 DEF PInv, Streamed, RowsInOrder, streamVars, file
<1>11. Stage' /\ Executor'
  BY <1>1, <1>4, <1>7, <1>8 DEF PInv, Stage, Executor, file, CopySteps
<1>12. Sunk'
  <2>1. outcome' = "ok" => sink'.buf = [i \in 1..height |-> 0]
    BY <1>5, <1>8, FinishedIsWhole DEF PInv
  <2>2. pc' \notin Early
    BY <1>4 DEF CopySteps, Early
  <2>3. QED
    BY <1>1, <1>5, <1>7, <1>8, <2>1, <2>2 DEF Sunk, file
<1>13. QED
  BY <1>6, <1>9, <1>10, <1>11, <1>12 DEF PInv

(* next_batch yields a row, or says why not. *)
LEMMA NextBatchKeeps ==
  ASSUME PInv, NextBatch
  PROVE  PInv'
<1>1. /\ UNCHANGED <<shimVars, pc, pic, rows, row, sink, file, cancelled, path, late>>
      /\ current_frame' = current_frame
      /\ path = "streaming" /\ outcome \in {"ready", "end", "truncated"}
      /\ \/ current_row >= height /\ outcome' = "end" /\ UNCHANGED streamVars
         \/ current_row < height /\ current_row >= complete /\ outcome' = "truncated"
            /\ UNCHANGED streamVars
         \/ current_row < height /\ current_row < complete /\ outcome' = "ready"
            /\ received' = Append(received, current_row) /\ current_row' = current_row + 1
  BY DEF NextBatch
<1>2. pc = "idle" /\ pc' = "idle" /\ Admitted
  BY <1>1 DEF PInv, Stage, Executor, LocalTypeOK, Outcomes
<1>3. ShimInv' /\ CopyInv'
  BY <1>1, <1>2, CodecKeepsShim, OutsideKeeps DEF PInv, CopySteps
<1>4. Admitted' = Admitted /\ Allowed' = Allowed /\ box' = box /\ job' = job
  BY <1>1, SameChecks DEF shimVars
<1>5. /\ current_row \in Nat /\ received \in Seq(Nat) /\ complete \in 0..height /\ height \in Nat
      /\ current_row <= complete /\ received = [i \in 1..current_row |-> i - 1]
      /\ complete' = complete /\ height' = height
  BY <1>1, SinkCopyAssumption DEF PInv, LocalTypeOK, Streamed, RowsInOrder, file
<1>6. /\ received' \in Seq(Nat) /\ current_row' \in Nat
      /\ received' = [i \in 1..current_row' |-> i - 1]
  <2>1. CASE UNCHANGED streamVars
    BY <1>5, <2>1 DEF streamVars
  <2>2. CASE received' = Append(received, current_row) /\ current_row' = current_row + 1
    <3>1. Len(received) = current_row /\ DOMAIN received' = 1..current_row + 1
      BY <1>5, <2>2
    <3>2. \A i \in 1..current_row + 1 : received'[i] = i - 1
      BY <1>5, <2>2, <3>1
    <3>3. received' \in Seq(Nat)
      BY <1>5, <2>2
    <3>4. received' = [i \in DOMAIN received' |-> received'[i]]
      BY <3>3
    <3>5. QED
      BY <1>5, <2>2, <3>1, <3>2, <3>3, <3>4
  <2>3. QED
    BY <1>1, <2>1, <2>2
<1>7. LocalTypeOK'
  BY <1>1, <1>6 DEF PInv, LocalTypeOK, file, Outcomes
<1>8. Streamed'
  BY <1>1, <1>5, <1>6 DEF Streamed, RowsInOrder, streamVars
<1>9. Stage' /\ Executor' /\ Sunk'
  BY <1>1, <1>2, <1>4 DEF PInv, Stage, Executor, Sunk, file, CopySteps, Early
<1>10. QED
  BY <1>3, <1>7, <1>8, <1>9 DEF PInv

(* PInv is inductive. *)
LEMMA NextPInv == PInv /\ [Next]_vars => PInv'
<1> SUFFICES ASSUME PInv, [Next]_vars
             PROVE  PInv'
  OBVIOUS
<1>1. CASE Configure
  BY <1>1, ConfigureKeeps
<1>2. CASE Cancel
  BY <1>2, CancelKeeps
<1>3. CASE \E p \in Paths : Enter(p)
  BY <1>3, EnterKeeps
<1>4. CASE CallDecode
  BY <1>4, CallDecodeKeeps
<1>5. CASE Codec
  BY <1>5, ParseHeaderKeeps, CheckLimitsKeeps, CheckStopKeeps, DecodeKeeps, ToSinkKeeps
  DEF Codec
<1>6. CASE NextBatch
  BY <1>6, NextBatchKeeps
<1>7. CASE UNCHANGED vars
  <2>1. UNCHANGED <<shimVars, copyVars, file, cancelled, path, late, streamVars, current_frame>>
    BY <1>7 DEF vars
  <2>2. ShimInv'
    BY <2>1, CodecKeepsShim
  <2>3. CopyInv'
    BY <2>1 DEF PInv, CopyInv, CopyTypeOK, copyVars, OpenSink, WrittenTo
  <2>4. Admitted' = Admitted /\ Allowed' = Allowed /\ box' = box
    BY <2>1, SameChecks
  <2>5. LocalTypeOK'
    BY <2>1 DEF PInv, LocalTypeOK, copyVars, file, streamVars
  <2>6. Stage' /\ Executor' /\ Sunk' /\ Streamed'
    BY <2>1, <2>4
    DEF PInv, Stage, Executor, Sunk, Streamed, RowsInOrder, copyVars, shimVars, file, streamVars
  <2>7. QED
    BY <2>2, <2>3, <2>5, <2>6 DEF PInv
<1>8. QED
  BY <1>1, <1>2, <1>3, <1>4, <1>5, <1>6, <1>7 DEF Next

-----------------------------------------------------------------------------
(* All of the pipeline's invariants hold together, in every state. *)
THEOREM Invariance == Spec => []PInv
BY InitPInv, NextPInv, PTL DEF Spec

(* Every variable of job, codec, copy and sink has its type. *)
THEOREM TypeCorrect == Spec => []TypeOK
<1>1. PInv => TypeOK
  BY DEF PInv, TypeOK, LocalTypeOK, ShimInv, CopyInv, Early
<1>2. QED
  BY <1>1, Invariance, PTL

(* Whatever was set in whatever order, on each of the four paths, no pixel   *)
(* comes out without a valid header and within the limits last requested.   *)
THEOREM LimitsAlwaysHold == Spec => []LimitsHold
<1>1. PInv => LimitsHold
  <2>1. SUFFICES ASSUME PInv, Produced
                 PROVE  header_ok /\ (requested["limits"] # Unset => height <= requested["limits"])
    BY DEF LimitsHold
  <2>2. received # <<>> => current_row # 0
    BY <2>1 DEF PInv, Streamed, RowsInOrder
  <2>3. Admitted
    BY <2>1, <2>2 DEF Produced, PInv, Sunk, Streamed, Executor
  <2>4. job["limits"] = requested["limits"]
    BY <2>1, <2>3, LimitsSetting, PipelineAssumption DEF PInv, ShimInv, Faithful, Admitted
  <2>5. QED
    BY <2>3, <2>4 DEF Admitted, WithinLimits
<1>2. QED
  BY <1>1, Invariance, PTL

(* A cancellation that came before a one-shot or push decode is obeyed. *)
THEOREM CancellationIsObeyed == Spec => []CancelledBeforehand
<1>1. PInv => CancelledBeforehand
  <2>1. SUFFICES ASSUME PInv, late, requested["stop"] # Unset, path \in {"decoder", "push"},
                        Produced
                 PROVE  FALSE
    BY DEF CancelledBeforehand
  <2>2. received = <<>>
    BY <2>1 DEF PInv, Streamed, RowsInOrder
  <2>3. Admitted /\ Allowed
    BY <2>1, <2>2 DEF Produced, PInv, Sunk, Executor
  <2>4. job["stop"] = requested["stop"]
    BY <2>1, <2>3, LimitsSetting, PipelineAssumption DEF PInv, ShimInv, Faithful, Admitted
  <2>5. QED
    BY <2>1, <2>3, <2>4 DEF Allowed
<1>2. QED
  BY <1>1, Invariance, PTL

(* A streaming decode yields every row once, in order, up to the last that   *)
(* is there.                                                                *)
THEOREM RowsComeInOrder == Spec => []RowsInOrder
<1>1. PInv => RowsInOrder
  BY DEF PInv, Streamed
<1>2. QED
  BY <1>1, Invariance, PTL

(* A push decode answers Ok exactly when the sink was finished with all rows. *)
THEOREM PushAnswersAreTrue == Spec => []PushAnswersTruly
<1>1. PInv => PushAnswersTruly
  BY DEF PInv, Sunk, PushAnswersTruly
<1>2. QED
  BY <1>1, Invariance, PTL

(* The pipeline implements DecodeRowSink. *)
THEOREM SinkSessionIsWellFormed == Spec => SinkProtocol
<1>1. Init => Session!SinkInit
  <2>1. SUFFICES ASSUME Init
                 PROVE  Session!SinkInit
    OBVIOUS
  <2>2. sink.phase = "idle" /\ sink.announced = 0 /\ sink.strips = 0 /\ sink.buf = <<>>
    BY <2>1 DEF Init, CopyInit, NewSink
  <2>3. QED
    BY <2>2, NothingFilled DEF Session!SinkInit, SessionPhase, Lent
<1>2. PInv /\ PInv' /\ [Next]_vars => [Session!SinkNext]_(Session!sinkVars)
  <2> SUFFICES ASSUME PInv, PInv', [Next]_vars
               PROVE  [Session!SinkNext]_(Session!sinkVars)
    OBVIOUS
  <2>1. CASE ToSink
    BY <2>1, CopyStepRefines DEF ToSink, PInv
  <2>2. CASE Configure \/ Cancel \/ UNCHANGED vars
    BY <2>2 DEF Configure, Cancel, vars, copyVars, Session!sinkVars, SessionPhase, Lent, Filled
  <2>3. CASE \E p \in Paths : Enter(p)
    <3>1. pc = "idle"
      BY <2>3 DEF Enter, Into, PInv, Stage
    <3>2. QED
      BY <2>3, <3>1, OutsideRefines DEF Enter, Return, CopySteps
  <2>4. CASE CallDecode \/ NextBatch
    <3>1. pc = "idle"
      BY <2>4 DEF CallDecode, NextBatch, PInv, Stage
    <3>2. QED
      BY <2>4, <3>1, OutsideRefines DEF CallDecode, NextBatch, CopySteps
  <2>5. CASE ParseHeader \/ CheckLimits \/ CheckStop
    BY <2>5, OutsideRefines DEF ParseHeader, CheckLimits, CheckStop, Return, CopySteps
  <2>6. CASE Decode
    BY <2>6, OutsideRefines DEF Decode, StartCopy, Return, CopySteps
  <2>7. QED
    BY <2>1, <2>2, <2>3, <2>4, <2>5, <2>6 DEF Next, Codec
<1>3. QED
  BY <1>1, <1>2, Invariance, PTL DEF Spec, SinkProtocol, Session!SinkSpec

-----------------------------------------------------------------------------
(* ResourceLimits                                                            *)

(* Multiplication is monotone on Nat. *)
LEMMA ProductMonotone ==
  ASSUME NEW a \in Nat, NEW b \in Nat, NEW c \in Nat, NEW d \in Nat, a <= b, c <= d
  PROVE  a * c \in Nat /\ a * c <= b * d
<1>1. a * c \in Nat /\ b * c \in Nat /\ b * d \in Nat
  OBVIOUS
<1>2. a * c <= b * c
  OBVIOUS
<1>3. b * c <= b * d
  OBVIOUS
<1>4. QED
  BY <1>1, <1>2, <1>3

(* A product of two u32 fits in a u64. *)
LEMMA ProductFits ==
  ASSUME NEW a \in U32, NEW b \in U32
  PROVE  a * b \in U64
<1>1. U32Size \in Nat /\ U32Size >= 1 /\ U32Size - 1 \in Nat
  BY LimitsAssumption
<1>2. a \in Nat /\ b \in Nat /\ a <= U32Size - 1 /\ b <= U32Size - 1
  BY <1>1 DEF U32
<1>3. a * b \in Nat /\ a * b <= (U32Size - 1) * (U32Size - 1)
  BY <1>1, <1>2, ProductMonotone
<1>4. (U32Size - 1) * (U32Size - 1) < U32Size * U32Size
  BY <1>1
<1>5. QED
  BY <1>1, <1>3, <1>4 DEF U64, U64Size

(* A product of at most 2^32 and a u32 fits in a u64. *)
LEMMA CappedProductFits ==
  ASSUME NEW a \in Nat, a <= U32Size, NEW b \in U32
  PROVE  a * b \in U64
<1>1. U32Size \in Nat /\ U32Size >= 1 /\ U32Size - 1 \in Nat
  BY LimitsAssumption
<1>2. b \in Nat /\ b <= U32Size - 1
  BY <1>1 DEF U32
<1>3. a * b \in Nat /\ a * b <= U32Size * (U32Size - 1)
  BY <1>1, <1>2, ProductMonotone
<1>4. U32Size * (U32Size - 1) < U32Size * U32Size
  BY <1>1
<1>5. QED
  BY <1>1, <1>3, <1>4 DEF U64, U64Size

(* Wrapping changes nothing inside u64, and never makes a number larger. *)
LEMMA WrapProperties ==
  ASSUME NEW n \in Nat
  PROVE  /\ Wrap(n) \in U64
         /\ Wrap(n) <= n
         /\ n \in U64 => Wrap(n) = n
<1>1. U64Size \in Nat /\ U64Size >= 1
  BY LimitsAssumption DEF U64Size
<1> HIDE DEF U64Size
<1>2. n % U64Size \in 0..U64Size - 1
  BY <1>1
<1>3. n % U64Size <= n
  BY <1>1
<1>4. n \in 0..U64Size - 1 => n % U64Size = n
  BY <1>1
<1>5. QED
  BY <1>2, <1>3, <1>4 DEF Wrap, U64

-----------------------------------------------------------------------------
(* The quantities of a probed image, and what the products become as u64. *)
LEMMA Quantities ==
  ASSUME NEW i \in Infos
  PROVE  /\ i.width \in U32 /\ i.height \in U32
         /\ i.width \in U64 /\ i.height \in U64
         /\ i.width \in Nat /\ i.height \in Nat
         /\ Pixels(i) \in Nat /\ Wrap(Pixels(i)) = Pixels(i)
         /\ Pixels(i) \in U64
         /\ Pixels(i) * i.bytes_per_pixel \in Nat
         /\ BufferSize(i) \in U64
         /\ BufferSize(i) <= Pixels(i) * i.bytes_per_pixel
         /\ Pixels(i) <= U32Size => BufferSize(i) = Pixels(i) * i.bytes_per_pixel
         /\ FrameCount(i) # None =>
              /\ FrameCount(i) \in U32 /\ FrameCount(i) \in U64
              /\ TotalPixels(i) \in Nat
              /\ Wrap(TotalPixels(i)) \in U64
              /\ Wrap(TotalPixels(i)) <= TotalPixels(i)
              /\ Pixels(i) <= U32Size => Wrap(TotalPixels(i)) = TotalPixels(i)
<1>1. U32Size \in Nat /\ U32Size >= 1
  BY LimitsAssumption
<1>2. \A n \in U32 : n \in U64 /\ n \in Nat
  <2>1. U32Size * U32Size >= U32Size
    BY <1>1
  <2>2. QED
    BY <1>1, <2>1 DEF U32, U64, U64Size
<1>3. i.width \in U32 /\ i.height \in U32
  BY LimitsAssumption DEF Infos
<1>4. Pixels(i) \in U64 /\ Pixels(i) \in Nat /\ Wrap(Pixels(i)) = Pixels(i)
  <2>1. Pixels(i) \in U64
    BY <1>3, ProductFits DEF Pixels
  <2>2. Pixels(i) \in Nat
    BY <1>2, <1>3 DEF Pixels
  <2>3. QED
    BY <2>1, <2>2, WrapProperties
<1>5. ASSUME FrameCount(i) # None
      PROVE  /\ FrameCount(i) \in U32
             /\ TotalPixels(i) \in Nat
             /\ Wrap(TotalPixels(i)) \in U64
             /\ Wrap(TotalPixels(i)) <= TotalPixels(i)
             /\ Pixels(i) <= U32Size => Wrap(TotalPixels(i)) = TotalPixels(i)
  <2>1. FrameCount(i) \in U32
    <3>1. i.sequence = Single \/ i.sequence.count \in Counts
      BY DEF Infos, ImageSequence
    <3>2. 1 \in U32
      BY LimitsAssumption DEF U32
    <3>3. QED
      BY <1>5, <3>1, <3>2, LimitsAssumption DEF FrameCount
  <2>2. TotalPixels(i) \in Nat
    BY <1>2, <1>4, <2>1 DEF TotalPixels
  <2>3. Pixels(i) <= U32Size => TotalPixels(i) \in U64
    BY <1>4, <2>1, CappedProductFits DEF TotalPixels
  <2>4. QED
    BY <2>1, <2>2, <2>3, WrapProperties
<1>6. /\ Pixels(i) * i.bytes_per_pixel \in Nat
      /\ BufferSize(i) \in U64
      /\ BufferSize(i) <= Pixels(i) * i.bytes_per_pixel
      /\ Pixels(i) <= U32Size => BufferSize(i) = Pixels(i) * i.bytes_per_pixel
  <2>1. i.bytes_per_pixel \in U32
    BY LimitsAssumption DEF Infos
  <2>2. Pixels(i) * i.bytes_per_pixel \in Nat
    BY <1>2, <1>4, <2>1
  <2>3. Pixels(i) <= U32Size => Pixels(i) * i.bytes_per_pixel \in U64
    BY <1>4, <2>1, CappedProductFits
  <2>4. QED
    BY <2>2, <2>3, WrapProperties DEF BufferSize
<1>7. QED
  BY <1>2, <1>3, <1>4, <1>5, <1>6

(* The comparisons of check_image_info, in their order. *)
ImageChecks(i) == DimensionChecks(i) \o SequenceChecks(i)

(* Which comparison stands where; two of them only for a known frame count.   *)
LEMMA ChecksInOrder ==
  ASSUME NEW i
  PROVE  /\ DOMAIN DimensionChecks(i) = 1..3
         /\ DOMAIN ImageChecks(i) = IF FrameCount(i) = None THEN 1..3 ELSE 1..5
         /\ \A n \in 1..3 : ImageChecks(i)[n] = DimensionChecks(i)[n]
         /\ DimensionChecks(i)[1] = Check("width", i.width)
         /\ DimensionChecks(i)[2] = Check("height", i.height)
         /\ DimensionChecks(i)[3] = Check("pixels", Wrap(Pixels(i)))
         /\ FrameCount(i) # None =>
              /\ ImageChecks(i)[4] = Check("frames", FrameCount(i))
              /\ ImageChecks(i)[5] = Check("total_pixels", Wrap(TotalPixels(i)))
<1>1. CASE FrameCount(i) = None
  BY <1>1 DEF ImageChecks, DimensionChecks, SequenceChecks
<1>2. CASE FrameCount(i) # None
  BY <1>2 DEF ImageChecks, DimensionChecks, SequenceChecks
<1>3. QED
  BY <1>1, <1>2

(* The first three comparisons are always there, the others only for a      *)
(* known count.                                                             *)
LEMMA ImageCheckDomain ==
  ASSUME NEW i
  PROVE  /\ \A n \in 1..3 : n \in DOMAIN ImageChecks(i)
         /\ FrameCount(i) # None => 4 \in DOMAIN ImageChecks(i) /\ 5 \in DOMAIN ImageChecks(i)
         /\ \A n \in DOMAIN ImageChecks(i) :
              n \in 1..3 \/ (n \in 4..5 /\ FrameCount(i) # None)
<1>1. CASE FrameCount(i) = None
  <2>1. DOMAIN ImageChecks(i) = 1..3
    BY <1>1, ChecksInOrder
  <2>2. QED
    BY <1>1, <2>1
<1>2. CASE FrameCount(i) # None
  <2>1. DOMAIN ImageChecks(i) = 1..5
    BY <1>2, ChecksInOrder
  <2>2. \A n \in 1..5 : n \in 1..3 \/ n \in 4..5
    OBVIOUS
  <2>3. QED
    BY <1>2, <2>1, <2>2
<1>3. QED
  BY <1>1, <1>2

-----------------------------------------------------------------------------
Safe == AcceptedIsWithinIfPixelsCapped /\ OutputIsWithin /\ RejectionIsRight

(* Steps that answer nothing forget the last answer. *)
LEMMA UncheckedIsSafe ==
  ASSUME verdict' \in {Unchecked, Panic}
  PROVE  Safe'
  BY DEF Safe, AcceptedIsWithinIfPixelsCapped, AcceptedIsWithin, OutputIsWithin,
         RejectionIsRight, Unchecked, Panic, Ok

(* A check of a true quantity fails exactly when its limit does. *)
LEMMA ExactCheck ==
  ASSUME LimitsTypeOK, NEW l \in Limits, NEW q \in U64, q = Quantity(l, info)
  PROVE  Exceeded(Check(l, q)) <=> ~Within(l, info)
<1> DEFINE m == limits[l]
<1>1. m \in U64 \cup {None} /\ q \in Int /\ \A n \in U64 : n \in Int
  BY DEF LimitsTypeOK, U64
<1>2. Exceeded(Check(l, q)) <=> m # None /\ q > m
  BY DEF Exceeded, Check
<1>3. Within(l, info) <=> (m # None => q <= m)
  BY DEF Within
<1> HIDE DEF m
<1>4. QED
  BY <1>1, <1>2, <1>3

(* What Quantity is for a typed info; only the pixels are as u64 holds them.   *)
LEMMA ExactQuantities ==
  ASSUME LimitsTypeOK
  PROVE  /\ Quantity("width", info) = info.width /\ info.width \in U64
         /\ Quantity("height", info) = info.height /\ info.height \in U64
         /\ Quantity("pixels", info) = Wrap(Pixels(info)) /\ Wrap(Pixels(info)) \in U64
         /\ FrameCount(info) # None =>
              Quantity("frames", info) = FrameCount(info) /\ FrameCount(info) \in U64
         /\ FrameCount(info) # None => Quantity("total_pixels", info) = TotalPixels(info)
         /\ FrameCount(info) = None =>
              Quantity("frames", info) = 0 /\ Quantity("total_pixels", info) = 0
  BY Quantities DEF LimitsTypeOK, Quantity

(* The dimension checks look at the true quantities. *)
LEMMA DimensionCheck ==
  ASSUME LimitsTypeOK
  PROVE  /\ Exceeded(DimensionChecks(info)[1]) <=> ~Within("width", info)
         /\ Exceeded(DimensionChecks(info)[2]) <=> ~Within("height", info)
         /\ Exceeded(DimensionChecks(info)[3]) <=> ~Within("pixels", info)
  BY ExactCheck, ExactQuantities, ChecksInOrder DEF Limits, ImageLimits

(* So does the frame check; the total compares what is left of the product. *)
LEMMA SequenceCheck ==
  ASSUME LimitsTypeOK, FrameCount(info) # None
  PROVE  /\ Exceeded(ImageChecks(info)[4]) <=> ~Within("frames", info)
         /\ Exceeded(ImageChecks(info)[5]) => ~Within("total_pixels", info)
         /\ Pixels(info) <= U32Size =>
              (Exceeded(ImageChecks(info)[5]) <=> ~Within("total_pixels", info))
<1> DEFINE m == limits["total_pixels"]
           w == Wrap(TotalPixels(info))
           q == TotalPixels(info)
<1>1. m \in U64 \cup {None} /\ q \in Int /\ \A n \in U64 : n \in Int
  BY Quantities DEF LimitsTypeOK, U64, Limits, ImageLimits
<1>2. w \in U64 /\ w <= q /\ (Pixels(info) <= U32Size => w = q)
  BY Quantities DEF LimitsTypeOK
<1>3. ImageChecks(info)[5] = Check("total_pixels", w)
  BY ChecksInOrder
<1>4. Exceeded(ImageChecks(info)[5]) <=> m # None /\ w > m
  BY <1>3 DEF Exceeded, Check
<1>5. Within("total_pixels", info) <=> (m # None => q <= m)
  BY ExactQuantities DEF Within
<1>6. Exceeded(ImageChecks(info)[4]) <=> ~Within("frames", info)
  BY ExactCheck, ExactQuantities, ChecksInOrder DEF Limits, ImageLimits
<1> HIDE DEF m, w, q
<1>7. QED
  BY <1>1, <1>2, <1>4, <1>5, <1>6

-----------------------------------------------------------------------------
(* How a sequence of checks ends: all passed, or the n-th is the first not. *)
LEMMA RunEnds ==
  ASSUME NEW checks, NEW by, Run(checks, by)
  PROVE  \/ verdict' = Ok(by) /\ \A n \in DOMAIN checks : ~Exceeded(checks[n])
         \/ \E n \in DOMAIN checks :
              /\ Exceeded(checks[n]) /\ verdict' = Error(checks[n])
              /\ \A m \in 1..n - 1 : ~Exceeded(checks[m])
  BY DEF Run

(* A rejection by one of the dimension checks is right. *)
LEMMA DimensionRejection ==
  ASSUME LimitsTypeOK, UNCHANGED <<limits, info>>, NEW n \in 1..3,
         Exceeded(DimensionChecks(info)[n]), verdict' = Error(DimensionChecks(info)[n]),
         \A m \in 1..n - 1 : ~Exceeded(DimensionChecks(info)[m])
  PROVE  LimitsTypeOK' /\ Safe'
<1>1. verdict'.is = "exceeded" /\ \A by : verdict' # Ok(by)
  BY DEF Error, Ok
<1>2. AcceptedIsWithinIfPixelsCapped' /\ OutputIsWithin'
  BY <1>1 DEF AcceptedIsWithinIfPixelsCapped, AcceptedIsWithin, OutputIsWithin
<1>3. ASSUME NEW l \in Limits, NEW q \in U64, l # "total_pixels",
             q = Quantity(l, info), DimensionChecks(info)[n] = Check(l, q),
             \A b \in Before(l) : Within(b, info)
      PROVE  LimitsTypeOK' /\ Safe'
  <2>1. ~Within(l, info)
    BY <1>3, ExactCheck
  <2>2. limits[l] \in U64 /\ limits[l] \in Int /\ q \in Int
    BY <2>1 DEF LimitsTypeOK, Within, U64
  <2>3. q > limits[l]
    BY <1>3, <2>1, <2>2 DEF Within
  <2>4. verdict' = [is |-> "exceeded", limit |-> l, actual |-> q, max |-> limits[l]]
    BY <1>3 DEF Error, Check
  <2>5. LimitsTypeOK'
    BY <2>2, <2>4 DEF LimitsTypeOK, Exceeding
  <2>6. RejectionIsRight'
    <3>1. /\ verdict'.limit = l /\ verdict'.actual = q /\ verdict'.max = limits[l]
      BY <2>4
    <3>2. \A b : Within(b, info)' <=> Within(b, info)
      BY DEF Within
    <3>3. Quantity(verdict.limit, info)' = q
      BY <1>3, <3>1
    <3>4. \A b \in Before(l) : Within(b, info)'
      BY <1>3, <3>2
    <3>5. QED
      BY <2>3, <3>1, <3>3, <3>4 DEF RejectionIsRight
  <2>7. QED
    BY <1>2, <2>5, <2>6 DEF Safe
<1>4. CASE n = 1
  BY <1>3, <1>4, ChecksInOrder, ExactQuantities DEF Limits, ImageLimits, Before
<1>5. CASE n = 2
  <2>1. 1 \in 1..n - 1
    BY <1>5
  <2>2. Within("width", info)
    BY <2>1, DimensionCheck
  <2>3. Before("height") = {"width"} /\ "height" \in Limits
    BY DEF Before, Limits, ImageLimits
  <2>4. QED
    BY <1>3, <1>5, <2>2, <2>3, ChecksInOrder, ExactQuantities
<1>6. CASE n = 3
  <2>1. 1 \in 1..n - 1 /\ 2 \in 1..n - 1
    BY <1>6
  <2>2. Within("width", info) /\ Within("height", info)
    BY <2>1, DimensionCheck
  <2>3. Before("pixels") = {"width", "height"} /\ "pixels" \in Limits
    BY DEF Before, Limits, ImageLimits
  <2>4. QED
    BY <1>3, <1>6, <2>2, <2>3, ChecksInOrder, ExactQuantities
<1>7. QED
  BY <1>4, <1>5, <1>6

(* So is a rejection by the frame count or by the total. *)
LEMMA SequenceRejection ==
  ASSUME LimitsTypeOK, UNCHANGED <<limits, info>>, FrameCount(info) # None, NEW n \in 4..5,
         Exceeded(ImageChecks(info)[n]), verdict' = Error(ImageChecks(info)[n]),
         \A m \in 1..n - 1 : ~Exceeded(ImageChecks(info)[m])
  PROVE  LimitsTypeOK' /\ Safe'
<1>1. verdict'.is = "exceeded" /\ \A by : verdict' # Ok(by)
  BY DEF Error, Ok
<1>2. AcceptedIsWithinIfPixelsCapped' /\ OutputIsWithin'
  BY <1>1 DEF AcceptedIsWithinIfPixelsCapped, AcceptedIsWithin, OutputIsWithin
<1>3. Within("width", info) /\ Within("height", info) /\ Within("pixels", info)
  <2>1. \A m \in 1..3 : m \in 1..n - 1
    OBVIOUS
  <2>2. \A m \in 1..3 : ~Exceeded(DimensionChecks(info)[m])
    BY <2>1, ChecksInOrder
  <2>3. QED
    BY <2>2, DimensionCheck
<1>4. ASSUME NEW l \in Limits, NEW a \in U64, ~Within(l, info),
             ImageChecks(info)[n] = Check(l, a),
             l # "total_pixels" => a = Quantity(l, info),
             \A b \in Before(l) : Within(b, info), Quantity(l, info) \in Nat
      PROVE  LimitsTypeOK' /\ Safe'
  <2>1. limits[l] \in U64 /\ limits[l] \in Int /\ Quantity(l, info) > limits[l]
    BY <1>4 DEF LimitsTypeOK, Within, U64
  <2>2. verdict' = [is |-> "exceeded", limit |-> l, actual |-> a, max |-> limits[l]]
    BY <1>4 DEF Error, Check
  <2>3. LimitsTypeOK'
    BY <1>4, <2>1, <2>2 DEF LimitsTypeOK, Exceeding
  <2>4. RejectionIsRight'
    <3>1. /\ verdict'.limit = l /\ verdict'.actual = a /\ verdict'.max = limits[l]
      BY <2>2
    <3>2. \A b : Within(b, info)' <=> Within(b, info)
      BY DEF Within
    <3>3. Quantity(verdict.limit, info)' = Quantity(l, info)
      BY <3>1
    <3>4. \A b \in Before(l) : Within(b, info)'
      BY <1>4, <3>2
    <3>5. QED
      BY <1>4, <2>1, <3>1, <3>3, <3>4 DEF RejectionIsRight
  <2>5. QED
    BY <1>2, <2>3, <2>4 DEF Safe
<1>5. CASE n = 4
  <2>1. Before("frames") = {"width", "height", "pixels"} /\ "frames" \in Limits
    BY DEF Before, Limits, ImageLimits
  <2>2. Quantity("frames", info) \in Nat /\ Quantity("frames", info) \in U64
    BY ExactQuantities DEF U64
  <2>3. ~Within("frames", info)
    BY <1>5, SequenceCheck
  <2>4. QED
    BY <1>3, <1>4, <1>5, <2>1, <2>2, <2>3, ChecksInOrder, ExactQuantities
<1>6. CASE n = 5
  <2>1. /\ Before("total_pixels") = {"width", "height", "pixels", "frames"}
        /\ "total_pixels" \in Limits
    BY DEF Before, Limits, ImageLimits
  <2>2. Quantity("total_pixels", info) \in Nat /\ Wrap(TotalPixels(info)) \in U64
    BY ExactQuantities, Quantities DEF LimitsTypeOK
  <2>3. ~Within("total_pixels", info)
    BY <1>6, SequenceCheck
  <2>4. Within("frames", info)
    <3>1. 4 \in 1..n - 1
      BY <1>6
    <3>2. QED
      BY <3>1, SequenceCheck
  <2>5. QED
    BY <1>3, <1>4, <1>6, <2>1, <2>2, <2>3, <2>4, ChecksInOrder
<1>7. QED
  BY <1>5, <1>6

(* check_image_info keeps the promise of the limits. *)
LEMMA CheckImageInfoSafe ==
  ASSUME LimitsTypeOK, CheckImageInfo
  PROVE  LimitsTypeOK' /\ Safe'
<1>1. UNCHANGED <<limits, info>> /\ Run(ImageChecks(info), "image_info")
  BY DEF CheckImageInfo, ImageChecks
<1>2. CASE /\ verdict' = Ok("image_info")
           /\ \A n \in DOMAIN ImageChecks(info) : ~Exceeded(ImageChecks(info)[n])
  <2>1. \A n \in 1..3 : ~Exceeded(DimensionChecks(info)[n])
    <3>1. \A n \in 1..3 : ImageChecks(info)[n] = DimensionChecks(info)[n]
      BY ChecksInOrder
    <3>2. \A n \in 1..3 : ~Exceeded(ImageChecks(info)[n])
      BY <1>2, ImageCheckDomain
    <3>3. QED
      BY <3>1, <3>2
  <2>2. Within("width", info) /\ Within("height", info) /\ Within("pixels", info)
    BY <2>1, DimensionCheck
  <2>3. FrameCount(info) # None => ~Exceeded(ImageChecks(info)[4]) /\ ~Exceeded(ImageChecks(info)[5])
    BY <1>2, ImageCheckDomain
  <2>4. Within("frames", info)
    <3>1. limits["frames"] # None => limits["frames"] >= 0
      BY DEF LimitsTypeOK, U64, Limits, ImageLimits
    <3>2. QED
      BY <2>3, <3>1, SequenceCheck, ExactQuantities DEF Within
  <2>5. Pixels(info) <= U32Size => Within("total_pixels", info)
    <3>1. limits["total_pixels"] # None => limits["total_pixels"] >= 0
      BY DEF LimitsTypeOK, U64, Limits, ImageLimits
    <3>2. QED
      BY <2>3, <3>1, SequenceCheck, ExactQuantities DEF Within
  <2>6. limits["pixels"] # None /\ limits["pixels"] <= U32Size => Pixels(info) <= U32Size
    <3>1. Quantity("pixels", info) = Pixels(info) /\ Pixels(info) \in Nat
      BY Quantities DEF Quantity, LimitsTypeOK
    <3>2. limits["pixels"] # None => limits["pixels"] \in Int /\ Pixels(info) <= limits["pixels"]
      BY <2>2, <3>1 DEF Within, LimitsTypeOK, U64, Limits, ImageLimits
    <3>3. U32Size \in Int
      BY LimitsAssumption
    <3>4. QED
      BY <3>1, <3>2, <3>3
  <2>7. AcceptedIsWithinIfPixelsCapped'
    <3>1. \A l : Within(l, info)' <=> Within(l, info)
      BY <1>1 DEF Within
    <3>2. limits["pixels"] # None /\ limits["pixels"] <= U32Size =>
            \A l \in ImageLimits : Within(l, info)
      BY <2>2, <2>4, <2>5, <2>6 DEF ImageLimits
    <3>3. verdict' # Ok("memory") /\ \A m \in Measures : verdict' # Ok(m)
      BY <1>2, LimitsAssumption DEF Ok
    <3>4. QED
      BY <1>1, <3>1, <3>2, <3>3 DEF AcceptedIsWithinIfPixelsCapped, AcceptedIsWithin
  <2>8. OutputIsWithin' /\ RejectionIsRight'
    BY <1>2 DEF OutputIsWithin, RejectionIsRight, Ok
  <2>9. LimitsTypeOK'
    BY <1>1, <1>2 DEF LimitsTypeOK
  <2>10. QED
    BY <2>7, <2>8, <2>9 DEF Safe
<1>3. CASE \E n \in DOMAIN ImageChecks(info) :
             /\ Exceeded(ImageChecks(info)[n]) /\ verdict' = Error(ImageChecks(info)[n])
             /\ \A m \in 1..n - 1 : ~Exceeded(ImageChecks(info)[m])
  <2> PICK n \in DOMAIN ImageChecks(info) :
             /\ Exceeded(ImageChecks(info)[n]) /\ verdict' = Error(ImageChecks(info)[n])
             /\ \A m \in 1..n - 1 : ~Exceeded(ImageChecks(info)[m])
    BY <1>3
  <2>1. n \in 1..3 \/ (n \in 4..5 /\ FrameCount(info) # None)
    BY ImageCheckDomain
  <2>2. CASE n \in 1..3
    <3>1. \A m \in 1..3 : ImageChecks(info)[m] = DimensionChecks(info)[m]
      BY ChecksInOrder
    <3>2. \A m \in 1..n - 1 : m \in 1..3
      BY <2>2
    <3>3. \A m \in 1..n - 1 : ~Exceeded(DimensionChecks(info)[m])
      BY <3>1, <3>2
    <3>4. /\ Exceeded(DimensionChecks(info)[n])
          /\ verdict' = Error(DimensionChecks(info)[n])
      BY <2>2, <3>1
    <3>5. QED
      BY <1>1, <2>2, <3>3, <3>4, DimensionRejection
  <2>3. CASE n \in 4..5 /\ FrameCount(info) # None
    BY <1>1, <2>3, SequenceRejection
  <2>4. QED
    BY <2>1, <2>2, <2>3
<1>4. QED
  BY <1>1, <1>2, <1>3, RunEnds

(* So does check_output_info. *)
LEMMA CheckOutputInfoSafe ==
  ASSUME LimitsTypeOK, CheckOutputInfo
  PROVE  LimitsTypeOK' /\ Safe'
<1>1. UNCHANGED <<limits, info>> /\ Run(DimensionChecks(info), "output_info")
  BY DEF CheckOutputInfo
<1>2. CASE /\ verdict' = Ok("output_info")
           /\ \A n \in DOMAIN DimensionChecks(info) : ~Exceeded(DimensionChecks(info)[n])
  <2>1. Within("width", info) /\ Within("height", info) /\ Within("pixels", info)
    BY <1>2, ChecksInOrder, DimensionCheck
  <2>2. \A l : Within(l, info)' <=> Within(l, info)
    BY <1>1 DEF Within
  <2>3. OutputIsWithin'
    BY <2>1, <2>2 DEF OutputIsWithin
  <2>4. AcceptedIsWithinIfPixelsCapped' /\ RejectionIsRight' /\ LimitsTypeOK'
    BY <1>1, <1>2, LimitsAssumption DEF AcceptedIsWithinIfPixelsCapped, AcceptedIsWithin, RejectionIsRight,
       Ok, LimitsTypeOK
  <2>5. QED
    BY <2>3, <2>4 DEF Safe
<1>3. CASE \E n \in DOMAIN DimensionChecks(info) :
             /\ Exceeded(DimensionChecks(info)[n])
             /\ verdict' = Error(DimensionChecks(info)[n])
             /\ \A m \in 1..n - 1 : ~Exceeded(DimensionChecks(info)[m])
  BY <1>1, <1>3, ChecksInOrder, DimensionRejection
<1>4. QED
  BY <1>1, <1>2, <1>3, RunEnds

(* A check of one number keeps the promise of its limit where the number is *)
(* the quantity, and is right to reject where it is no more than that.       *)
LEMMA SingleCheckSafe ==
  ASSUME LimitsTypeOK, UNCHANGED <<limits, info>>, NEW l \in {"memory"} \cup Measures,
         NEW a \in U64, Quantity(l, info) \in Nat, a <= Quantity(l, info),
         l \in Measures \/ Pixels(info) <= U32Size => a = Quantity(l, info),
         Run(<<Check(l, a)>>, l)
  PROVE  LimitsTypeOK' /\ Safe'
<1>1. l \in Limits /\ l \notin ImageLimits /\ l \notin {"image_info", "output_info"}
  BY LimitsAssumption DEF Limits, ImageLimits
<1>2. \A b : Within(b, info)' <=> Within(b, info)
  BY DEF Within
<1> DEFINE m == limits[l]
           q == Quantity(l, info)
<1>3. m \in U64 \cup {None} /\ \A n \in U64 : n \in Int
  BY <1>1 DEF LimitsTypeOK, U64
<1>4. Exceeded(Check(l, a)) <=> m # None /\ a > m
  BY DEF Exceeded, Check
<1>5. Within(l, info) <=> (m # None => q <= m)
  BY DEF Within
<1>6. CASE verdict' = Ok(l) /\ ~Exceeded(Check(l, a))
  <2>1. a = q => Within(l, info)
    <3> HIDE DEF m, q
    <3>1. QED
      BY <1>3, <1>4, <1>5, <1>6
  <2>2. verdict' # Ok("image_info") /\ verdict' # Ok("output_info")
    BY <1>1, <1>6 DEF Ok
  <2>3. AcceptedIsWithin' /\ OutputIsWithin'
    BY <2>2 DEF AcceptedIsWithin, OutputIsWithin
  <2>4. ASSUME Pixels(info)' <= U32Size, verdict' = Ok("memory")
        PROVE  Within("memory", info)'
    <3>1. l = "memory" /\ Pixels(info) <= U32Size
      BY <1>6, <2>4 DEF Ok, Pixels
    <3>2. QED
      BY <1>2, <2>1, <3>1
  <2>5. ASSUME NEW b \in Measures, verdict' = Ok(b)
        PROVE  Within(b, info)'
    <3>1. l = b
      BY <1>6, <2>5 DEF Ok
    <3>2. QED
      BY <1>2, <2>1, <2>5, <3>1
  <2>6. AcceptedIsWithinIfPixelsCapped' /\ RejectionIsRight' /\ LimitsTypeOK'
    BY <1>6, <2>3, <2>4, <2>5
    DEF AcceptedIsWithinIfPixelsCapped, RejectionIsRight, Ok, LimitsTypeOK
  <2>7. QED
    BY <2>3, <2>6 DEF Safe
<1>7. CASE verdict' = Error(Check(l, a)) /\ Exceeded(Check(l, a))
  <2>1. m \in U64 /\ q > m
    <3> HIDE DEF m, q
    <3>1. q \in Nat /\ a <= q
      BY DEF q
    <3>2. QED
      BY <1>3, <1>4, <1>7, <3>1
  <2>2. verdict' = [is |-> "exceeded", limit |-> l, actual |-> a, max |-> m]
    BY <1>7 DEF Error, Check
  <2>3. LimitsTypeOK'
    BY <1>1, <2>1, <2>2 DEF LimitsTypeOK, Exceeding
  <2>4. Before(l) = {}
    BY <1>1 DEF Before, ImageLimits
  <2>5. Quantity(verdict.limit, info)' = q
    BY <2>2
  <2>6. l \in Measures \/ l = "memory"
    OBVIOUS
  <2>7. RejectionIsRight'
    BY <2>1, <2>2, <2>4, <2>5, <2>6 DEF RejectionIsRight
  <2>8. AcceptedIsWithinIfPixelsCapped' /\ OutputIsWithin'
    BY <2>2 DEF AcceptedIsWithinIfPixelsCapped, AcceptedIsWithin, OutputIsWithin, Ok
  <2>9. QED
    BY <2>3, <2>7, <2>8 DEF Safe
<1>8. QED
  <2> DEFINE checks == <<Check(l, a)>>
  <2>1. DOMAIN checks = {1} /\ checks[1] = Check(l, a)
    OBVIOUS
  <2>2. Run(checks, l)
    OBVIOUS
  <2> HIDE DEF checks
  <2>3. QED
    BY <1>6, <1>7, <2>1, <2>2, RunEnds

(* So do check_memory and the checks of what a caller measured. *)
LEMMA CheckMemorySafe ==
  ASSUME LimitsTypeOK, CheckMemory
  PROVE  LimitsTypeOK' /\ Safe'
<1>1. Quantity("memory", info) = Pixels(info) * info.bytes_per_pixel
  BY DEF Quantity
<1>2. /\ BufferSize(info) \in U64 /\ Quantity("memory", info) \in Nat
      /\ BufferSize(info) <= Quantity("memory", info)
      /\ Pixels(info) <= U32Size => BufferSize(info) = Quantity("memory", info)
  BY <1>1, Quantities DEF LimitsTypeOK
<1>3. "memory" \notin Measures
  BY LimitsAssumption
<1>4. UNCHANGED <<limits, info>> /\ Run(<<Check("memory", BufferSize(info))>>, "memory")
  BY DEF CheckMemory
<1>5. QED
  BY <1>2, <1>3, <1>4, SingleCheckSafe

(* A check of one measured quantity is right about it.                       *)
LEMMA CheckMeasuredSafe ==
  ASSUME LimitsTypeOK, NEW m \in Measures, CheckMeasured(m)
  PROVE  LimitsTypeOK' /\ Safe'
<1>1. info.measured[m] \in U64 /\ info.measured[m] \in Nat
  <2>1. info.measured[m] \in Amounts
    BY DEF LimitsTypeOK, Infos
  <2>2. \A n \in U64 : n \in Nat
    BY LimitsAssumption DEF U64, U64Size
  <2>3. QED
    BY <2>1, <2>2, LimitsAssumption
<1>2. Quantity(m, info) = info.measured[m]
  BY LimitsAssumption DEF Quantity, ImageLimits
<1>3. UNCHANGED <<limits, info>> /\ Run(<<Check(m, info.measured[m])>>, m)
  BY DEF CheckMeasured
<1>4. info.measured[m] <= Quantity(m, info)
  BY <1>1, <1>2
<1>5. QED
  BY <1>1, <1>2, <1>3, <1>4, SingleCheckSafe

-----------------------------------------------------------------------------
(* Every step keeps the types and the promises: the limits are inductive    *)
(* as they stand, because an answer is forgotten when what it was about      *)
(* changes.                                                                 *)
LEMMA StepSafe ==
  ASSUME LimitsTypeOK, Safe, [LimitsNext]_limitsVars
  PROVE  LimitsTypeOK' /\ Safe'
<1>1. ASSUME NEW l \in Limits, NEW max \in Maxima[l], WithMax(l, max)
      PROVE  LimitsTypeOK' /\ Safe'
  <2>1. max \in U64
    BY LimitsAssumption
  <2>2. verdict' = Unchecked
    BY <1>1 DEF WithMax
  <2>3. LimitsTypeOK'
    BY <1>1, <2>1 DEF WithMax, LimitsTypeOK
  <2>4. QED
    BY <2>2, <2>3, UncheckedIsSafe
<1>2. ASSUME NEW i \in Infos, Probe(i)
      PROVE  LimitsTypeOK' /\ Safe'
  <2>1. LimitsTypeOK' /\ verdict' = Unchecked
    BY <1>2 DEF Probe, LimitsTypeOK
  <2>2. QED
    BY <2>1, UncheckedIsSafe
<1>3. CASE CheckImageInfo
  BY <1>3, CheckImageInfoSafe
<1>4. CASE CheckImageInfoOverflows
  <2>1. LimitsTypeOK' /\ verdict' = Panic
    BY <1>4 DEF CheckImageInfoOverflows, LimitsTypeOK
  <2>2. QED
    BY <2>1, UncheckedIsSafe
<1>5. CASE CheckOutputInfo
  BY <1>5, CheckOutputInfoSafe
<1>6. CASE CheckMemory
  BY <1>6, CheckMemorySafe
<1>7. CASE BufferSizeOverflows
  <2>1. LimitsTypeOK' /\ verdict' = Panic
    BY <1>7 DEF BufferSizeOverflows, LimitsTypeOK
  <2>2. QED
    BY <2>1, UncheckedIsSafe
<1>8. ASSUME NEW m \in Measures, CheckMeasured(m)
      PROVE  LimitsTypeOK' /\ Safe'
  BY <1>8, CheckMeasuredSafe
<1>9. CASE UNCHANGED limitsVars
  BY <1>9 DEF limitsVars, LimitsTypeOK, Safe, AcceptedIsWithinIfPixelsCapped, AcceptedIsWithin,
              OutputIsWithin, RejectionIsRight, Within, Quantity, Pixels, TotalPixels
<1>10. QED
  BY <1>1, <1>2, <1>3, <1>4, <1>5, <1>6, <1>7, <1>8, <1>9 DEF LimitsNext

(* Initially nothing is limited and nothing was answered. *)
LEMMA InitSafe ==
  ASSUME LimitsInit
  PROVE  LimitsTypeOK /\ Safe
<1>1. LimitsTypeOK
  BY DEF LimitsInit, LimitsTypeOK
<1>2. Safe
  BY DEF LimitsInit, Safe, AcceptedIsWithinIfPixelsCapped, AcceptedIsWithin, OutputIsWithin,
         RejectionIsRight, Unchecked, Ok
<1>3. QED
  BY <1>1, <1>2

(* The invariant all of the theorems below are read from. *)
THEOREM LimitsInvariance == LimitsSpec => [](LimitsTypeOK /\ Safe)
<1>1. LimitsInit => LimitsTypeOK /\ Safe
  BY InitSafe
<1>2. LimitsTypeOK /\ Safe /\ [LimitsNext]_limitsVars => (LimitsTypeOK /\ Safe)'
  BY StepSafe
<1>3. QED
  BY <1>1, <1>2, PTL DEF LimitsSpec

(* Limits, images and answers keep their types: an actual value and a limit *)
(* that are reported are u64, for every width of the integers.              *)
THEOREM LimitsTypeCorrect == LimitsSpec => []LimitsTypeOK
<1>1. LimitsTypeOK /\ Safe => LimitsTypeOK
  OBVIOUS
<1>2. QED
  BY <1>1, LimitsInvariance, PTL

(* check_image_info never accepts an image beyond a limit if the pixels of  *)
(* a frame are capped at 2^32: with that cap the product with the frame     *)
(* count (limits.rs:459) cannot wrap, whatever the count.                   *)
THEOREM AcceptanceIsSafe == LimitsSpec => []AcceptedIsWithinIfPixelsCapped
<1>1. LimitsTypeOK /\ Safe => AcceptedIsWithinIfPixelsCapped
  BY DEF Safe
<1>2. QED
  BY <1>1, LimitsInvariance, PTL

(* check_output_info never accepts an output beyond a dimension limit: the  *)
(* product of a u32 width and a u32 height stays in u64.                    *)
THEOREM OutputIsSafe == LimitsSpec => []OutputIsWithin
<1>1. LimitsTypeOK /\ Safe => OutputIsWithin
  BY DEF Safe
<1>2. QED
  BY <1>1, LimitsInvariance, PTL

(* Neither check rejects an image that is within its limits, even where the *)
(* total wraps, and the limit it blames is the first one exceeded.          *)
THEOREM RejectionIsSound == LimitsSpec => []RejectionIsRight
<1>1. LimitsTypeOK /\ Safe => RejectionIsRight
  BY DEF Safe
<1>2. QED
  BY <1>1, LimitsInvariance, PTL

-----------------------------------------------------------------------------
(* ExifOrientation and Metadata                                              *)

(* The first of some numbers is one of them and not above any. *)
LEMMA FirstIsLeast ==
  ASSUME NEW S \in SUBSET Nat, S # {}
  PROVE  First(S) \in S /\ \A j \in S : First(S) <= j
<1>1. PICK i \in S : \A j \in S : ~(<<j, i>> \in OpToRel(<, Nat))
  BY NatLessThanWellFounded, WFMin
<1>2. \A j \in S : ~(j < i)
  <2> SUFFICES ASSUME NEW j \in S, j < i PROVE FALSE
    OBVIOUS
  <2>1. <<j, i>> \in OpToRel(<, Nat)
    BY Zenon DEF OpToRel
  <2>2. QED
    BY <1>1, <2>1
<1>3. \A j \in S : i <= j
  BY <1>2
<1>4. QED
  BY <1>3 DEF First

(* So there is a least one. *)
LEMMA LeastExists ==
  ASSUME NEW S \in SUBSET Nat, S # {}
  PROVE  \E i \in S : \A j \in S : i <= j
BY FirstIsLeast

(* A 16-bit number is a natural number. *)
LEMMA U16Nat ==
  ASSUME NEW n \in U16
  PROVE  n \in Nat /\ n <= 65535
BY SMT DEF U16

(* The parts of a blob have their types. *)
LEMMA BlobParts ==
  ASSUME NEW b, IsBlob(b)
  PROVE  /\ b.count \in Nat /\ b.bytes \in Nat
         /\ b.big_endian \in BOOLEAN
         /\ b.entries \in Seq(Entries) /\ Len(b.entries) \in Nat
         /\ b.bytes <= 12 * Len(b.entries)
<1>1. b.count \in U16 /\ b.bytes \in Nat /\ b.entries \in Seq(Entries) /\ b.big_endian \in BOOLEAN
  BY DEF IsBlob, BlobType
<1>2. b.count \in Nat
  BY <1>1, U16Nat
<1>3. Len(b.entries) \in Nat
  BY <1>1, LenProperties
<1>4. QED
  BY <1>1, <1>2, <1>3 DEF IsBlob

(* What is present of an entry is an entry of the blob. *)
LEMMA PresentEntry ==
  ASSUME NEW b, IsBlob(b), NEW i \in 1..b.count, NEW n \in Nat \ {0}, Present(b, i, n)
  PROVE  b.entries[i] \in Entries
<1>1. b.entries \in Seq(Entries) /\ Len(b.entries) \in Nat /\ b.bytes \in Nat
      /\ b.bytes <= 12 * Len(b.entries) /\ i \in Nat /\ i >= 1
  BY BlobParts
<1>2. 12 * (i - 1) + n <= b.bytes
  BY DEF Present
<1>3. i \in 1..Len(b.entries)
  BY <1>1, <1>2
<1>4. QED
  BY <1>1, <1>3, ElementOfSeq

(* A value in 1..8 is what the standard's halves say, and only that. *)
LEMMA ValueStates ==
  ASSUME NEW b, IsBlob(b), NEW e \in Entries, NEW o \in 1..8
  PROVE  Value(b, e) = o <=> States(b, e, o)
<1>1. /\ e.field \in U16 \X U16 /\ e.type \in {"SHORT", "LONG", "other"}
      /\ b.big_endian \in BOOLEAN
  BY BlobParts DEF Entries
<1>2. PICK f \in U16, g \in U16 : e.field = <<f, g>>
  BY <1>1
<1>3. f \in Nat /\ g \in Nat /\ f <= 65535 /\ g <= 65535
  BY U16Nat
<1>4. CASE e.type = "SHORT"
  BY <1>2, <1>4 DEF Value, States
<1>5. CASE e.type = "LONG" /\ b.big_endian
  <2>1. Value(b, e) = f * 65536 + g
    BY <1>2, <1>5 DEF Value
  <2>2. f * 65536 + g = o <=> f = 0 /\ g = o
    BY <1>3
  <2>3. QED
    BY <1>2, <1>5, <2>1, <2>2 DEF States
<1>6. CASE e.type = "LONG" /\ ~b.big_endian
  <2>1. Value(b, e) = g * 65536 + f
    BY <1>2, <1>6 DEF Value
  <2>2. g * 65536 + f = o <=> g = 0 /\ f = o
    BY <1>3
  <2>3. QED
    BY <1>2, <1>6, <2>1, <2>2 DEF States
<1>7. CASE e.type = "other"
  BY <1>7, ExifAssumption DEF Value, States
<1>8. QED
  BY <1>1, <1>4, <1>5, <1>6, <1>7

(* An answer of the builder's parser is the first half of an orientation tag. *)
LEMMA MetadataAnswer ==
  ASSUME NEW b, IsBlob(b), MetadataOrientation(b) # None
  PROVE  \E i \in 1..b.count : /\ Present(b, i, 10) /\ Present(b, i, 2)
                               /\ IsOrientation(b, i)
                               /\ b.entries[i].field[1] \in 1..8
                               /\ MetadataOrientation(b) = b.entries[i].field[1]
<1> DEFINE ends == {i \in 1..b.count : EndsMetadataWalk(b, i)}
           at == First(ends)
<1>1. ends # {} /\ Present(b, at, 10) /\ MetadataOrientation(b) = b.entries[at].field[1]
  BY DEF MetadataOrientation
<1>2. b.count \in Nat /\ b.bytes \in Nat
  BY BlobParts
<1>3. at \in ends
  BY <1>1, <1>2, FirstIsLeast
<1>4. at \in 1..b.count /\ EndsMetadataWalk(b, at)
  BY <1>3
<1> HIDE DEF at, ends
<1>5. Present(b, at, 2)
  BY <1>1, <1>2, <1>4 DEF Present
<1>6. QED
  BY <1>1, <1>4, <1>5 DEF EndsMetadataWalk

(* An answer of the helper is the value of a whole orientation tag. *)
LEMMA HelperAnswer ==
  ASSUME NEW b, IsBlob(b), HelperOrientation(b) # None
  PROVE  \E i \in 1..b.count : /\ Present(b, i, 12) /\ Present(b, i, 2)
                               /\ IsOrientation(b, i)
                               /\ Value(b, b.entries[i]) \in 1..8
                               /\ HelperOrientation(b) = Value(b, b.entries[i])
<1> DEFINE ends == {i \in 1..b.count : EndsHelperWalk(b, i)}
           at == First(ends)
<1>1. /\ ends # {} /\ Present(b, at, 12) /\ IsOrientation(b, at)
      /\ Value(b, b.entries[at]) \in 1..8
      /\ HelperOrientation(b) = Value(b, b.entries[at])
  BY DEF HelperOrientation
<1>2. b.count \in Nat /\ b.bytes \in Nat
  BY BlobParts
<1>3. at \in 1..b.count
  BY <1>1, <1>2, FirstIsLeast
<1> HIDE DEF at, ends
<1>4. Present(b, at, 2)
  BY <1>1, <1>2, <1>3 DEF Present
<1>5. QED
  BY <1>1, <1>3, <1>4

(* Two answers about a blob that has the tag once are the same. *)
LEMMA OnceAgree ==
  ASSUME NEW b, IsBlob(b), TagOnce(b),
         MetadataOrientation(b) # None, HelperOrientation(b) # None
  PROVE  MetadataOrientation(b) = HelperOrientation(b)
<1>1. PICK i \in 1..b.count : /\ Present(b, i, 2) /\ IsOrientation(b, i)
                              /\ b.entries[i].field[1] \in 1..8
                              /\ MetadataOrientation(b) = b.entries[i].field[1]
  BY MetadataAnswer
<1>2. PICK k \in 1..b.count : /\ Present(b, k, 2) /\ IsOrientation(b, k)
                              /\ Value(b, b.entries[k]) \in 1..8
                              /\ HelperOrientation(b) = Value(b, b.entries[k])
  BY HelperAnswer
<1>3. k = i
  BY <1>1, <1>2 DEF TagOnce
<1> DEFINE e == b.entries[i]
           o == Value(b, e)
<1>4. e \in Entries /\ o \in 1..8
  BY <1>1, <1>2, <1>3, PresentEntry
<1>5. States(b, e, o)
  BY <1>4, ValueStates
<1>6. e.field[1] = o
  BY <1>1, <1>4, <1>5 DEF States
<1>7. QED
  BY <1>1, <1>2, <1>3, <1>6

(* In a well-formed blob every entry declared is whole. *)
LEMMA WellFormedWhole ==
  ASSUME NEW b, IsBlob(b), WellFormed(b), NEW i \in 1..b.count
  PROVE  /\ Present(b, i, 2) /\ Present(b, i, 10) /\ Present(b, i, 12)
         /\ b.entries[i] \in Entries /\ b.entries[i].tag \in Nat
<1>1. b.count \in Nat /\ b.bytes \in Nat /\ 12 * b.count <= b.bytes /\ i \in Nat /\ i <= b.count
  BY BlobParts DEF WellFormed
<1>2. Present(b, i, 2) /\ Present(b, i, 10) /\ Present(b, i, 12)
  BY <1>1 DEF Present
<1>3. b.entries[i] \in Entries
  BY <1>2, PresentEntry
<1>4. b.entries[i].tag \in U16
  BY <1>3 DEF Entries
<1>5. QED
  BY <1>2, <1>3, <1>4, U16Nat

(* Its orientation tag, if it has one, is unique and after all lower tags.   *)
LEMMA WellFormedSorted ==
  ASSUME NEW b, IsBlob(b), WellFormed(b), NEW k \in 1..b.count, IsOrientation(b, k),
         NEW i \in 1..b.count
  PROVE  /\ i < k <=> b.entries[i].tag < TAG_ORIENTATION
         /\ IsOrientation(b, i) <=> i = k
<1>1. \A x, y \in 1..b.count : x < y => b.entries[x].tag < b.entries[y].tag
  BY DEF WellFormed
<1>2. \A x \in 1..b.count : b.entries[x].tag \in Nat
  BY WellFormedWhole
<1>3. b.count \in Nat
  BY BlobParts
<1>4. QED
  BY <1>1, <1>2, <1>3 DEF IsOrientation, TAG_ORIENTATION

(* What a well-formed blob states is what its one orientation tag states. *)
LEMMA StatedByTag ==
  ASSUME NEW b, IsBlob(b), WellFormed(b), NEW k \in 1..b.count, IsOrientation(b, k)
  PROVE  StandardOrientations(b) = {o \in 1..8 : o = Value(b, b.entries[k])}
<1>1. \A i \in 1..b.count : IsOrientation(b, i) <=> i = k
  BY WellFormedSorted
<1>2. b.entries[k] \in Entries
  BY WellFormedWhole
<1>3. \A o \in 1..8 : States(b, b.entries[k], o) <=> Value(b, b.entries[k]) = o
  BY <1>2, ValueStates
<1>4. QED
  BY <1>1, <1>3 DEF StandardOrientations

(* Of a well-formed blob the helper reads what it states. *)
LEMMA HelperReads ==
  ASSUME NEW b, IsBlob(b), WellFormed(b), b.count <= MAX_IFD_ENTRIES
  PROVE  Reads(HelperOrientation(b), b)
<1> DEFINE ends == {i \in 1..b.count : EndsHelperWalk(b, i)}
           at == First(ends)
<1>0. b.count \in Nat /\ b.header /\ \A i \in 1..b.count : b.entries[i].tag \in Nat
  BY BlobParts, WellFormedWhole DEF WellFormed
<1>1. CASE \E k \in 1..b.count : IsOrientation(b, k)
  <2> PICK k \in 1..b.count : IsOrientation(b, k)
    BY <1>1
  <2>1. \A i \in 1..b.count : i \in ends <=> i >= k
    BY <1>0, WellFormedWhole, WellFormedSorted DEF EndsHelperWalk, TAG_ORIENTATION
  <2>2. ends # {} /\ ends \in SUBSET Nat /\ k \in ends
    BY <1>0, <2>1
  <2>3. at \in ends /\ at <= k
    BY <2>2, FirstIsLeast
  <2>4. at = k
    BY <1>0, <2>1, <2>3
  <2>5. Present(b, k, 12) /\ b.entries[k].number >= 1
    BY WellFormedWhole DEF WellFormed
  <2>6. HelperOrientation(b) = IF Value(b, b.entries[k]) \in 1..8
                               THEN Value(b, b.entries[k]) ELSE None
    BY <1>0, <2>2, <2>4, <2>5 DEF HelperOrientation
  <2>7. StandardOrientations(b) = {o \in 1..8 : o = Value(b, b.entries[k])}
    BY StatedByTag
  <2>8. QED
    BY <2>6, <2>7 DEF Reads
<1>2. CASE ~\E k \in 1..b.count : IsOrientation(b, k)
  <2>1. StandardOrientations(b) = {}
    BY <1>2 DEF StandardOrientations
  <2>2. HelperOrientation(b) = None
    BY <1>2, HelperAnswer
  <2>3. QED
    BY <2>1, <2>2 DEF Reads
<1>3. QED
  BY <1>1, <1>2

(* The builder's parser does so too, of a SHORT without Exif prefix. *)
LEMMA MetadataReads ==
  ASSUME NEW b, IsBlob(b), WellFormed(b), IsShort(b), ~b.prefix
  PROVE  Reads(MetadataOrientation(b), b)
<1> DEFINE ends == {i \in 1..b.count : EndsMetadataWalk(b, i)}
           at == First(ends)
<1>0. b.count \in Nat /\ b.header
  BY BlobParts DEF WellFormed
<1>1. CASE \E k \in 1..b.count : IsOrientation(b, k)
  <2> PICK k \in 1..b.count : IsOrientation(b, k)
    BY <1>1
  <2>1. Value(b, b.entries[k]) = b.entries[k].field[1]
    BY DEF IsShort, Value
  <2>2. StandardOrientations(b) = {o \in 1..8 : o = b.entries[k].field[1]}
    BY <2>1, StatedByTag
  <2>3. \A i \in 1..b.count : i \in ends <=> i = k /\ b.entries[k].field[1] \in 1..8
    BY WellFormedWhole, WellFormedSorted DEF EndsMetadataWalk
  <2>4. CASE b.entries[k].field[1] \in 1..8
    <3>1. ends = {k} /\ ends \in SUBSET Nat
      BY <1>0, <2>3, <2>4
    <3>2. at = k
      BY <3>1, FirstIsLeast
    <3>3. MetadataOrientation(b) = b.entries[k].field[1]
      BY <1>0, <3>1, <3>2, WellFormedWhole DEF MetadataOrientation
    <3>4. QED
      BY <2>2, <2>4, <3>3 DEF Reads
  <2>5. CASE b.entries[k].field[1] \notin 1..8
    <3>1. ends = {}
      BY <2>3, <2>5
    <3>2. MetadataOrientation(b) = None
      BY <3>1 DEF MetadataOrientation
    <3>3. QED
      BY <2>2, <2>5, <3>2 DEF Reads
  <2>6. QED
    BY <2>4, <2>5
<1>2. CASE ~\E k \in 1..b.count : IsOrientation(b, k)
  <2>1. StandardOrientations(b) = {}
    BY <1>2 DEF StandardOrientations
  <2>2. MetadataOrientation(b) = None
    BY <1>2, MetadataAnswer
  <2>3. QED
    BY <2>1, <2>2 DEF Reads
<1>3. QED
  BY <1>1, <1>2

-----------------------------------------------------------------------------
(* What the builder's parser answers is an orientation.                      *)
LEMMA AnswersAreOrientations ==
  ASSUME NEW b, IsBlob(b), MetadataOrientation(b) # None
  PROVE  MetadataOrientation(b) \in 1..8
BY MetadataAnswer

(* A Metadata is made of its type: from nothing, or as a decoder reports.    *)
LEMMA InitTyped == MetadataInit => MetadataTypeOK
<1> SUFFICES ASSUME MetadataInit PROVE MetadataTypeOK
  OBVIOUS
<1>1. exif \in Reported \cup {None} /\ orientation \in 1..8
  <2>1. CASE New
    BY <2>1 DEF New, Identity
  <2>2. CASE FromInfo
    BY <2>2, MetadataAssumption DEF FromInfo
  <2>3. QED
    BY <2>1, <2>2 DEF MetadataInit
<1>2. [call |-> "new", orientation |-> orientation] \in Sets \cup Stores
  BY <1>1 DEF Sets
<1>3. given \in Seq(Sets \cup Stores)
  BY <1>2 DEF MetadataInit
<1>4. QED
  BY <1>1, <1>3 DEF MetadataTypeOK

(* Every builder call keeps it so. *)
LEMMA NextTyped == MetadataTypeOK /\ [MetadataNext]_metadataVars => MetadataTypeOK'
<1> SUFFICES ASSUME MetadataTypeOK, [MetadataNext]_metadataVars PROVE MetadataTypeOK'
  OBVIOUS
<1> USE DEF MetadataTypeOK
<1>1. ASSUME NEW b \in Blobs, WithExif(b) PROVE MetadataTypeOK'
  <2>1. exif' = b /\ orientation' \in 1..8
    BY <1>1, MetadataAssumption, AnswersAreOrientations DEF WithExif
  <2>2. [call |-> "with_exif", blob |-> b] \in Sets \cup Stores
    BY DEF Stores
  <2>3. given' \in Seq(Sets \cup Stores)
    BY <1>1, <2>2, AppendProperties DEF WithExif
  <2>4. exif' \in Reported
    BY <2>1, MetadataAssumption
  <2>5. QED
    BY <2>1, <2>3, <2>4
<1>2. ASSUME NEW o \in Orientations, WithOrientation(o) PROVE MetadataTypeOK'
  <2>1. exif' = exif /\ orientation' \in 1..8
    BY <1>2, MetadataAssumption DEF WithOrientation
  <2>2. [call |-> "with_orientation", orientation |-> o] \in Sets \cup Stores
    BY MetadataAssumption DEF Sets
  <2>3. given' \in Seq(Sets \cup Stores)
    BY <1>2, <2>2, AppendProperties DEF WithOrientation
  <2>4. QED
    BY <2>1, <2>3
<1>3. CASE UNCHANGED metadataVars
  BY <1>3 DEF metadataVars
<1>4. QED
  BY <1>1, <1>2, <1>3 DEF MetadataNext

(* The state stays of its type: a blob or none, and an orientation.          *)
THEOREM MetadataTypeCorrect == MetadataSpec => []MetadataTypeOK
BY InitTyped, NextTyped, PTL DEF MetadataSpec

(* For every blob with the tag once, whatever its length and wherever it is  *)
(* cut: the two parsers do not contradict each other.                       *)
THEOREM TwoParsersAgree == MetadataSpec => []TwoAnswersAgree
<1>1. MetadataTypeOK => TwoAnswersAgree
  BY MetadataAssumption, OnceAgree DEF MetadataTypeOK, TwoAnswersAgree
<1>2. QED
  BY <1>1, MetadataTypeCorrect, PTL

(* For every well-formed blob of any length: the helper reads what it says,  *)
(* and so does the builder's parser of a SHORT without the Exif prefix.      *)
THEOREM WellFormedBlobsAreRead == MetadataSpec => []WellFormedIsRead
<1>1. MetadataTypeOK => WellFormedIsRead
  BY MetadataAssumption, HelperReads, MetadataReads DEF MetadataTypeOK, WellFormedIsRead
<1>2. QED
  BY <1>1, MetadataTypeCorrect, PTL

-----------------------------------------------------------------------------
(* Some call set the orientation last; the history then explains it.         *)
Explained ==
  /\ MetadataTypeOK
  /\ \E i \in SetOutright : \A j \in SetOutright : j <= i
  /\ OrientationIsExplained

(* Of numbers, the first stays the first when later ones are added.          *)
LEMMA FirstStays ==
  ASSUME NEW S \in SUBSET Nat, S # {}, NEW m \in Nat, \A i \in S : i < m
  PROVE  First(S \cup {m}) = First(S)
<1>1. First(S) \in S /\ \A j \in S : First(S) <= j
  BY FirstIsLeast
<1>2. First(S \cup {m}) \in S \cup {m} /\ \A j \in S \cup {m} : First(S \cup {m}) <= j
  BY FirstIsLeast
<1> DEFINE x == First(S)
           y == First(S \cup {m})
<1>3. x \in Nat /\ x < m /\ y <= x /\ y \in S \cup {m} /\ \A j \in S : x <= j
  BY <1>1, <1>2
<1> HIDE DEF x, y
<1>4. y \in S
  BY <1>3
<1>5. x = y
  BY <1>3, <1>4
<1>6. QED
  BY <1>5 DEF x, y

(* The setting LastSet names is one, and the last. *)
LEMMA LastIsLast ==
  ASSUME \E i \in SetOutright : \A j \in SetOutright : j <= i
  PROVE  LastSet \in SetOutright /\ \A j \in SetOutright : j <= LastSet
BY DEF LastSet

(* The history starts with how the Metadata was made. *)
LEMMA InitExplained == MetadataInit => Explained
<1> SUFFICES ASSUME MetadataInit PROVE Explained
  OBVIOUS
<1>1. MetadataTypeOK
  BY InitTyped
<1>2. DOMAIN given = {1} /\ given[1].call = "new" /\ given[1].orientation = orientation
  BY DEF MetadataInit
<1>3. SetOutright = {1}
  BY <1>2 DEF SetOutright
<1>4. LastSet = 1
  BY <1>3, LastIsLast
<1>5. Turns = {}
  BY <1>2, <1>4 DEF Turns
<1>6. QED
  BY <1>1, <1>2, <1>3, <1>4, <1>5 DEF Explained, OrientationIsExplained

(* with_exif adds no setting; the blob turns the image only from Identity.   *)
LEMMA WithExifExplained ==
  ASSUME Explained, NEW b \in Blobs, WithExif(b)
  PROVE  Explained'
<1> DEFINE n == Len(given)
           answer == MetadataOrientation(b)
           set == given[LastSet].orientation
<1>1. MetadataTypeOK /\ MetadataTypeOK'
  BY NextTyped DEF Explained, MetadataNext
<1>2. n \in Nat /\ DOMAIN given = 1..n
  BY <1>1, LenProperties DEF MetadataTypeOK
<1>3. /\ DOMAIN given' = 1..(n+1)
      /\ \A i \in 1..n : given'[i] = given[i]
      /\ given'[n+1].call = "with_exif" /\ given'[n+1].blob = b
  BY <1>1, AppendProperties DEF MetadataTypeOK, WithExif
<1> HIDE DEF n
<1>4. SetOutright' = SetOutright
  BY <1>2, <1>3 DEF SetOutright
<1>5. LastSet' = LastSet
  BY <1>4 DEF LastSet
<1>6. LastSet \in 1..n
  BY <1>2, LastIsLast DEF Explained, SetOutright
<1>7. set' = set
  BY <1>3, <1>5, <1>6
<1>8. Turns' = IF answer \in {None, Identity} THEN Turns ELSE Turns \cup {n+1}
  BY <1>2, <1>3, <1>5, <1>6 DEF Turns
<1>9. Turns \in SUBSET (1..n) /\ \A i \in Turns : MetadataOrientation(given[i].blob) # Identity
  BY <1>2 DEF Turns
<1>10. Turns # {} => First(Turns) \in Turns
  BY <1>2, <1>9, FirstIsLeast
<1>11. orientation = IF set # Identity \/ Turns = {} THEN set
                     ELSE MetadataOrientation(given[First(Turns)].blob)
  BY DEF Explained, OrientationIsExplained
<1>12. orientation' = IF orientation = Identity /\ answer # None THEN answer ELSE orientation
  BY DEF WithExif
<1>13. OrientationIsExplained'
  <2>1. SUFFICES orientation' = IF set # Identity \/ Turns' = {} THEN set
                                ELSE MetadataOrientation(given'[First(Turns')].blob)
    BY <1>7 DEF OrientationIsExplained
  <2> HIDE DEF set, answer
  <2>2. CASE set # Identity
    BY <1>11, <1>12, <2>2
  <2>3. CASE set = Identity /\ Turns = {}
    <3>1. CASE answer \in {None, Identity}
      BY <1>8, <1>11, <1>12, <2>3, <3>1
    <3>2. CASE answer \notin {None, Identity}
      <4>1. Turns' = {n+1}
        BY <1>8, <2>3, <3>2
      <4>2. First(Turns') = n+1
        BY <1>2, <4>1, FirstIsLeast
      <4>3. QED
        BY <1>3, <1>11, <1>12, <2>3, <3>2, <4>1, <4>2 DEF answer
    <3>3. QED
      BY <3>1, <3>2
  <2>4. CASE set = Identity /\ Turns # {}
    <3>1. orientation' = MetadataOrientation(given[First(Turns)].blob)
      BY <1>9, <1>10, <1>11, <1>12, <2>4
    <3>2. First(Turns') = First(Turns) /\ Turns' # {}
      BY <1>2, <1>8, <1>9, <2>4, FirstStays
    <3>3. given'[First(Turns)] = given[First(Turns)]
      BY <1>3, <1>9, <1>10, <2>4
    <3>4. QED
      BY <2>4, <3>1, <3>2, <3>3
  <2>5. QED
    BY <2>2, <2>3, <2>4
<1>14. QED
  BY <1>1, <1>4, <1>13 DEF Explained

(* with_orientation is the last setting, with no blob after it. *)
LEMMA WithOrientationExplained ==
  ASSUME Explained, NEW o \in Orientations, WithOrientation(o)
  PROVE  Explained'
<1> DEFINE n == Len(given)
<1>1. MetadataTypeOK /\ MetadataTypeOK'
  BY NextTyped DEF Explained, MetadataNext
<1>2. n \in Nat /\ DOMAIN given = 1..n
  BY <1>1, LenProperties DEF MetadataTypeOK
<1>3. /\ DOMAIN given' = 1..(n+1)
      /\ \A i \in 1..n : given'[i] = given[i]
      /\ given'[n+1].call = "with_orientation" /\ given'[n+1].orientation = o
  BY <1>1, AppendProperties DEF MetadataTypeOK, WithOrientation
<1> HIDE DEF n
<1>4. n+1 \in SetOutright' /\ \A j \in SetOutright' : j <= n+1
  BY <1>2, <1>3 DEF SetOutright
<1>5. LastSet' = n+1
  <2>1. LastSet' \in SetOutright' /\ \A j \in SetOutright' : j <= LastSet'
    BY <1>4 DEF LastSet
  <2>2. SetOutright' \in SUBSET Nat
    BY <1>2, <1>3 DEF SetOutright
  <2>3. QED
    BY <1>2, <1>4, <2>1, <2>2
<1>6. Turns' = {}
  BY <1>2, <1>3, <1>5 DEF Turns
<1>7. QED
  BY <1>1, <1>3, <1>4, <1>5, <1>6
  DEF Explained, OrientationIsExplained, WithOrientation

(* Whatever the number and order of the calls: the last orientation set      *)
(* holds, unless it was Identity; then the first blob since that turns the   *)
(* image decides.                                                           *)
THEOREM OrientationExplained == MetadataSpec => []OrientationIsExplained
<1>1. Explained /\ [MetadataNext]_metadataVars => Explained'
  <2> SUFFICES ASSUME Explained, [MetadataNext]_metadataVars PROVE Explained'
    OBVIOUS
  <2>1. CASE MetadataNext
    BY <2>1, WithExifExplained, WithOrientationExplained DEF MetadataNext
  <2>2. CASE UNCHANGED metadataVars
    <3>1. SetOutright' = SetOutright
      BY <2>2 DEF SetOutright, metadataVars
    <3>2. LastSet' = LastSet
      BY <3>1 DEF LastSet
    <3>3. Turns' = Turns
      BY <2>2, <3>2 DEF Turns, metadataVars
    <3>4. QED
      BY <2>2, <3>1, <3>2, <3>3, NextTyped DEF Explained, OrientationIsExplained, metadataVars
  <2>3. QED
    BY <2>1, <2>2
<1>2. Explained => OrientationIsExplained
  BY DEF Explained
<1>3. QED
  BY InitExplained, <1>1, <1>2, PTL DEF MetadataSpec
=============================================================================
