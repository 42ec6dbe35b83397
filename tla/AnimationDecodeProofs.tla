------------------------ MODULE AnimationDecodeProofs ------------------------
(***************************************************************************)
(* Proofs about AnimationDecode, for animations of any length and height,   *)
(* any start frame, and any behaviour of caller, canceller and sink.        *)
(***************************************************************************)
EXTENDS AnimationDecode, SinkCopyProofs

-----------------------------------------------------------------------------
(* Where the frames start..next - 1 are: handed over (d), lost (l), or on    *)
(* their way (f).                                                           *)
RangeOf(d) == {d[i] : i \in DOMAIN d}

Accounted(d, l, f, s, next) ==
  /\ \A i, j \in DOMAIN d : i < j => d[i] < d[j]
  /\ RangeOf(d) \cap l = {}
  /\ f \cap (RangeOf(d) \cup l) = {}
  /\ RangeOf(d) \cup l \cup f = s..next - 1

(* The decoder passes a frame, which is then on its way. *)
LEMMA TakeFrame ==
  ASSUME NEW d, NEW l, NEW s \in Nat, NEW p \in Nat, s <= p, Accounted(d, l, {}, s, p)
  PROVE  Accounted(d, l, {p}, s, p + 1)
<1>1. s..(p + 1) - 1 = (s..p - 1) \cup {p} /\ p \notin s..p - 1
  OBVIOUS
<1>2. RangeOf(d) \cup l = s..p - 1
  BY DEF Accounted
<1>3. QED
  BY <1>1, <1>2 DEF Accounted

(* A frame on its way is lost. *)
LEMMA LoseFrame ==
  ASSUME NEW d, NEW l, NEW s, NEW p, NEW n, Accounted(d, l, {p}, s, n)
  PROVE  Accounted(d, l \cup {p}, {}, s, n)
BY DEF Accounted

(* A frame on its way is handed over: all the others came before it. *)
LEMMA HandOver ==
  ASSUME NEW d \in Seq(Nat), NEW l, NEW s \in Nat, NEW p \in Nat,
         Accounted(d, l, {p}, s, p + 1)
  PROVE  Accounted(Append(d, p), l, {}, s, p + 1)
<1> DEFINE e == Append(d, p)
<1>1. /\ Len(d) \in Nat /\ DOMAIN d = 1..Len(d) /\ DOMAIN e = 1..Len(d) + 1
      /\ \A i \in DOMAIN d : e[i] = d[i]
      /\ e[Len(d) + 1] = p
  OBVIOUS
<1> HIDE DEF e
<1>2. RangeOf(e) = RangeOf(d) \cup {p}
  BY <1>1 DEF RangeOf
<1>3. \A i \in DOMAIN d : d[i] \in Nat /\ d[i] < p
  <2>1. SUFFICES ASSUME NEW i \in DOMAIN d
                 PROVE  d[i] < p
    OBVIOUS
  <2>2. d[i] \in RangeOf(d)
    BY DEF RangeOf
  <2>3. d[i] \in s..(p + 1) - 1 /\ d[i] # p
    BY <2>2 DEF Accounted
  <2>4. QED
    BY <2>3
<1>4. \A i, j \in DOMAIN e : i < j => e[i] < e[j]
  <2>1. SUFFICES ASSUME NEW i \in DOMAIN e, NEW j \in DOMAIN e, i < j
                 PROVE  e[i] < e[j]
    OBVIOUS
  <2>2. i \in DOMAIN d
    BY <1>1, <2>1
  <2>3. CASE j \in DOMAIN d
    BY <1>1, <2>1, <2>2, <2>3 DEF Accounted
  <2>4. CASE j \notin DOMAIN d
    BY <1>1, <1>3, <2>2, <2>4
  <2>5. QED
    BY <2>3, <2>4
<1>5. Accounted(e, l, {}, s, p + 1)
  BY <1>2, <1>4 DEF Accounted
<1>6. QED
  BY <1>5 DEF e

-----------------------------------------------------------------------------
(* The decoder's position: never before the start frame, and beyond it only  *)
(* over frames that are there; where it began during a call until a frame   *)
(* is rendered; one past the picture while that is being copied.            *)
Position ==
  /\ start <= current_frame
  /\ current_frame = start \/ current_frame <= available
  /\ pc \in {"check", "render"} => current_frame = entry
  /\ pc \in CopySteps => current_frame = pic + 1 /\ start <= pic
  /\ pc # "idle" => outcome = "running"

IInv ==
  /\ TypeOK
  /\ CopyInv
  /\ Position
  /\ FramesAccounted
  /\ EndIsEarned
  /\ FailedCallKeepsPosition

LEMMA AccountedFrames ==
  FramesAccounted <=> Accounted(delivered, lost, InFlight, start, current_frame)
BY DEF FramesAccounted, Accounted, Delivered, RangeOf

LEMMA AccountedFramesNext ==
  (FramesAccounted <=> Accounted(delivered, lost, InFlight, start, current_frame))'
BY AccountedFrames, PTL

(* Nothing is known to have arrived before the first call. *)
LEMMA InitIInv == Init => IInv
<1> SUFFICES ASSUME Init
             PROVE  IInv
  OBVIOUS
<1>1. 0 \in Pictures /\ canvas \in Heights /\ pc \notin CopySteps
  BY AnimationAssumption DEF Init, CopySteps
<1>2. CopyInv
  BY <1>1, CopyInitInv DEF Init
<1>3. TypeOK
  <2>1. /\ pc = "idle" /\ outcome \in Outcomes
        /\ frame_count \in 1..MaxFrames /\ available \in 0..frame_count
        /\ start \in 0..MaxStart /\ canvas \in Heights /\ cancelled \in BOOLEAN
    BY DEF Init, Outcomes
  <2>2. current_frame \in Nat /\ entry \in Nat
    BY AnimationAssumption DEF Init
  <2>3. call \in Calls
    BY DEF Init, Calls
  <2>4. delivered \in Seq(Nat) /\ lost \subseteq Nat
    BY DEF Init
  <2>5. QED
    BY <1>2, <2>1, <2>2, <2>3, <2>4 DEF TypeOK, CopyInv
<1>4. Position
  BY <1>1, <1>3 DEF Init, Position, TypeOK
<1>5. FramesAccounted
  <2>1. InFlight = {} /\ RangeOf(delivered) = {} /\ lost = {} /\ start \in Nat
        /\ current_frame = start
    BY <1>1, AnimationAssumption DEF Init, InFlight, RangeOf
  <2>2. start..current_frame - 1 = {}
    BY <2>1
  <2>3. \A i, j \in DOMAIN delivered : i < j => delivered[i] < delivered[j]
    BY DEF Init
  <2>4. Accounted(delivered, lost, InFlight, start, current_frame)
    BY <2>1, <2>2, <2>3 DEF Accounted
  <2>5. QED
    BY <2>4, AccountedFrames
<1>6. EndIsEarned /\ FailedCallKeepsPosition
  BY DEF Init, EndIsEarned, FailedCallKeepsPosition
<1>7. QED
  BY <1>2, <1>3, <1>4, <1>5, <1>6 DEF IInv

(* A step that leaves the decoder's frames where they are. *)
LEMMA SameFrames ==
  ASSUME FramesAccounted, InFlight' = InFlight,
         UNCHANGED <<delivered, lost, start, current_frame>>
  PROVE  FramesAccounted'
BY AccountedFrames, AccountedFramesNext

(* A call begins. *)
LEMMA CallKeeps ==
  ASSUME IInv, NEW c \in Calls, Call(c)
  PROVE  IInv'
<1>1. CopyInv'
  BY OutsideKeeps DEF IInv, Call, CopySteps
<1>2. InFlight' = InFlight
  BY DEF Call, InFlight, CopySteps
<1>3. FramesAccounted'
  BY <1>2, SameFrames DEF IInv, Call, file
<1>4. TypeOK'
  BY <1>1 DEF IInv, TypeOK, Call, CopyInv, Outcomes, file
<1>5. Position' /\ EndIsEarned' /\ FailedCallKeepsPosition'
  BY DEF IInv, Call, Position, CopySteps, EndIsEarned, FailedCallKeepsPosition, file
<1>6. QED
  BY <1>1, <1>3, <1>4, <1>5 DEF IInv

(* The token is cancelled. *)
LEMMA CancelKeeps ==
  ASSUME IInv, Cancel
  PROVE  IInv'
<1>1. UNCHANGED <<copyVars, file, current_frame, call, entry, delivered, lost>>
      /\ cancelled' \in BOOLEAN
  BY DEF Cancel
<1>2. CopyInv'
  BY <1>1 DEF IInv, CopyInv, CopyTypeOK, copyVars, OpenSink, WrittenTo
<1>3. TypeOK'
  BY <1>1, <1>2 DEF IInv, TypeOK, CopyInv, copyVars, file
<1>4. InFlight' = InFlight
  BY <1>1 DEF InFlight, copyVars
<1>5. FramesAccounted'
  BY <1>1, <1>4, SameFrames DEF IInv, file
<1>6. Delivered' = Delivered
  BY <1>1 DEF Delivered
<1>7. Position' /\ EndIsEarned' /\ FailedCallKeepsPosition'
  BY <1>1, <1>6 DEF IInv, Position, EndIsEarned, FailedCallKeepsPosition, copyVars, file
<1>8. QED
  BY <1>2, <1>3, <1>5, <1>7 DEF IInv

(* The stop check sends the call back or on. *)
LEMMA CheckStopKeeps ==
  ASSUME IInv, CheckStop
  PROVE  IInv'
<1>1. /\ UNCHANGED <<pic, rows, row, sink, file, current_frame, cancelled, call, entry,
                     delivered, lost>>
      /\ pc = "check"
      /\ \/ pc' = "idle" /\ outcome' = "stopped"
         \/ pc' = "render" /\ outcome' = outcome
  BY DEF CheckStop, Return
<1>2. CopyInv'
  BY <1>1, OutsideKeeps DEF IInv, CopySteps
<1>3. TypeOK'
  BY <1>1, <1>2 DEF IInv, TypeOK, CopyInv, file, Outcomes
<1>4. InFlight' = InFlight
  BY <1>1 DEF InFlight, CopySteps
<1>5. FramesAccounted'
  BY <1>1, <1>4, SameFrames DEF IInv, file
<1>6. Position' /\ EndIsEarned' /\ FailedCallKeepsPosition'
  BY <1>1 DEF IInv, Position, EndIsEarned, FailedCallKeepsPosition, CopySteps, file
<1>7. QED
  BY <1>2, <1>3, <1>5, <1>6 DEF IInv

(* Nothing left, or nothing readable: the decoder stays where it is, and it  *)
(* says the end only if the frames from the start on are all accounted for. *)
LEMMA RenderNothingKeeps ==
  ASSUME IInv, pc = "render", RenderNothing, UNCHANGED <<file, cancelled, call, entry>>
  PROVE  IInv'
<1>1. /\ UNCHANGED <<pic, rows, row, sink, file, current_frame, cancelled, call, entry,
                     delivered, lost>>
      /\ pc' = "idle"
      /\ \/ outcome' = "end" /\ current_frame >= frame_count
         \/ outcome' = "truncated"
  BY DEF RenderNothing, Return
<1>2. CopyInv'
  BY <1>1, OutsideKeeps DEF IInv, CopySteps
<1>3. TypeOK'
  BY <1>1, <1>2 DEF IInv, TypeOK, CopyInv, file, Outcomes
<1>4. InFlight = {} /\ InFlight' = {}
  BY <1>1 DEF InFlight, CopySteps
<1>5. FramesAccounted'
  BY <1>1, <1>4, SameFrames DEF IInv, file
<1>6. Position' /\ FailedCallKeepsPosition'
  BY <1>1 DEF IInv, Position, FailedCallKeepsPosition, CopySteps, file
<1>7. EndIsEarned'
  <2>1. SUFFICES ASSUME outcome' = "end"
                 PROVE  /\ Delivered \cup lost = start..frame_count - 1
                        /\ available = frame_count \/ start >= frame_count
    BY <1>1 DEF EndIsEarned, Delivered, file
  <2>2. Delivered \cup lost = start..current_frame - 1
    BY <1>4 DEF IInv, FramesAccounted
  <2>3. /\ current_frame \in Nat /\ start \in Nat /\ frame_count \in Nat
        /\ available \in 0..frame_count
    BY AnimationAssumption DEF IInv, TypeOK
  <2>4. current_frame >= frame_count
    BY <1>1, <2>1
  <2>5. CASE current_frame <= available
    <3>1. current_frame = frame_count /\ available = frame_count
      BY <2>3, <2>4, <2>5
    <3>2. QED
      BY <2>2, <3>1
  <2>6. CASE current_frame = start
    <3>1. start..current_frame - 1 = {} /\ start..frame_count - 1 = {}
      BY <2>3, <2>4, <2>6
    <3>2. QED
      BY <2>2, <2>4, <2>6, <3>1
  <2>7. QED
    BY <2>5, <2>6 DEF IInv, Position
<1>8. QED
  BY <1>2, <1>3, <1>5, <1>6, <1>7 DEF IInv

(* A frame is rendered: handed over at once, or on its way to the sink.      *)
LEMMA RenderFrameKeeps ==
  ASSUME IInv, pc = "render", RenderFrame, UNCHANGED <<file, cancelled, call, entry>>
  PROVE  IInv'
<1>1. /\ current_frame \in Nat /\ start \in Nat /\ start <= current_frame
      /\ available \in 0..frame_count /\ frame_count \in 1..MaxFrames /\ MaxFrames \in Nat
      /\ delivered \in Seq(Nat) /\ lost \subseteq Nat /\ canvas \in Heights
  BY AnimationAssumption DEF IInv, TypeOK, Position
<1>2. /\ current_frame < frame_count /\ current_frame < available
      /\ current_frame' = current_frame + 1 /\ lost' = lost
      /\ UNCHANGED <<file, cancelled, call, entry>>
  BY DEF RenderFrame
<1>3. current_frame \in Pictures
  BY <1>1, <1>2, AnimationAssumption
<1>4. Accounted(delivered, lost, {current_frame}, start, current_frame + 1)
  <2>1. InFlight = {}
    BY DEF InFlight, CopySteps
  <2>2. Accounted(delivered, lost, {}, start, current_frame)
    BY <2>1, AccountedFrames DEF IInv
  <2>3. QED
    BY <1>1, <2>2, TakeFrame
<1>5. outcome = "running"
  BY DEF IInv, Position
<1>6. CASE call.method = "render_next_frame"
  <2>1. /\ pc' = "idle" /\ outcome' = "ok" /\ delivered' = Append(delivered, current_frame)
        /\ UNCHANGED <<pic, rows, row, sink>>
    BY <1>6 DEF RenderFrame, Return
  <2>2. CopyInv'
    BY <2>1, OutsideKeeps DEF IInv, CopySteps
  <2>3. delivered' \in Seq(Nat)
    BY <1>1, <2>1
  <2>4. TypeOK'
    BY <1>1, <1>2, <2>1, <2>2, <2>3 DEF IInv, TypeOK, CopyInv, file, Outcomes
  <2>5. FramesAccounted'
    <3>1. InFlight' = {}
      BY <2>1 DEF InFlight, CopySteps
    <3>2. Accounted(delivered', lost', {}, start', current_frame')
      BY <1>1, <1>2, <1>4, <2>1, HandOver DEF file
    <3>3. QED
      BY <3>1, <3>2, AccountedFramesNext
  <2>6. Position' /\ EndIsEarned' /\ FailedCallKeepsPosition'
    BY <1>1, <1>2, <2>1
    DEF Position, EndIsEarned, FailedCallKeepsPosition, CopySteps, file
  <2>7. QED
    BY <2>2, <2>4, <2>5, <2>6 DEF IInv
<1>7. CASE call.method # "render_next_frame"
  <2>1. StartCopy(current_frame, canvas) /\ delivered' = delivered
    BY <1>7 DEF RenderFrame
  <2>2. pc' = "begin" /\ pic' = current_frame /\ outcome' = outcome
    BY <2>1 DEF StartCopy
  <2>3. CopyInv'
    BY <1>1, <1>3, <2>1, StartCopyKeeps DEF IInv
  <2>4. TypeOK'
    BY <1>1, <1>2, <2>1, <2>2, <2>3 DEF IInv, TypeOK, CopyInv, file, CopySteps
  <2>5. FramesAccounted'
    <3>1. InFlight' = {current_frame}
      BY <2>2 DEF InFlight, CopySteps
    <3>2. Accounted(delivered', lost', InFlight', start', current_frame')
      BY <1>2, <1>4, <2>1, <3>1 DEF file
    <3>3. QED
      BY <3>2, AccountedFramesNext
  <2>6. Position' /\ EndIsEarned' /\ FailedCallKeepsPosition'
    BY <1>1, <1>2, <1>5, <2>2
    DEF Position, EndIsEarned, FailedCallKeepsPosition, CopySteps, file
  <2>7. QED
    BY <2>3, <2>4, <2>5, <2>6 DEF IInv
<1>8. QED
  BY <1>6, <1>7

(* A step of the copy: the picture stays on its way, arrives, or is lost.    *)
LEMMA ToSinkKeeps ==
  ASSUME IInv, ToSink
  PROVE  IInv'
<1>1. CopyStep /\ UNCHANGED <<file, current_frame, cancelled, call, entry>>
  BY DEF ToSink
<1>2. pc \in CopySteps
  BY <1>1 DEF CopyStep, Begin, Provide, CopyRow, DropBuffer, Finish, CopySteps
<1>3. outcome = "running"
  BY <1>2 DEF IInv, Position, CopySteps
<1>4. /\ pic' = pic
      /\ \/ pc' \in CopySteps /\ outcome' = "running"
         \/ pc' = "idle" /\ outcome' \in {"ok", "sink_error", "panic"}
  BY <1>1, <1>3, CopyStepEnds DEF IInv
<1>5. CopyInv'
  BY <1>1, CopyStepKeeps DEF IInv
<1>6. /\ pic \in Pictures /\ pic \in Nat /\ start \in Nat /\ start <= pic
      /\ current_frame = pic + 1
      /\ delivered \in Seq(Nat) /\ lost \subseteq Nat
  BY <1>2, AnimationAssumption DEF IInv, TypeOK, CopyTypeOK, Position
<1>7. Accounted(delivered, lost, {pic}, start, pic + 1)
  BY <1>2, <1>6, AccountedFrames DEF IInv, InFlight
<1>8. delivered' \in Seq(Nat) /\ lost' \subseteq Nat
  BY <1>6 DEF ToSink
<1>9. TypeOK'
  BY <1>1, <1>4, <1>5, <1>8 DEF IInv, TypeOK, CopyInv, file, Outcomes
<1>10. FramesAccounted'
  <2>1. CASE outcome' = "running"
    <3>1. InFlight' = InFlight /\ delivered' = delivered /\ lost' = lost
      BY <1>2, <1>4, <2>1 DEF InFlight, ToSink
    <3>2. QED
      BY <1>1, <3>1, SameFrames DEF IInv, file
  <2>2. CASE outcome' = "ok"
    <3>1. InFlight' = {} /\ delivered' = Append(delivered, pic) /\ lost' = lost
      BY <1>4, <2>2 DEF InFlight, ToSink, CopySteps
    <3>2. Accounted(delivered', lost', {}, start', current_frame')
      BY <1>1, <1>6, <1>7, <3>1, HandOver DEF file
    <3>3. QED
      BY <3>1, <3>2, AccountedFramesNext
  <2>3. CASE outcome' \in {"sink_error", "panic"}
    <3>1. InFlight' = {} /\ delivered' = delivered /\ lost' = lost \cup {pic}
      BY <1>4, <2>3 DEF InFlight, ToSink, CopySteps
    <3>2. Accounted(delivered', lost', {}, start', current_frame')
      BY <1>1, <1>6, <1>7, <3>1, LoseFrame DEF file
    <3>3. QED
      BY <3>1, <3>2, AccountedFramesNext
  <2>4. QED
    BY <1>4, <2>1, <2>2, <2>3
<1>11. Position' /\ EndIsEarned' /\ FailedCallKeepsPosition'
  BY <1>1, <1>2, <1>4
  DEF IInv, Position, EndIsEarned, FailedCallKeepsPosition, CopySteps, file
<1>12. QED
  BY <1>5, <1>9, <1>10, <1>11 DEF IInv

(* IInv is inductive. *)
LEMMA NextIInv == IInv /\ [Next]_vars => IInv'
<1> SUFFICES ASSUME IInv, [Next]_vars
             PROVE  IInv'
  OBVIOUS
<1>1. CASE \E c \in Calls : Call(c)
  BY <1>1, CallKeeps
<1>2. CASE Cancel
  BY <1>2, CancelKeeps
<1>3. CASE CheckStop
  BY <1>3, CheckStopKeeps
<1>4. CASE Render
  BY <1>4, RenderNothingKeeps, RenderFrameKeeps DEF Render
<1>5. CASE ToSink
  BY <1>5, ToSinkKeeps
<1>6. CASE UNCHANGED vars
  <2>1. CopyInv'
    BY <1>6 DEF IInv, CopyInv, CopyTypeOK, vars, copyVars, OpenSink, WrittenTo
  <2>2. QED
    BY <1>6, <2>1
    DEF IInv, vars, copyVars, file, TypeOK, Position, FramesAccounted, EndIsEarned,
        FailedCallKeepsPosition, Delivered, InFlight, CopyInv
<1>7. QED
  BY <1>1, <1>2, <1>3, <1>4, <1>5, <1>6 DEF Next

-----------------------------------------------------------------------------
(* All of the animation's invariants hold together, in every state. *)
THEOREM Invariance == Spec => []IInv
BY InitIInv, NextIInv, PTL DEF Spec

(* Every variable of the decoder, its caller and the sink has its type. *)
THEOREM TypeCorrect == Spec => []TypeOK
<1>1. IInv => TypeOK
  BY DEF IInv
<1>2. QED
  BY <1>1, Invariance, PTL

(* In an animation of any length, however calls, cancellations and sink      *)
(* refusals fall: frames come out in order, none twice, and every frame     *)
(* passed is handed over, reported lost, or on its way.                     *)
THEOREM FramesAreAccounted == Spec => []FramesAccounted
<1>1. IInv => FramesAccounted
  BY DEF IInv
<1>2. QED
  BY <1>1, Invariance, PTL

(* Ok(None) is never said of a truncated file, nor before every frame from   *)
(* the start frame on was handed over or reported lost.                     *)
THEOREM TheEndIsEarned == Spec => []EndIsEarned
<1>1. IInv => EndIsEarned
  BY DEF IInv
<1>2. QED
  BY <1>1, Invariance, PTL

(* A call that yields no frame may be repeated without missing one.          *)
THEOREM RetryIsSafe == Spec => []FailedCallKeepsPosition
<1>1. IInv => FailedCallKeepsPosition
  BY DEF IInv
<1>2. QED
  BY <1>1, Invariance, PTL

(* The sink is asked to finish only when it holds the whole picture.         *)
THEOREM FinishedPictureIsWhole == Spec => []PictureIsWhole
<1>1. IInv => PictureIsWhole
  BY FinishedIsWhole DEF IInv, PictureIsWhole
<1>2. QED
  BY <1>1, Invariance, PTL

(* AnimationDecode implements DecodeRowSink: whatever happens to the calls   *)
(* around it, the sink sees well-formed sessions only.                      *)
THEOREM SinkSessionsAreWellFormed == Spec => SinkProtocol
<1>1. Init => Session!SinkInit
  <2>1. SUFFICES ASSUME Init
                 PROVE  Session!SinkInit
    OBVIOUS
  <2>2. sink.phase = "idle" /\ sink.announced = 0 /\ sink.strips = 0 /\ sink.buf = <<>>
    BY <2>1 DEF Init, CopyInit, NewSink
  <2>3. QED
    BY <2>2, NothingFilled DEF Session!SinkInit, SessionPhase, Lent
<1>2. IInv /\ IInv' /\ [Next]_vars => [Session!SinkNext]_(Session!sinkVars)
  <2> SUFFICES ASSUME IInv, IInv', [Next]_vars
               PROVE  [Session!SinkNext]_(Session!sinkVars)
    OBVIOUS
  <2>1. CASE ToSink
    BY <2>1, CopyStepRefines DEF ToSink, IInv
  <2>2. CASE \E c \in Calls : Call(c)
    BY <2>2, OutsideRefines DEF Call, CopySteps
  <2>3. CASE CheckStop
    BY <2>3, OutsideRefines DEF CheckStop, Return, CopySteps
  <2>4. CASE Cancel \/ UNCHANGED vars
    BY <2>4 DEF Cancel, vars, copyVars, Session!sinkVars, SessionPhase, Lent, Filled
  <2>5. CASE Render /\ RenderNothing
    BY <2>5, OutsideRefines DEF Render, RenderNothing, Return, CopySteps
  <2>6. CASE Render /\ RenderFrame
    BY <2>6, OutsideRefines DEF Render, RenderFrame, StartCopy, Return, CopySteps
  <2>7. QED
    BY <2>1, <2>2, <2>3, <2>4, <2>5, <2>6 DEF Next, Render
<1>3. QED
  BY <1>1, <1>2, Invariance, PTL DEF Spec, SinkProtocol, Session!SinkSpec
=============================================================================
