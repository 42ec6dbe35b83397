--------------------------- MODULE EncodePipeline ----------------------------
(***************************************************************************)
(* The encode side of the reference codec (src/tests/mock_anim/mod.rs): a    *)
(* MockEnc takes an image whole, in strips the caller pushes, or in strips   *)
(* it pulls from the caller's callback; a MockAnimationFrameEnc takes one    *)
(* frame after another, with a stop token that another thread may cancel.    *)
(* Before, the caller configures a boxed DynEncodeJob: EncodeJobShim of       *)
(* src/src/traits/dyn_encoding.rs is the cell of DynJobShim.                 *)
(* Either writes a file, which Rendered reads as MockAnimationFrameDec does. *)
(* A byte of pixels is <<frame, row, offset>>; a frame's duration is one     *)
(* cell <<frame, 0, ms>>.                                                    *)
(***************************************************************************)
EXTENDS Integers, Sequences, SequencesExt, DynJobShim, Option

CONSTANTS Widths,                  (* widths of the slices a caller passes    *)
          BytesPerPixel,           (* descriptor -> bytes of a pixel          *)
          Durations,               (* of frames, in ms                        *)
          Srgba8,                  (* make_opaque -> RGBA8, alpha Undefined or not *)
          StripHeight, PullWidth, PullDesc,  (* what encode_from asks for     *)
          MaxPadding,              (* bound: pixels a bitmap's row is padded by *)
          MaxRows,                 (* bound: rows of a slice, and of an image *)
          MaxFrames                (* bound: frames pushed                    *)

Descs == DOMAIN BytesPerPixel

(* The pixels of a frame a decoder lends out; None says there is no frame. *)
Cells == Seq(Nat \X Nat \X Nat)

LentFrames ==
  [pixels : [data : Cells, width : Nat, rows : Nat, stride : Nat, desc : Descs],
   duration_ms : Nat, frame_index : Nat]

ASSUME EncodeAssumption ==
  /\ Widths \subseteq Nat \ {0}
  /\ BytesPerPixel \in [Descs -> Nat \ {0}]
  /\ Srgba8 \in [BOOLEAN -> Descs]
  /\ BytesPerPixel[Srgba8[TRUE]] = BytesPerPixel[Srgba8[FALSE]]
  /\ Durations \subseteq Nat
  /\ StripHeight \in Nat \ {0} /\ PullWidth \in Nat \ {0} /\ PullDesc \in Descs
  /\ MaxRows \in Nat /\ MaxFrames \in Nat /\ MaxPadding \in Nat
  /\ None \notin Nat \cup Descs /\ None \notin LentFrames
  /\ Supported = Settings /\ {"loop_count", "extensions"} \subseteq Settings  (* by MockEncodeJob *)
  /\ Arguments["loop_count"] \subseteq Nat \cup {None}

VARIABLES encoder,                 (* "job", then which encoder, until consumed *)
          accumulated, width, height, desc,  (* fields of MockEnc             *)
          frames, loop_count,      (* fields of MockAnimationFrameEnc         *)
          all_data, y,             (* locals of encode_from                   *)
          pulling,                 (* inside encode_from                      *)
          cancelled,               (* the stop token                          *)
          file,                    (* the EncodeOutput, None before           *)
          outcome,                 (* of the last call                        *)
          given                    (* history: slices the encoder accepted    *)

fields == <<accumulated, width, height, desc>>
locals == <<all_data, y, pulling>>
frameFields == <<frames, loop_count>>
vars == <<shimVars, encoder, fields, frameFields, locals, cancelled, file, outcome, given>>

(* The shape of a PixelSlice, and the duration it is pushed with. *)
Slices == [rows : 1..MaxRows, width : Widths, desc : Descs, ms : Durations]
Stills == {s \in Slices : s.ms = 0}

RowBytes(w, d) == w * BytesPerPixel[d]

(* n rows of frame f from row `first` on, laid out one after another. *)
Pixels(f, first, n, w, d) ==
  [k \in 1..n * RowBytes(w, d) |->
     <<f, first + (k - 1) \div RowBytes(w, d), (k - 1) % RowBytes(w, d)>>]

TypeOK ==
  /\ ShimTypeOK
  /\ encoder \in {"job", "single", "animation", "consumed"}
  /\ loop_count \in Nat \cup {None}
  /\ accumulated \in Cells
  /\ width \in Widths \cup {None}
  /\ height \in 0..MaxRows \cup {None}
  /\ desc \in Descs \cup {None}
  /\ frames \in Seq([data : Cells, width : Widths, height : 1..MaxRows, ms : Durations,
                     desc : Descs])
  /\ all_data \in Cells
  /\ y \in 0..MaxRows
  /\ pulling \in BOOLEAN
  /\ cancelled \in BOOLEAN
  /\ file = None \/ (/\ file.width \in Widths \cup {PullWidth}
                     /\ file.height \in 1..MaxRows
                     /\ file.frame_count \in 1..MaxFrames \cup {1}
                     /\ file.bpp \in {BytesPerPixel[d] : d \in Descs}
                     /\ file.payload \in Cells)
  /\ outcome \in {"none", "ok", "stopped", "no_rows", "buffer", "no_frames", "panic",
                  "double_take"}
  /\ given \in Seq(Slices \cup [rows : 1..StripHeight, width : {PullWidth},
                                desc : {PullDesc}, ms : {0}])

(* dyn_job(): nothing configured, nothing taken in yet. *)
Init ==
  /\ ShimInit
  /\ encoder = "job"
  /\ accumulated = <<>> /\ width = None /\ height = None /\ desc = None
  /\ frames = <<>> /\ loop_count = None
  /\ all_data = <<>> /\ y = 0 /\ pulling = FALSE
  /\ cancelled = FALSE
  /\ file = None
  /\ outcome = "none"
  /\ given = <<>>

(* set_stop, set_limits, set_policy, set_metadata, set_canvas_size,          *)
(* set_loop_count.                                                          *)
Configure ==
  /\ encoder = "job"
  /\ \E s \in Settings \ {"extensions"} : \E v \in Arguments[s] : Set(s, v)
  /\ UNCHANGED <<encoder, fields, frameFields, locals, cancelled, file, outcome, given>>

(* extensions_mut(): the caller writes into the job where it is; of an empty *)
(* shim it is answered None, and there is nothing to write to.               *)
ExtensionsMut(v) ==
  /\ encoder = "job"
  /\ slot # NoJob
  /\ slot' = [slot EXCEPT !["extensions"] = v]
  /\ requested' = [requested EXCEPT !["extensions"] = v]
  /\ last' = "ok"
  /\ UNCHANGED <<box, job, encoder, fields, frameFields, locals, cancelled, file, outcome, given>>

(* Option<Option<u32>>::flatten *)
Flatten(count) == IF count = Unset THEN None ELSE count

(* into_encoder, into_animation_frame_encoder: what the encoder does not keep *)
(* of the job is gone.                                                        *)
IntoEncoder(kind) ==
  /\ encoder = "job"
  /\ Into
  /\ IF slot = NoJob
     THEN encoder' = "consumed" /\ outcome' = "double_take" /\ UNCHANGED loop_count
     ELSE /\ encoder' = kind
          /\ loop_count' = IF kind = "animation" THEN Flatten(slot["loop_count"]) ELSE None
          /\ UNCHANGED outcome
  /\ UNCHANGED <<fields, frames, locals, cancelled, file, given>>

(* encode_mock_data: the header tells the first frame's shape only. *)
EncodeMockData(fs) ==
  [width |-> fs[1].width, height |-> fs[1].height, frame_count |-> Len(fs),
   bpp |-> BytesPerPixel[fs[1].desc],
   payload |-> FlattenSeq([i \in DOMAIN fs |-> <<<<i, 0, fs[i].ms>>>> \o fs[i].data])]

(* One frame without duration; PixelBuffer::from_vec refuses too few bytes   *)
(* and may refuse too many, else the rows are read from the front.           *)
Still(data, w, h, d) ==
  [data |-> SubSeq(data, 1, h * RowBytes(w, d)), width |-> w, height |-> h, ms |-> 0,
   desc |-> d]

(* A method that takes self by value ends. *)
Consume(result) == encoder' = "consumed" /\ outcome' = result

Buffered(data, w, h, d) ==
  \/ /\ Len(data) >= h * RowBytes(w, d)
     /\ file' = EncodeMockData(<<Still(data, w, h, d)>>)
     /\ Consume("ok")
  \/ /\ Len(data) # h * RowBytes(w, d)
     /\ Consume("buffer")
     /\ UNCHANGED file

(* MockEnc::encode; rows pushed before are forgotten. *)
EncodeSlice(s, data) ==
  /\ file' = EncodeMockData(<<Still(data, s.width, s.rows, s.desc)>>)
  /\ Consume("ok")
  /\ given' = <<s>>

Encode(s) ==
  /\ encoder = "single" /\ ~pulling
  /\ EncodeSlice(s, Pixels(1, 1, s.rows, s.width, s.desc))
  /\ UNCHANGED <<shimVars, fields, frameFields, locals, cancelled>>

(* A caller's buffer: len bytes of rows padded to stride_bytes each. *)
Bitmap(s, stride_bytes, len) ==
  [k \in 1..len |->
     LET offset == (k - 1) % stride_bytes
     IN IF offset < RowBytes(s.width, s.desc)
        THEN <<1, (k - 1) \div stride_bytes + 1, offset>>
        ELSE <<0, 0, 0>>]

(* Rows of pixels in a buffer, and the bytes of these rows without padding. *)
PixelSlice(data, w, h, stride, d) ==
  [data |-> data, width |-> w, rows |-> h, stride |-> stride, desc |-> d]

SliceRows(ps) ==
  LET row == RowBytes(ps.width, ps.desc)
  IN [k \in 1..ps.rows * row |-> ps.data[((k - 1) \div row) * ps.stride + ((k - 1) % row) + 1]]

(* Mutant of StrideBytes: the stride is taken for bytes. *)
StrideBytesOfPixels(stride_pixels, d) == stride_pixels

StrideBytes(stride_pixels, d) == stride_pixels * BytesPerPixel[d]

(* Encoder::encode_srgba8, by default a slice over the caller's bytes, which   *)
(* goes to encode.  PixelSlice::new takes what its doc asks for and refuses a  *)
(* buffer too short for the last row or a stride too short for any; expect     *)
(* then panics.  Whether the last row has to be padded is zenpixels' choice.   *)
EncodeSrgba8(s, stride_pixels, missing) ==
  LET stride_bytes == StrideBytes(stride_pixels, s.desc)
      len == s.rows * stride_pixels * BytesPerPixel[s.desc] - missing
      row == RowBytes(s.width, s.desc)
  IN /\ encoder = "single" /\ ~pulling
     /\ \/ /\ stride_bytes >= row
           /\ len >= (s.rows - 1) * stride_bytes + row
           /\ LET data == Bitmap(s, stride_pixels * BytesPerPixel[s.desc], len)
              IN EncodeSlice(s, SliceRows(PixelSlice(data, s.width, s.rows, stride_bytes, s.desc)))
        \/ /\ stride_bytes < row \/ len < s.rows * stride_bytes
           /\ Consume("panic")
           /\ UNCHANGED <<file, given>>
     /\ UNCHANGED <<shimVars, fields, frameFields, locals, cancelled>>

(* Mutant of PushRows: each strip brings its own height. *)
PushRowsRestarts(s) ==
  /\ encoder = "single" /\ ~pulling
  /\ LET rows == IF height = None THEN 0 ELSE height IN
     /\ rows + s.rows <= MaxRows
     /\ accumulated' = accumulated \o Pixels(1, rows + 1, s.rows, s.width, s.desc)
     /\ height' = s.rows
  /\ width' = IF width = None THEN s.width ELSE width
  /\ desc' = IF width = None THEN s.desc ELSE desc
  /\ outcome' = "ok"
  /\ given' = Append(given, s)
  /\ UNCHANGED <<shimVars, encoder, frameFields, locals, cancelled, file>>

(* MockEnc::push_rows: the first strip decides width and descriptor. *)
PushRows(s) ==
  /\ encoder = "single" /\ ~pulling
  /\ LET rows == IF width = None THEN 0 ELSE height IN
     /\ rows + s.rows <= MaxRows
     /\ accumulated' = accumulated \o Pixels(1, rows + 1, s.rows, s.width, s.desc)
     /\ height' = rows + s.rows
  /\ width' = IF width = None THEN s.width ELSE width
  /\ desc' = IF width = None THEN s.desc ELSE desc
  /\ outcome' = "ok"
  /\ given' = Append(given, s)
  /\ UNCHANGED <<shimVars, encoder, frameFields, locals, cancelled, file>>

(* MockEnc::finish *)
FinishRows ==
  /\ encoder = "single" /\ ~pulling
  /\ IF width = None
     THEN Consume("no_rows") /\ UNCHANGED file
     ELSE Buffered(accumulated, width, height, desc)
  /\ UNCHANGED <<shimVars, fields, frameFields, locals, cancelled, given>>

(* MockEnc::encode_from begins, with locals of its own. *)
EncodeFrom ==
  /\ encoder = "single" /\ ~pulling
  /\ pulling' = TRUE
  /\ all_data' = <<>>
  /\ y' = 0
  /\ given' = <<>>
  /\ UNCHANGED <<shimVars, encoder, fields, frameFields, cancelled, file, outcome>>

(* source(y, strip) wrote n rows, those of its image from row y on. *)
PullStrip(n) ==
  /\ pulling
  /\ y + n <= MaxRows
  /\ all_data' = all_data \o Pixels(1, y + 1, n, PullWidth, PullDesc)
  /\ y' = y + n
  /\ given' = Append(given, [rows |-> n, width |-> PullWidth, desc |-> PullDesc, ms |-> 0])
  /\ UNCHANGED <<shimVars, encoder, fields, frameFields, pulling, cancelled, file, outcome>>

(* source claims more rows than the strip has: the slice index panics. *)
PullOverrun ==
  /\ pulling
  /\ pulling' = FALSE
  /\ Consume("panic")
  /\ UNCHANGED <<shimVars, fields, frameFields, all_data, y, cancelled, file, given>>

(* Mutant of PullEnd: the loop does not leave on an empty strip. *)
PullEndIgnored ==
  /\ pulling
  /\ y = 0
  /\ pulling' = FALSE
  /\ Consume("no_rows")
  /\ UNCHANGED <<shimVars, fields, frameFields, all_data, y, cancelled, file, given>>

(* source returned 0: the image is over. *)
PullEnd ==
  /\ pulling
  /\ pulling' = FALSE
  /\ IF y = 0
     THEN Consume("no_rows") /\ UNCHANGED file
     ELSE Buffered(all_data, PullWidth, y, PullDesc)
  /\ UNCHANGED <<shimVars, fields, frameFields, all_data, y, cancelled, given>>

(* Another thread cancels the token. *)
Cancel ==
  /\ ~cancelled
  /\ cancelled' = TRUE
  /\ UNCHANGED <<shimVars, encoder, fields, frameFields, locals, file, outcome, given>>

(* Mutant of PushFrame: the frame is taken in before the stop is seen. *)
PushFrameThenStop(s, token) ==
  /\ encoder = "animation"
  /\ Len(frames) < MaxFrames
  /\ frames' = Append(frames, [data |-> Pixels(Len(frames) + 1, 1, s.rows, s.width, s.desc),
                               width |-> s.width, height |-> s.rows, ms |-> s.ms,
                               desc |-> s.desc])
  /\ IF token /\ cancelled
     THEN outcome' = "stopped" /\ UNCHANGED given
     ELSE outcome' = "ok" /\ given' = Append(given, s)
  /\ UNCHANGED <<shimVars, loop_count, encoder, fields, locals, cancelled, file>>

(* MockAnimationFrameEnc::push_frame *)
PushFrame(s, token) ==
  /\ encoder = "animation"
  /\ IF token /\ cancelled
     THEN outcome' = "stopped" /\ UNCHANGED <<shimVars, frameFields, given>>
     ELSE /\ Len(frames) < MaxFrames
          /\ frames' = Append(frames,
                         [data |-> Pixels(Len(frames) + 1, 1, s.rows, s.width, s.desc),
                          width |-> s.width, height |-> s.rows, ms |-> s.ms,
                          desc |-> s.desc])
          /\ outcome' = "ok"
          /\ given' = Append(given, s)
  /\ UNCHANGED <<shimVars, loop_count, encoder, fields, locals, cancelled, file>>

(* MockAnimationFrameEnc::finish: self is gone whatever the answer. *)
FinishFrames(token) ==
  /\ encoder = "animation"
  /\ IF token /\ cancelled
     THEN Consume("stopped") /\ UNCHANGED file
     ELSE IF frames = <<>>
          THEN Consume("no_frames") /\ UNCHANGED file
          ELSE file' = EncodeMockData(frames) /\ Consume("ok")
  /\ UNCHANGED <<shimVars, fields, frameFields, locals, cancelled, given>>

Pull == (\E n \in 1..StripHeight : PullStrip(n)) \/ PullOverrun \/ PullEnd

Next ==
  \/ Configure
  \/ \E v \in Arguments["extensions"] : ExtensionsMut(v)
  \/ \E kind \in {"single", "animation"} : IntoEncoder(kind)
  \/ \E s \in Stills : Encode(s) \/ PushRows(s)
  \/ \E s \in Stills, padding \in -1..MaxPadding, make_opaque \in BOOLEAN :
       \E missing \in 0..RowBytes(MaxPadding, s.desc) + 1 :
         /\ s.desc = Srgba8[make_opaque]
         /\ s.width + padding > 0
         /\ EncodeSrgba8(s, s.width + padding, missing)
  \/ FinishRows
  \/ EncodeFrom
  \/ Pull
  \/ Cancel
  \/ \E token \in BOOLEAN : FinishFrames(token) \/ \E s \in Slices : PushFrame(s, token)

Spec == Init /\ [][Next]_vars

(* encode_from is a loop that goes on; its source answers, with some of its  *)
(* finitely many rows or with none.                                          *)
FairSpec == Spec /\ WF_vars((\E n \in 1..StripHeight : PullStrip(n)) \/ PullEnd)

-----------------------------------------------------------------------------
(* What a decoder shows: pixels it lends out, or a copy the caller keeps.    *)
AnimationFrame(pixels, duration_ms, frame_index) ==
  [pixels |-> pixels, duration_ms |-> duration_ms, frame_index |-> frame_index]

OwnedAnimationFrame(pixels, duration_ms, frame_index) ==
  [pixels |-> pixels, duration_ms |-> duration_ms, frame_index |-> frame_index,
   extensions |-> {}]

(* Mutant of to_owned_frame: the lent buffer is copied, but its stride not kept. *)
to_owned_frame_unstrided(frame) ==
  LET ps == frame.pixels
  IN OwnedAnimationFrame(PixelSlice(ps.data, ps.width, ps.rows, ps.width, ps.desc),
                         frame.duration_ms, frame.frame_index)

(* The rows, copied into a buffer of their size. *)
to_owned_frame(frame) ==
  LET ps == frame.pixels
      data == SliceRows(ps)
  IN OwnedAnimationFrame(
       PixelSlice(data, ps.width, ps.rows, RowBytes(ps.width, ps.desc), ps.desc),
       frame.duration_ms, frame.frame_index)

as_animation_frame(owned) ==
  AnimationFrame(owned.pixels, owned.duration_ms, owned.frame_index)

(* What a MockAnimationFrameDec renders of a file: parse_mock_header, then   *)
(* frames at multiples of the size the header implies.                       *)
descriptor_for_bpp(bpp) == CHOOSE d \in Descs : BytesPerPixel[d] = bpp

FrameSize(f) == f.width * f.height * f.bpp

Render(f, k) ==
  LET at == (k - 1) * (1 + FrameSize(f)) IN
  IF at + 1 + FrameSize(f) > Len(f.payload)
  THEN None
  ELSE AnimationFrame(PixelSlice(SubSeq(f.payload, at + 2, at + 1 + FrameSize(f)),
                                 f.width, f.height, f.width * f.bpp, descriptor_for_bpp(f.bpp)),
                      f.payload[at + 1][3], k - 1)

Shown(frame) == IF frame = None THEN None
                ELSE [ms |-> frame.duration_ms, data |-> frame.pixels.data]

Rendered(f) == [k \in 1..f.frame_count |-> Shown(Render(f, k))]

(* Every frame rendered, kept, and pushed to an encoder again.               *)
PushOwned(frame) ==
  LET ps == frame.pixels
  IN [data |-> SliceRows(ps), width |-> ps.width, height |-> ps.rows,
      ms |-> frame.duration_ms, desc |-> ps.desc]

Reencoded(f) ==
  EncodeMockData([k \in 1..f.frame_count |->
                    PushOwned(as_animation_frame(to_owned_frame(Render(f, k))))])

(* What the encoder was asked to keep: frames one by one, or one image of    *)
(* all the rows, in the order given.                                         *)
IsAnimation == frames # <<>>

(* The rows of some slices, counted. *)
RowsOf(slices) == Cardinality(UNION {{i} \X (1..slices[i].rows) : i \in DOMAIN slices})

TotalRows == RowsOf(given)

Wanted ==
  IF IsAnimation
  THEN [i \in DOMAIN given |->
          [ms |-> given[i].ms,
           data |-> Pixels(i, 1, given[i].rows, given[i].width, given[i].desc)]]
  ELSE <<[ms |-> 0, data |-> Pixels(1, 1, TotalRows, given[1].width, given[1].desc)]>>

(* The caller kept to one width and descriptor, and for frames one height. *)
Uniform ==
  \A i, j \in DOMAIN given :
    /\ given[i].width = given[j].width /\ given[i].desc = given[j].desc
    /\ IsAnimation => given[i].rows = given[j].rows

(* Whichever of the four ways it went in, in whatever strips, and around any *)
(* stop: what the encoder accepted is what a decoder renders of its file; and *)
(* of frames of different shapes the first, whose shape the header has.  The   *)
(* frames a caller keeps, encoded again, give the same file.                  *)
RoundTrip ==
  file # None => /\ Uniform => Rendered(file) = Wanted /\ Reencoded(file) = file
                 /\ IsAnimation => Shown(Render(file, 1)) = Wanted[1]

(* However the job was configured, and around a panic of its codec: an encoder *)
(* has what was last asked for, and an animation the loop count; and a stopped *)
(* push changes nothing, so the caller may push the frame again: the encoder   *)
(* holds exactly the frames it said Ok to, in that order.                      *)
EncoderIsAsAsked ==
  /\ ExecutorGetsRequested
  /\ encoder = "animation" => loop_count = Flatten(requested["loop_count"])
  /\ IsAnimation => [i \in DOMAIN frames |-> [ms |-> frames[i].ms, data |-> frames[i].data]] = Wanted

(* The pull loop leaves when the source is out of rows. *)
PullEnds == pulling ~> ~pulling
=============================================================================
