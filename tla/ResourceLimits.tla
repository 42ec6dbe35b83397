--------------------------- MODULE ResourceLimits ----------------------------
(***************************************************************************)
(* Parse-time rejection (src/src/limits.rs): a caller builds ResourceLimits *)
(* with the with_* methods, probes an image and asks check_image_info, or   *)
(* predicts the output (cost.rs) and asks check_output_info, or asks        *)
(* check_memory of its buffer_size.  The checks run in a fixed order and    *)
(* report the first that fails, with actual and limit.  Dimensions and      *)
(* counts are u32; products are u64, and a product that leaves u64 panics   *)
(* in a build with overflow checks and wraps without.  The check_* methods  *)
(* of a single number the caller measured (sizes of input and output, the   *)
(* duration) are CheckMeasured, whatever the measures are.                  *)
(***************************************************************************)
EXTENDS Integers, Sequences, Option

CONSTANTS U32Size,                 (* how many values a u32 has: 2^32         *)
          Maxima,                  (* limit -> values a caller may set        *)
          Dimensions,              (* widths and heights of probed images     *)
          BytesPerPixel,           (* of the formats a decoder produces       *)
          Counts,                  (* of frames or pages, None when unknown   *)
          Measures,                (* input size, output size, duration       *)
          Amounts                  (* what a caller may measure               *)

U32 == 0..U32Size - 1
U64Size == U32Size * U32Size
U64 == 0..U64Size - 1

ImageLimits == {"width", "height", "pixels", "frames", "total_pixels"}
Limits == ImageLimits \cup {"memory"} \cup Measures

ASSUME LimitsAssumption ==
  /\ U32Size \in Nat \ {0, 1}
  /\ Maxima \in [Limits -> SUBSET U64]
  /\ Dimensions \subseteq U32
  /\ BytesPerPixel \subseteq U32
  /\ Counts \subseteq U32 \cup {None}
  /\ Amounts \subseteq U64
  /\ Measures \cap (ImageLimits \cup {"memory", "image_info", "output_info"}) = {}
  /\ None \notin U64

VARIABLES limits,                  (* ResourceLimits: limit -> max or None    *)
          info,                    (* the ImageInfo and OutputInfo at hand    *)
          verdict                  (* what the last check said                *)

limitsVars == <<limits, info, verdict>>

(* ImageSequence: random_access and the loop count limit nothing. *)
Single == [is |-> "single"]
ImageSequence == {Single} \cup [is : {"animation", "multi"}, count : Counts]

(* What is known of an image and of the output a decoder predicts for it    *)
(* (OutputInfo::full_decode: the same dimensions).                          *)
Infos == [width : Dimensions, height : Dimensions, bytes_per_pixel : BytesPerPixel,
          sequence : ImageSequence, measured : [Measures -> Amounts]]
Ok(by) == [is |-> "ok", by |-> by]
Panic == [is |-> "panic"]
Unchecked == [is |-> "unchecked"]
Exceeding == [is : {"exceeded"}, limit : Limits, actual : U64, max : U64]

LimitsTypeOK ==
  /\ limits \in [Limits -> U64 \cup {None}]
  /\ info \in Infos
  /\ verdict \in Exceeding \cup {Panic, Unchecked}
                   \cup {Ok(by) : by \in {"image_info", "output_info", "memory"} \cup Measures}

LimitsInit ==
  /\ limits = [l \in Limits |-> None]          (* ResourceLimits::none() *)
  /\ info \in Infos
  /\ verdict = Unchecked

(* with_max_width(..), with_max_height(..), ... *)
WithMax(l, max) ==
  /\ limits' = [limits EXCEPT ![l] = max]
  /\ verdict' = Unchecked
  /\ UNCHANGED info

(* Another image is probed. *)
Probe(i) ==
  /\ info' = i
  /\ verdict' = Unchecked
  /\ UNCHANGED limits

Wrap(n) == n % U64Size

(* ImageSequence::count *)
FrameCount(i) == IF i.sequence = Single THEN 1 ELSE i.sequence.count

Pixels(i) == i.width * i.height
TotalPixels(i) == Pixels(i) * FrameCount(i)

(* Mutant of BufferSize: the bytes of a row are a u32. *)
BufferSizeOfU32Rows(i) == Wrap(((i.width * i.bytes_per_pixel) % U32Size) * i.height)

(* OutputInfo::buffer_size *)
BufferSize(i) == Wrap(Pixels(i) * i.bytes_per_pixel)

(* One comparison: the limit, and what it is compared with. *)
Check(l, actual) == [limit |-> l, actual |-> actual]

(* check_dimensions *)
DimensionChecks(i) ==
  <<Check("width", i.width), Check("height", i.height), Check("pixels", Wrap(Pixels(i)))>>

(* Mutant of SequenceChecks: the frame count is not looked at. *)
TotalCheckOnly(i) ==
  IF FrameCount(i) = None THEN <<>> ELSE <<Check("total_pixels", Wrap(TotalPixels(i)))>>

(* Mutant of SequenceChecks: the total is looked at before the count. *)
TotalCheckFirst(i) ==
  IF FrameCount(i) = None
  THEN <<>>
  ELSE <<Check("total_pixels", Wrap(TotalPixels(i))), Check("frames", FrameCount(i))>>

(* The rest of check_image_info, if info.frame_count() is known. *)
SequenceChecks(i) ==
  IF FrameCount(i) = None
  THEN <<>>
  ELSE <<Check("frames", FrameCount(i)), Check("total_pixels", Wrap(TotalPixels(i)))>>

(* if let Some(max) = self.max_l && actual > max *)
Exceeded(c) == limits[c.limit] # None /\ c.actual > limits[c.limit]

Error(c) == [is |-> "exceeded", limit |-> c.limit, actual |-> c.actual,
             max |-> limits[c.limit]]

(* Each check returns early; the last one that passes leaves Ok(()). *)
Run(checks, by) ==
  \/ /\ \A n \in DOMAIN checks : ~Exceeded(checks[n])
     /\ verdict' = Ok(by)
  \/ \E n \in DOMAIN checks :
       /\ Exceeded(checks[n])
       /\ \A m \in 1..n - 1 : ~Exceeded(checks[m])
       /\ verdict' = Error(checks[n])

CheckImageInfo ==
  /\ Run(DimensionChecks(info) \o SequenceChecks(info), "image_info")
  /\ UNCHANGED <<limits, info>>

(* With overflow checks: reached only if nothing before it returned, and    *)
(* only if the total is wanted.                                             *)
CheckImageInfoOverflows ==
  /\ FrameCount(info) # None
  /\ limits["total_pixels"] # None
  /\ \A n \in 1..3 : ~Exceeded(DimensionChecks(info)[n])
  /\ ~Exceeded(Check("frames", FrameCount(info)))
  /\ TotalPixels(info) \notin U64
  /\ verdict' = Panic
  /\ UNCHANGED <<limits, info>>

CheckOutputInfo ==
  /\ Run(DimensionChecks(info), "output_info")
  /\ UNCHANGED <<limits, info>>

(* check_memory(output.buffer_size()) *)
CheckMemory ==
  /\ Run(<<Check("memory", BufferSize(info))>>, "memory")
  /\ UNCHANGED <<limits, info>>

(* With overflow checks the product is what panics, limit or no limit. *)
BufferSizeOverflows ==
  /\ Pixels(info) * info.bytes_per_pixel \notin U64
  /\ verdict' = Panic
  /\ UNCHANGED <<limits, info>>

(* check_input_size, check_output_size, check_animation_ms *)
CheckMeasured(m) ==
  /\ Run(<<Check(m, info.measured[m])>>, m)
  /\ UNCHANGED <<limits, info>>

LimitsNext ==
  \/ \E l \in Limits : \E max \in Maxima[l] : WithMax(l, max)
  \/ \E i \in Infos : Probe(i)
  \/ CheckImageInfo
  \/ CheckImageInfoOverflows
  \/ CheckOutputInfo
  \/ CheckMemory
  \/ BufferSizeOverflows
  \/ \E m \in Measures : CheckMeasured(m)

LimitsSpec == LimitsInit /\ [][LimitsNext]_limitsVars

-----------------------------------------------------------------------------
(* The quantities the limits are about, over the integers. *)
Quantity(l, i) ==
  CASE l = "width" -> i.width
    [] l = "height" -> i.height
    [] l = "pixels" -> Pixels(i)
    [] l = "frames" -> IF FrameCount(i) = None THEN 0 ELSE FrameCount(i)
    [] l = "total_pixels" -> IF FrameCount(i) = None THEN 0 ELSE TotalPixels(i)
    [] l = "memory" -> Pixels(i) * i.bytes_per_pixel
    [] OTHER -> i.measured[l]

Within(l, i) == limits[l] # None => Quantity(l, i) <= limits[l]

(* The order check_image_info documents. *)
Before(l) ==
  CASE l = "width" -> {}
    [] l = "height" -> {"width"}
    [] l = "pixels" -> {"width", "height"}
    [] l = "frames" -> {"width", "height", "pixels"}
    [] l = "total_pixels" -> {"width", "height", "pixels", "frames"}
    [] OTHER -> {}

(* What the fields promise: an image that passed is within every limit set, *)
(* width x height x frame_count included when the count is known.           *)
AcceptedIsWithin ==
  verdict = Ok("image_info") => \A l \in ImageLimits : Within(l, info)

(* It does hold if the frames are capped at 2^32 pixels: no product of such *)
(* an image and a u32 count leaves u64, nor does its buffer_size, so that   *)
(* check_memory can be trusted as well.  A cap on the count, on the total   *)
(* or on the memory alone would not do.                                     *)
AcceptedIsWithinIfPixelsCapped ==
  /\ limits["pixels"] # None /\ limits["pixels"] <= U32Size => AcceptedIsWithin
  /\ Pixels(info) <= U32Size /\ verdict = Ok("memory") => Within("memory", info)
  /\ \A m \in Measures : verdict = Ok(m) => Within(m, info)

(* The predicted output that passed is within the dimension limits, always: *)
(* a product of two u32 stays in u64.                                       *)
OutputIsWithin ==
  verdict = Ok("output_info") => \A l \in {"width", "height", "pixels"} : Within(l, info)

(* A rejection is right and reports the first limit exceeded in the order   *)
(* documented, with the limit itself; the actual value is true but for a    *)
(* product that wrapped, and even then the true one exceeds the limit.      *)
RejectionIsRight ==
  verdict.is = "exceeded" =>
    /\ verdict.max = limits[verdict.limit]
    /\ Quantity(verdict.limit, info) > verdict.max
    /\ \A l \in Before(verdict.limit) : Within(l, info)
    /\ verdict.limit \notin {"total_pixels", "memory"} => verdict.actual = Quantity(verdict.limit, info)
=============================================================================
