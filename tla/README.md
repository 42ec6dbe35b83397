# zencodec-types in TLA+

Specifications, model-checking runs and proofs for the `zencodec` crate
(`src/src/`), the traits and shared types that image codecs implement, and for
the reference codecs the repository tests them with (`src/tests/mock_anim/mod.rs`,
`src/tests/pnm/mod.rs`).

The crate itself is mostly contracts: job builders, executors, a row sink, an
encoder that may be driven in four ways, a registry, a negotiation, a set of
fields that two files must agree about. What can go wrong lies between the
parties of such a contract: a codec, a caller that retries, a sink that refuses,
another thread that cancels or drops, a file that arrives in pieces or was
written by somebody else. That is what the modules model. Where the crate only
states a trait, the reference codec is the program: it implements every trait
completely and the crate's own tests run against it.

## 1. The system

| Part | State it keeps | Operations | Hard behaviour | Correct means |
|---|---|---|---|---|
| Dyn job shims (`traits/dyn_decoding.rs`, `traits/dyn_encoding.rs`) | `Option<J>`, the codec's by-value builder | `set_*`, `extensions_mut`, `probe`, `output_info`, `into_*`, `push_decode` | a setter panics between take and put | the executor gets what was asked for, or the caller is told |
| Decode pipeline (`traits/decoding.rs`, `traits/decoder.rs`, the codec) | header, limits, stop token, current row | `decoder`, `push_decoder`, `streaming_decoder`, `animation_frame_decoder`, `decode`, `next_batch` | cancellation from another thread, truncated data, sink failures | limits and stop hold on every path, rows in order, answers true |
| Animation decoder (`AnimationFrameDecoder`, the codec) | `current_frame`, start frame | `render_next_frame`, `.._owned`, `.._to_sink` | failure after the frame was consumed, retry after stop | no frame repeated or silently lost, the end only when earned |
| Row sink (`sink.rs`, `helpers/mod.rs`) | the caller's buffer | `begin`, `provide_next_buffer`, `finish` | any call may fail, a buffer may be too small | one well-formed session per image |
| Encode pipeline (`traits/encoder.rs`, `traits/encoding.rs`, the codec) | accumulated rows, frames, loop count | `encode`, `encode_srgba8`, `push_rows`, `encode_from`, `push_frame`, `finish` | strips of mixed shape, padded bitmaps, callbacks, stop and retry | what was accepted is what a decoder reads back |
| Errors and dispatch (`error.rs`, `traits/unsupported.rs`, default methods) | a chain of errors | `reject`, `find_cause`, `dyn_*` | boxes, wrappers and sinks between cause and caller; half-used executors | the cause is found; a caller that falls back writes the image once |
| Extensions (`extensions.rs`) | vector of `(TypeId, Arc)` per clone | `insert`, `remove`, `get*`, clone, drop | `Arc::try_unwrap` against other threads | a private map per clone, one fate per value |
| Resource limits, cost (`limits.rs`, `cost.rs`) | nine optional maxima | `with_max_*`, `check_*`, `buffer_size` | products of `u32` in `u64`, order of checks | accepted means within limits |
| Metadata, EXIF orientation (`metadata.rs`, `helpers/exif.rs`) | optional blobs, orientation | builder, two parsers | result depends on call order; parsers differ | explicit wins over parsed; parsers agree |
| Gain maps (`gainmap.rs`) | parameters | parse and serialise ISO 21496-1 in four containers | prefixes, two layouts, rounding of floats to fractions | a prefix is no map; loss at most once; validity survives |
| Format detection (`format/*`) | an ordered registry | `detect` on a prefix, `from_extension`, `from_mime_type` | overlapping signatures, short prefixes, custom formats | a verdict more bytes do not take back; names that lead back |
| Negotiation (`negotiate.rs`) | none | three selection functions | tiers across a preference list | what is chosen is available, and both sides can use it |
| Source colour, info, ICC (`info.rs`, `helpers/icc.rs`) | CICP, ICC profile, authority, embedded blobs | builders, `to_color_context`, `has_hdr_transfer`, `Metadata::from` | two sources of one fact, from file to file | pixels and files tell the colour the pixels have |
| Policies, capabilities (`policy.rs`, `capabilities.rs`) | flags, three-valued or not | levels, overrides, `resolve_*`, `supports` | an explicit flag against a level and a default | metadata is lost only where somebody refused it |
| Outputs (`output.rs`) | pixels, names, frames | `with_mime_type`, `with_extension`, `to_owned_frame` | strides, names that no format lists | a kept frame is the frame; a name leads to its format |

How they interact: a caller makes a config, asks it for a job (directly, or
type-erased through a shim), configures the job with limits, policies, a stop
token and more, and turns it into an executor. A push decode and an animation
decode hand their pixels to the caller's sink through the two helpers of
`helpers/mod.rs`. Outputs carry an `Extensions` map that the caller may clone and
send to other threads. An encoder gets its pixels from calls or from a callback.
What a decoder reports (`ImageInfo`) comes back as what an encoder embeds
(`Metadata`), and the two negotiate the pixels' descriptor in between. The stop
token is shared with whoever may cancel the work; nothing else is shared.

`PROJECT.json` lists every component, modelled or not, and the hazards at the
lines where they bite.

## 2. Modules

| Module | Models | Correspondence |
|---|---|---|
| `DecodeRowSink` | the sink contract | abstract: `phase`, announced `height`, rows `lent` and `filled`; one action per call |
| `SinkCopy` | the row copy shared by `copy_decode_to_sink` and `copy_frame_to_sink` | `pc` is the position in the helper; `Begin`, `Provide`, `CopyRow`, `DropBuffer`, `Finish` are its statements; each sink call may fail, and a lent buffer with room for fewer rows makes the loop panic |
| `AnimationDecode` | `MockAnimationFrameDec` with its caller, canceller and sink | extends `SinkCopy`; `CheckStop`, `RenderNothing`, `RenderFrame` are the early returns and the body of `render_next_frame`; `ToSink` is the rest of the helper |
| `DynJobShim` | `DecodeJobShim` / `EncodeJobShim` | `slot` is the `Option<J>`; `Set` takes, configures and puts back, or panics in between |
| `DecodePipeline` | dyn job to pixels | composes `DynJobShim` and `SinkCopy`; `Enter` is `into_*`, then one action per `?` of the codec's method |
| `EncodePipeline` | dyn job to file: `MockEnc`, `MockAnimationFrameEnc` | extends `DynJobShim`, whose cell is the job until `IntoEncoder`; then the structs' fields and the locals of `encode_from`. `Rendered` reads the file back by the decoder's rule, `Reencoded` keeps every frame (`to_owned_frame`) and encodes it again |
| `ErrorChain` | `error.rs` | an error is the sequence of links that `source()` leads through |
| `Dispatch` | default methods, shims of configs and executors | a caller that knows no codec tries the ways of its `plan`; `decoding` and `encoding` say what it holds of either side; a codec is its capabilities, the types it wraps around a cause, and what it keeps of a sink's error |
| `TypedMap` | what `Extensions` promises | abstract: owner -> type -> value, the value a call takes out, the owners alive |
| `Extensions` | clones on threads | `insert` and `remove` change the vector in one step and dispose of the old `Arc` in later ones |
| `ResourceLimits` | every `check_*` but the running total, and `buffer_size` | a check is a list of comparisons in the order of the code, with products modulo 2^64 (`U32Size` squared); `CheckMeasured` is any check of a number the caller measured |
| `ExifOrientation` | the two `parse_exif_orientation` | pure: a blob is its header, byte order, declared entries and the bytes there are; a loop over entries becomes the first entry that ends it (`EndsMetadataWalk`, `EndsHelperWalk`); the reference is `StandardOrientations`, what TIFF 6.0 says of a well-formed directory |
| `Metadata` | the builder, `From<&ImageInfo>` | `exif` and `orientation` are the fields; `given` is a history of how the value was made and which calls followed |
| `GainMapFractions` | floats to fractions and back | a float is a rational, and what arithmetic returns is `Rounded` to the nearest that the type holds, halves to even: `AsF64` stands wherever the code's f64 arithmetic may be inexact (the product that line 625 tests for exactness, the inverse at 628, the quotients at 614, 661 and 733), `AsF32` for the cast. `Turn` is one turn of the loop of `float_to_unsigned_fraction`, which a recursive function repeats `MAX_ITER` times. Exponents go far beyond what the conversion needs; beyond them a value is infinite or zero |
| `GainMapIso21496` | parser and serialiser | a file is its fields, and `received` of its bytes have arrived; `Receive`, `Parse`, `Rewrite` are a container reader's steps; `gain_map` is the `GainMapPresence` its last probe reported |
| `FormatDefinitions` | the 21 definitions and their detectors | a file is a record of what stands where (`kind` says which shape); a detector is a predicate on it and the number of bytes there are |
| `FormatDetection` | the registry and an output's names | the registry is a sequence; `First` is `find` over it; files arrive by `Receive`, outputs by `NewOutput`, and either is looked up |
| `PixelNegotiation` | `negotiate.rs` | pure: the loops become the least index that matches |
| `SourceColor` | colour fields, `helpers/icc.rs` | pure: a colour is a pair of primaries and transfer; a profile is what zenpixels finds in it |
| `Policy`, `Capabilities` | flags | a policy is a partial function from features to booleans (`None` is outside its domain); capabilities are the set of flags that are on |
| `Transcode` | an image from file to file | composes the four above: `DescribeColor`, `DescribeExtra`, `DescribeGroup` are the builder calls of `ImageInfo` in any order, `Decode` negotiates and labels, `Encode` embeds what `FromInfo` and the policy leave, and opens the file again |

`MC*.tla` give the constants their values. `Option` declares the one value `None`
that modules about optional things share. `*Proofs.tla` hold the theorems: those
of the composing modules (`AnimationDecode`, `DecodePipeline`, `EncodePipeline`)
extend those of what they compose. `DecodePipelineProofs` is also about two values that
a caller of the decode paths holds (`ResourceLimits`, `Metadata`), `TranscodeProofs`
about what travels with an image (`Transcode`, `Extensions`), `GainMapProofs` about gain
maps, and `CallerProofs` about what a caller that knows no codec relies on (`Dispatch`,
`FormatDetection`). Two refinements are checked and proved: `SinkCopy` implements
`DecodeRowSink` (property `SinkProtocol`, in both modules that use it), and
`Extensions` implements `TypedMap` (property `IsTypedMap`).

What is abstracted: bytes of a picture become the picture's index, bytes of an
image to encode become `<<frame, row, offset>>`; a file becomes its fields or what
a detector looks for in it; floats become rationals with infinities and
not-a-number, rounded where the code's arithmetic rounds, and the widths of `f32`, `f64`,
`i32` and `u32` are constants; a stop token
is one boolean that is never reset; the error types become a name each. Codecs
other than the reference ones are external: in `Transcode` and `Dispatch` they use
the crate as its documentation asks them to. Wording, `Debug` and `Display`,
letter case and what is only stored and read back are left out.

Each module also holds the mutants that `PROJECT.json` lists: versions of a
definition with a plausible bug, at least one for every property, which that
property must catch. No `Next` uses them.

## 3. Runs

| Run | Question | Size | Bounds and why they suffice |
|---|---|---|---|
| `animation` | frames through both render methods, any stop and any sink | 12,022 states | three frames of one or two rows, start frame 0..4 (inside, at and beyond the end), data breaking off after any frame. Frames do not interact beyond their neighbours; a second row is what a row loop can skip; the sink's buffer may have room for any number of rows |
| `decode_pipeline` | does the executor get what was requested; limits, stop, order and answers on four paths | 22,254 states | four settings, one unsupported, one or two values each (settings are independent of each other); one or two rows against limits of one and two, any prefix of the data, start frame 0 or 1 |
| `encode_pipeline` | does the file hold what was accepted, and the encoder what was asked | 545,184 states | three rows in strips of one or two, two widths, two descriptors (a pixel of one is as wide as two of the other, so rows of different shape can agree in bytes), three frames, bitmaps with one pixel of padding, too narrow ones, and buffers that lack any number of bytes up to a padding |
| `dispatch` | is the cause of an error found, and the image written once | 180,210 states | sixteen pairs of codecs (both reference codecs, partial ones, one that wraps twice, ones that keep only a sink's text), up to four of five ways in any order before decode-and-encode, images of one and two rows cut off anywhere, within limits or not. A way is affected only by what the one before left in the encoder |
| `extensions` | counts, fates and views under races | 358,504 states | three owners (two that race and one that still holds), two types (so that `swap_remove` moves an entry), three values |
| `limits` | acceptance and rejection in bounded arithmetic | 368,736 states | `u32` has four values and `u64` sixteen: products of two, of three with a frame count, and of pixels and bytes overflow |
| `metadata` | do two parsers of one tag agree, with each other and the standard; which call the orientation comes from | 42,500 states | directories of up to two entries of eleven kinds, declaring up to three, with and without prefix, in both byte orders, cut at eight places: a walk looks at one entry at a time, two suffice for order, doubling and truncation between entries, and the helper's cap is reached with two. Four builder calls with six blobs (turning, not turning, silent, unread) and two orientations: set, store, store again and set again is four |
| `gain_map` | what a prefix, a layout, a container and three hops do to a map | 552,727 states | `u32` has 10 bits, `i32` a sign and 9, an `f32` 3 significant bits and an `f64` 10: eighteen floats (zero, tiny, exact, inexact in either type, at the limit, infinite, not a number) in every pair of min and max, and twelve others, some of them too small for a fraction or too large, elsewhere one or two at a time. With these widths the product of 5/512 and a denominator rounds to an integer that it is not, so the search ends early as in the code; foreign files of either layout with any flag, a wrong version, a zero denominator, trailing bytes |
| `format_detection` | what a prefix, a whole file and a name are answered | 268,008 states | every magic; files of the overlapping families (ISO base media, TIFF, TGA and icon, SVG) built to differ where a detector looks, cut at every offset at which an answer may change; five registries: the common one, reversed, RAW before DNG, and two with custom formats before or behind |
| `transcode` | does colour and metadata survive two hops | 287,292 states | two CICP colours (SDR, HDR) and three profiles (agreeing, disagreeing, unidentified), two formats in lists of up to two, four decode and two encode policies, codecs that carry everything or profiles only. Two hops are one loss and what follows from it |
| `limits_wrap` | is an accepted image always within its limits | violation | as `limits` |
| `format_footer` | is the TGA footer definitive | violation | as `format_detection` |

Deadlock is checked where the system never stops (`animation`, `limits`,
`format_detection`). In the others a consumed job or encoder, a set of dropped
maps, the last hop or an answered caller is the end, and the configuration says
so. `metadata` follows builder calls up only from a few blobs (a CONSTRAINT named
`FewBlobs`), since calls look at the stored blob only when they replace it.

What the properties are about:

* `FramesAccounted`, `EndIsEarned`, `FailedCallKeepsPosition`: every frame the
  decoder has passed is with the caller, dropped by a sink call that reported
  an error, or on its way, and in exactly one of these places; `Ok(None)` comes
  only after all of them; a call that failed without a frame can be repeated.
  The model records a fact worth knowing: a sink error loses the frame, because
  the helper renders before it calls `begin`.
* `PictureIsWhole`, `SinkProtocol`, `PushAnswersTruly`: the sink never finishes
  with a row of another picture, sees only well-formed sessions even when it
  fails, and the caller hears `Ok` exactly when it was finished.
* `LimitsHold`, `CancelledBeforehand`, `RowsInOrder`, `ExecutorGetsRequested`: end
  to end, from the dyn setters, around their panics, to the pixels.
* `RoundTrip`, `EncoderIsAsAsked`: the file against what was accepted, by any of
  the ways in, and the encoder against what the dyn job was told; frames kept with
  `to_owned_frame` and encoded again give the same file. `RoundTrip` asks the caller
  to keep to one shape, which the codec does not enforce; of an animation with
  mixed shapes the header describes the first frame, and that one survives.
* `ErrorTellsCause`, `OutputIsWhole`, `CallerIsServed`: a boxed error names an
  operation only if its codec says it does not support it, and a limit only if it
  was exceeded, through any wrapper and through a sink with another codec behind
  it; a file is written only of a whole image, each row once, whatever the ways
  that failed before left behind; and the caller gets the file or the reason.
* `OneFate`, `NoneMeansShared`, `NothingLeaks`: `remove` may answer `None` to two
  clones that race, but then only because each saw the other, and the value is
  destroyed, not leaked.
* `AcceptedIsWithinIfPixelsCapped`, `RejectionIsRight`: what the verdicts mean in
  the integers, `buffer_size` included.
* `TwoAnswersAgree`, `WellFormedIsRead`: the parsers differ in nearly everything
  (prefix, cap, sorting, LONG, invalid values, truncation), and still never give
  two different answers unless the tag is there twice.
* `OrientationIsExplained`: a closed form of the builder over its history of
  calls: the last orientation set outright, or, where that was Identity, the
  first later blob that turns the image. A second blob that says otherwise is
  stored and ignored.
* `ArrivalIsAnswered`: a file this crate writes is parsed when all of it is there
  and never before; until then the reader is told to get more, and not more than
  there is; the signal a primary image carries, whose bytes are those a map
  begins with, is never taken for one; and a probe's answer lasts: after `Absent` no
  map turns up (an `UrnMismatch` on fewer bytes than a URN has must not be reported
  so), and a map once found does not change. `CompactMeansFull`: the layout that is read
  and never written means what it abbreviates.
* `ValuesSurvive`, `StaysValid`, `LossHappensOnce`: what is read of a value in range
  has its sign and is all that an f32 holds of it, it is the very f32 if its
  denominator is no more than a mantissa, and it is 0 only below the smallest step,
  1/`u32::MAX`; min and max do not cross though rounded one by one, the direction
  is not turned round, and after one hop nothing more is lost. More cannot be said of
  a value with a larger denominator, because the search computes in f64: the product
  it tests for exactness has been rounded, so that it may end with a fraction close to
  the exact one ("Disagreements found" has an example). A gamma must be at
  least the smallest step once it is an `f32`, not before: the `f64` one may be a
  little larger than the step and round to an `f32` below it, which becomes 0.
* `WholeFileIsIdentified`, `PrefixIsHonest`, `VerdictsMoveUp`: with enough bytes the
  registry answers what the file is (said without detectors and order); with
  fewer, that or nothing, but for the families where one format is a special
  case of another; and more bytes move a verdict only up the registry.
  `NamesLeadBack`: an output's names lead to its format or nowhere.
* `OutputIsLabelledTruly`, `FileTellsTruth`, `HdrIsNoticed`, `CommonFormatIsFound`:
  the label of decoded pixels, the colour fields of every file on the way, and the
  HDR warning against the colour the pixels really have. `careless` records who lost
  what on the way; where nobody did, the colour survives although `Metadata` does
  not say which field counts.

### Fairness

* `AnimationDecode` (`PersistentSpec`): weak fairness of the decoder's own steps,
  because it is synchronous code that has no wait in it, and of the caller's
  next call, because the property is about a drain loop. Nothing is assumed of
  the sink or of the token.
* `DecodePipeline` (`FairSpec`): weak fairness of the codec's steps, for the same
  reason, and of `next_batch`, for a caller that drains.
* `EncodePipeline` (`FairSpec`): the loop of `encode_from` goes on and its
  callback answers; an image has finitely many rows (`MaxRows`).
* `Extensions` (`FairSpec`): a call or destructor that has begun finishes on its
  own thread. No owner is assumed to ever call anything.
* `Dispatch` (`Spec`): one synchronous caller that goes on while it can. Which step
  it takes is not assumed: it may skip a way or try it.

### Disagreements found

Two are runs:

* `limits_wrap`: `width * height * frame_count` of three `u32` can leave `u64`.
  Without overflow checks the product wraps and an image far above
  `max_total_pixels` is accepted; with them the check panics
  (`CheckImageInfoOverflows`). A cap of at most 2^32 on `max_pixels` rules both
  out, which is proved.
* `format_footer`: `builtins.rs:82` calls the TGA v2 footer definitive when the full
  file is available. An uncompressed true-colour TGA without an id field starts
  `00 00 02 00`, which the icon detector takes for a cursor, and ICO comes before
  TGA.

Others were met while modelling. The models say what the code does, and where a
property would be broken its statement names the exception:

* The reference codec advertises `with_stop(true)` for decode jobs, and
  `capabilities.rs:553` says the token is "respected (not a no-op)", but its streaming
  decoder (`mock_anim/mod.rs:278`) never looks at it.
* `with_exif` documents that an orientation set explicitly before it is kept
  (`metadata.rs:62`); Identity is not, because the builder cannot tell it from the
  default. The builder's parser answers `None` for a big-endian LONG
  (`metadata.rs:194`), though `None` is documented as malformed or absent.
* Gain maps: `TruncatedData` behind the URN counts without the URN
  (`gainmap.rs:941`); the direction flag and the headrooms may contradict each other
  (287) and both are kept; a gamma that is, as an `f32`, below the smallest step
  becomes 0, which does not validate (233); the last convergent is not always the best fraction (754),
  and it need not be reached: `num_double` (620) is rounded, so that line 625 sees an integer
  where there is none. For 16777203/2^31, which an i32 and a u32 hold, the search
  ends at the denominator 571715899 with 4466527/571715899, which is off by 8.1e-19. The
  recursion guard of `GainMapSource` is the caller's: `new` always starts at depth 0.
* Formats: RAW prefers an extension it does not list (`builtins.rs:651`); 4096 bytes
  are not enough for a DNG whose directory lies behind them (`format/mod.rs:294`); a
  file type box with a 64-bit size is read past (`builtins.rs:22`); `image/apng` and
  `apng`, the names `output.rs` gives as examples, are not found by the common
  registry.
* Colour: `descriptor_for_decoded_pixels` documents CICP first (`icc.rs:31`), while the
  authority decides; `Metadata::from` drops the authority. `HdrIsNoticed` needs
  `ColorAssumption`: a profile identified as PQ or HLG carries a cicp tag.
* Errors: a finder sees what `source()` leads to, so a codec that stores a cause
  without naming it as source, or as text as the PNM codec does with a sink's
  error, hides it (`Flattened`).

## 4. Proofs

`tlapm` proves these for every value of the constants that the named assumptions
of the modules allow.

| Theorem | Says |
|---|---|
| `DynJobShimProofs!ShimTypeCorrect`, `ExecutorFaithful`, `LostForGood` | the shim for any set of settings and values |
| `AnimationDecodeProofs!TypeCorrect`, `FramesAreAccounted`, `TheEndIsEarned`, `RetryIsSafe`, `FinishedPictureIsWhole`, `SinkSessionsAreWellFormed` | the animation decoder for any number of frames, any heights and any start frame, and its refinement of `DecodeRowSink` |
| `DecodePipelineProofs!TypeCorrect`, `LimitsAlwaysHold`, `CancellationIsObeyed`, `RowsComeInOrder`, `PushAnswersAreTrue`, `SinkSessionIsWellFormed` | the four decode paths for any image sizes, limits and other settings, and their refinement of `DecodeRowSink` |
| `TranscodeProofs!ExtensionsTypeCorrect`, `CountsAreExact`, `TypesAreUnique`, `FateIsSingle`, `NoneOnlyIfShared`, `MapIsTyped` | the map for any number of clones, types and values, and its refinement of `TypedMap` |
| `DecodePipelineProofs!LimitsTypeCorrect`, `AcceptanceIsSafe`, `OutputIsSafe`, `RejectionIsSound` | the limits for any width of the integers |
| `DecodePipelineProofs!MetadataTypeCorrect`, `TwoParsersAgree`, `WellFormedBlobsAreRead`, `OrientationExplained` | the parsers for blobs of any length cut off anywhere, and the builder for any number of calls |
| `GainMapProofs!ArrivalAnswered`, `CompactIsFull`, `ValuesKept`, `LossIsOnce`, `MapsStayValid` | a gain map's way from parameters to a reader, for any parameters (infinite, not a number, out of range), any files of other writers, any widths of `f32`, `f64`, `i32` and `u32` that are to each other as the code's are, pieces of any size and any number of hops |
| `EncodePipelineProofs!EncodeTypeCorrect`, `EncodeRoundTrip`, `EncoderAsAsked` | the four ways to encode, for images and strips of any size, bitmaps of any stride, and animations of any number of frames of any shapes; what is read back, kept and encoded again |
| `CallerProofs!DispatchTypeCorrect`, `CausesAreTold`, `OutputsAreWhole` | a caller's ways through any two codecs, whatever their capabilities and the types their errors wrap around a cause, for any plan and any height |
| `CallerProofs!VerdictsOnlyMoveUp`, `NamesLeadToFormats`, `PrefixesAreHonest`, `FilesAreIdentified` | identification by any registry of any file that `IsFile` admits, received in any pieces; the names of any output |
| `TranscodeProofs!TranscodeTypeOK`, `LabelledTruly`, `TruthKept`, `HdrNoticed`, `CommonFound` | colour and metadata for any colours, profiles, policies, codecs, lists of any length and any number of hops |

Type correctness, `StrongCountsHolders`, `OnePerType`, `LostJobStaysLost`,
`OutputIsWithin` and the sink refinement of `DecodePipeline` are proved and so not
repeated as properties of a run; the invariants that are both proved and run are
those `PROJECT.json` gives a `property`.

**Shim.** The invariant adds to the type and to `ExecutorGetsRequested` that the
job still in the slot agrees with what was requested. `ExecutorGetsRequested`
alone is not inductive, since it says nothing until the job has moved.
`LostJobStaysLost` then follows step by step.

**Copy.** `CopyInv` says of each position of the helper how far the sink is: what
it announced, how many strips it lent, and that the buffer holds the picture up
to the current row and nothing of it beyond (`WrittenTo`). It is stated once, in
`SinkCopyProofs`, as lemmas about a step of the copy (`CopyStepKeeps`,
`CopyStepEnds`, `CopyStepPhase`) and a step outside it (`OutsideKeeps`), and both
modules that contain a copy use them. `OpenSession` reads the abstract session off
`CopyInv`: the rows filled are exactly the rows copied, which needs a
cardinality argument (`FilledRows`). `CopyStepRefines` and `OutsideRefines` then
give the refinement of `DecodeRowSink` for both.

**Animation decoder.** The properties, `CopyInv` and `Position` together are
inductive. `Position` says where `current_frame` stands in relation to what the
caller has and what is in flight; without it a step of the copy could not tell
that the picture it delivers is the frame last passed.

**Decode pipeline.** `PInv` joins `ShimInv` (the shim's invariant, reused through
`ShimStepKeeps`) and `CopyInv` to four parts of its own: `Stage` says which checks
the codec has passed at each position, `Executor` which an executor handed out has
been through, `Sunk` how the sink and the answer agree, `Streamed` what rows came out.
`LimitsHold` speaks of the settings requested of the dyn job, and the codec looks
at the job it was given; `Faithful` of the shim's invariant makes these the same.
`PipelineAssumption` asks limits and start frames to be naturals, as they are
`u32` and `u64` in the code.

**Encode pipeline.** `RoundTrip` speaks of a file, which comes to be in one step
at the end, so `EncodeInv` says what an encoder holds before: an image encoder the
rows of its strips (`RowsAreGiven`), the loop of `encode_from` the rows that came
(`RowsArePulled`), an animation encoder its frames (`FramesAreGiven`), each as one
`Pixels` of the slices accepted so far; and a file is `encode_mock_data` of them
(`FileIsAccepted`). Two things carry the argument. First, strips laid one after
another are the image (`PixelsFollow`): the place of a byte, divided by the bytes
of a row, is its row, and `TotalRows` counts rows as a set, since a sum over the
strips would be a recursion; `RowsOfAppend` is the cardinality of a disjoint union.
A strip of another shape ends that, which is why `RowsAreGiven` claims the pixels
only while the slices are `Uniform`. Second, a decoder finds each frame again
(`ReadBack`): `FlattenBlocks` says that of blocks of one length the k-th stands at
k - 1 lengths. `FlattenSeq` is a recursive function, of which one first has to show
that it exists: of the lengths for which it would not, there is a least
(`LeastExists`, `RunExists`), and the same with the places of its blocks
(`FlattenIsRun`, `FlattenBegins`). Of frames of several shapes only the first
is found (`FirstShown`), and that is what `RoundTrip` claims. A bitmap gives the same rows
for any padding (`BitmapRows`), and a kept frame has none (`KeptFrame`). On the job's
side `ShimInv` is kept through the lemmas of `DynJobShimProofs`, and `LoopCountIsAsked`
ties the encoder to the job. `EncodeAssumption` asks that `None` be no number,
descriptor or lent frame, and that the reference job supports every setting, as
`MockEncodeJob` does.

**Extensions.** `ExtensionsInv == Shape /\ StrongCountsHolders /\ OneFate`, where `Shape`
is the type, `OnePerType` and `RefsCreated` (every reference names a value
already inserted, so the next value is nobody's yet). The counts need `Shape`:
that a map holds a value at most once makes "number of owners" and "number of
references" the same. The fates need the counts: a count of 1 at `TryUnwrap`
means no other owner reaches the value. One lemma per action states what the
action does to the set of references of its owner (`RemoveStep`, `UnwrapFails`,
`DropEntryStep`, `DiscardStep`, `InsertStep`, `CloneStep`, `EndDisposal`), and
three lemmas say what that means for counts and fates: the references stay the
same (`SameRefsKeep`), one is released (`ReleaseKeeps`), or some are added
(`InsertKeeps`, `CloneKeeps`). `Cardinality` facts come from the library's
`FiniteSetTheorems`; the owners are assumed to be finitely many. For the
refinement, `ViewOfType` reads an owner's view of a type off the set of values it
holds (an entry's type is its value's type), so the order of the vector, and with
it `swap_remove`, drops out of the argument; `NewView` and `SameView` then decide
the view after each step, and one lemma per action names the abstract action.

**Limits.** `LimitsTypeOK` with the conjunction of the properties is inductive as
it stands, because every change of limits or image forgets the verdict. The work
is arithmetic: a product of two `u32` stays in `u64` (`ProductFits`), of a capped
frame and a `u32` too (`CappedProductFits`), and a remainder is never above its
number (`WrapProperties`), which is why even a wrapped total is a right reason to
reject.

**Metadata.** `MetadataAnswer` and `HelperAnswer` say that an answer is read from an
entry with the tag whose bytes are there, without regard to where the walk
stopped; with the tag once, both are the same entry, and `ValueStates` shows that
a value in 1..8 fixes both halves of the field, so `OnceAgree` follows. For
well-formed blobs, sortedness makes the tag's entry the first that ends the
helper's walk (`WellFormedSorted`, `HelperReads`), and the only one that can end
the builder's (`MetadataReads`). That a set of naturals has a first element comes
from `NatLessThanWellFounded`. The builder's invariant `Explained` adds to the
closed form that some call in the history set the orientation last, which makes
`LastSet` mean something; the step that matters is a blob after a turn, where
`FirstStays` shows that the deciding blob stays the same. `MetadataAssumption`
asks that the blobs be blobs: bytes present belong to entries.

**Gain maps.** `GainMapInv` says that what a reader has is a prefix of the file, that
its answer is the parser's for that prefix, that the last probe was of this prefix or a
shorter one, and that a file of this crate is `serialize` of its parameters.
`ArrivalIsAnswered` alone is not inductive: it does not say from which bytes the
answer comes. Two things carry the argument. First, every fraction this crate writes
has a denominator in 1..`U32Max` (`FractionTypes`), so that a whole file has no zero
where a parser looks for one (`SerializedParses`). `TurnRuns` has that fact for one
turn of the loop: the fraction that remains is below one, so its inverse has a
whole part of at least one and denominators do not shrink, and `MaxDenominator`
keeps them in `u32`. The recursive functions (`gcd`, the powers of two, the turns)
have to be shown to exist first: of the numbers for which one would not, there is a least
(`CommonExists`, `PowersExist`, `TurnsExist`). Second, a parser ends at the first
word that is missing or a zero denominator (`PayloadAnswer`), so its answer for
more bytes is the same unless it asked for them (`AnswerStays`), and with all the
words its layout needs it does not ask (`EnoughWords`). `CompactFile` takes an
expanded file's values back to the compact one's, word by word. `ForeignAssumption` asks that files
of other writers be files, whose denominators are `u32`s, zero or not.

`ValuesKept` needs what the loop of the continued fraction ends with. Were its
arithmetic exact, the loop would be Euclid's algorithm: a convergent p/d of the value
a/b, the one before it, m/c, and the part x/y that is left satisfy (p*y + m*x) * b =
a * (d*y + c*x). In f64 the part left is what remains of a rounded inverse, and the two
sides come apart. `Convergent` bounds by how much: the loss (`Lost`) after any number of turns
is less than six roundings of a/b, because what one turn adds is
a rounding divided by the product of two denominators, which grow (`LossGrows`,
`ConvergentNext`).
Such a convergent is as good as an exact one up to a few roundings of an f64
(`MissedBy`), which has more than twice the bits of an f32. So there are three ways
to end, and in each the fraction is five times nearer the value than an f32's
rounding (`IsNear`): the product seemed to be an integer (`NearIfExact`), the next
denominator is too large (`NearIfFull`), or the turns are used up (`NearIfLast`;
numerators and denominators keep up with the Fibonacci numbers even so, since the
whole parts are at least one). The division on reading adds one rounding more
(`NearRounded`), and what is that near to an f32 is rounded to that f32 again
(`FoundReads`).

For values whose denominator is no more than a mantissa more holds. Their product with a
denominator in use needs no more bits than an f64 has to be told from an integer, so a
product that seems exact is (`ExactEnds`), and no turn goes beyond the value's own
denominator: two convergents on both sides of the value share a distance of
1/(c*d), and the loss is too small to make up for it (`StaysBelow`). The search
ends at the value itself. What is below the smallest step ends with the first turn
(`SmallIs`, `CoarseEnds`). All this is one invariant of the loop, `TurnGood`, of which
the least turn without it would contradict the one before.

`MantissaAssumption` gives the widths: an i32 has room for the mantissa of an f32, a
u32 for six bits more, an f64 for a u32 and for twice the bits of an f32 and four,
exponents of an f32 reach far beyond both integers, and the Fibonacci number of
`MAX_ITER` exceeds a mantissa (in the code 2^24 < 2^31, 2^30 < 2^32 < 2^53, 2*24 + 4
<= 53, and the 39th number is 63,245,986). With it the value asked for is whole or has
a numerator in range (`AskedParts`), so no turn runs out of range
(`StillInRange`). Rounding itself is proved of any quotient in whatever terms:
near (`RoundedNear`), exact for what a type holds (`RoundedExact`), and in order
(`RoundedMonotone`). `SerializedReads` then says that the words of a file are read as
`ReadBack` of its parameters, whatever the container and the number of channels.

`LossIsOnce` and `MapsStayValid` need that the two conversions, to `f32` and to a
fraction, agree with each other. What is read of a value is 0 or rounds to the `f32`
that was written (`ReadingRegains`). So reading what was read changes nothing
(`ReadTwice`), and `HopsInv` says that from the second hop on the source is something
that was read. Both conversions keep order: rounding because it does within two
powers of two and across them (`NearestMonotone`, `BinadeBelow`), reading because two
`f32`s that are not read as 0 are still told apart when read (`ReadingMonotone`).
Hence min and max do not cross, and headrooms that are read in one order were in that
order. `GammaStays` is where the proof asked for more than `StaysValid` first did,
which excluded a gamma below the smallest step as an `f64`: one just above it can be
below it as an `f32`. `MCOdd` has such a value for TLC too.

**Dispatch.** `DispatchInv` adds to the types and the two properties what the
caller holds while a way goes well (`Holding`): a streaming decoder that is so many
rows on, with all of them in the encoder but for the one in the caller's hands
(`Streaming`), or a decoder that is used up and whose image is whole (`UsedUp`).
`OutputIsWhole` alone is not inductive: a way that fails half-way leaves rows in the
encoder, and only `Holding` knows that such an encoder is never finished. Of errors,
`WrappedCause` carries the argument: the types a codec puts around a cause neither
hide it from `find_cause` nor add one, since the first link of a type is the same
link. `DispatchAssumption` asks that a codec's own error types are not the two of
the crate. One lemma per action says what it does to `Holding` and to the answer.

**Format detection.** `DetectionInv` says that the verdict is what the registry
answers for the bytes last probed (before the first probe, none), that those are a prefix of
what has arrived, and that an output's names are its format's or an encoder's for
it. The registry's answer is the first definition that sees something
(`Detected`). `VerdictsMoveUp` then needs that a detector keeps what it saw when
more bytes come (`DetectorsKeep`), which holds of all but RAW's; what that one
takes back DNG's has found (`RawKeepsOrDng`), hence `DngBeforeRaw`. For the
common registry `CommonVerdict` says which of the 21 answers, an added one only
where none does. Per kind of file, one lemma says which detectors can see
anything of it (`PlainSeen`, `BmffSeen`, `TiffSeen`, `TgaSeen`, `SvgSeen`), one that
the first to do so is on the way to what the file is (`PlainIsHonest` and so on),
one that enough bytes identify it (`PlainIsIdentified` and so on); no two magics
start alike (`StartsApart`). `NamesLeadBack` rests on no name belonging to two
built-in formats (`LabelsApart`), and asks the same of what a caller adds
(`AddedIsDistinct`). `DetectionAssumption` asks that registries hold built-in and
custom definitions with a MIME type, that files are as long as what is said to stand in them
(`IsFile`), and that an encoder gives its output no name of another format.

**Transcode.** `IInv` is `TypeOK`, `Reported`, `Agreed`, `Corrected` and
`FileTellsTruth`. `FileTellsTruth` is about the file, and the label comes from the
info, so `Reported` ties them: a field of the info is the file's unless it is still
to come or was given up, and what was given up and mattered is in `careless`. It
holds of the calls in any order because every call only moves one field from
`todo` to the info. `Agreed` says the output was negotiated from descriptors that
carry the colour of the info or of the correction; `Corrected` that then the
pixels have it. `MeaningKept` is the step from file to file: a colour whose
deciding field is kept, and whose precedence is not turned between two fields
that disagree, means the same. The negotiation is `NegotiatedIsAvailable` and
`BestMatchIsThere`, about sequences of any length (`FirstOrNone`: a nonempty set of
indices has a least). `HdrNoticed` also needs `ColorAssumption`.

Only model-checked: all liveness (`DrainTerminates`, `CallsReturn`, `PullEnds`,
`NothingLeaks`, `CallerIsServed`), which is beyond this prover. Every safety property
of a passing run is stated by a theorem.

## 5. What is left out

Not modelled, with the reasons in `PROJECT.json`:

* The byte parsing of the reference codecs' headers, and what other crates do:
  zenpixels' profile identification and buffers, the codecs' own formats.
* Values that are set and read back and that nothing in the crate acts on:
  supplements, resolution, warnings, tuning and thread ranges, `ThreadingPolicy`,
  `OrientationHint`, `GainMapSource` and `DecodedGainMap`, a gain map's dimensions and
  colour (they come from the container), what a codec tells of the encoder that made
  a file (`detect.rs`), the extras of an output
  (their map is `Extensions`), the crop and orientation a decoder reports to have
  applied.
* `get_mut` of `Extensions`, which changes no count, and the contents of a value.
* `extensions_mut` of the decode job's shim (`dyn_decoding.rs:356`), which lends the
  caller the codec's own extension of a job that is there; that of the encode job's
  shim, whose codec has one, is `ExtensionsMut`.
* `check_total_pixels`, one comparison with a number the caller sums up.
* `Debug`, `Display`, hashing, and the deprecated aliases that forward to a
  modelled function.
* The tests and the example, which are callers of the parts above.
