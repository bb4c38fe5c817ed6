# TLA+ models of the RABBIT V-PCC transcoder and of the codec it rests on

RABBIT takes a point cloud that was compressed with V-PCC (a V3C bitstream) and
produces another V3C bitstream whose coded videos have a lower rate, without
decoding the point cloud. It is built on the V-PCC test model (TMC2): encoder and
decoder, and the reader and the writer of the bitstream, come from there; the
transcoder is new. This project models what the transcoder executes, from the V3C
units of the input file to those of the output file, and of the encoder and the
decoder the parts where order, state and limits decide: the loop over the groups
of frames and the prediction of patches.

Paths below are relative to `src/source/`.

## 1. Inventory

| Component | State | Operations | Talks to |
|---|---|---|---|
| `app/PccAppTranscoder` `decompressVideo` | `ssvu_in`, `ssvu_out`, `bMoreData`, one `PCCContext` per GOF, two statistics | the loop over groups of frames (GOFs) and, inside it, over atlases; the output file | calls reader, `checkProfile`, transcoder, writer, one after the other |
| `lib/PccLibBitstreamReader` | queue of V3C units, `numVPS` | `read` (file to units), `decode` (units to context), the syntax parsers | fills `PCCContext`; looks one unit ahead to find the end of a GOF |
| `lib/PccLibBitstreamCommon` `PCCHighLevelSyntax` | parameter sets, active set, atlases, video bitstreams per atlas | add/get, `allocateAtlasHLS`, `checkProfile` | shared by reader, transcoder and writer |
| `lib/PccLibBitstreamCommon` `PCCVideoBitstream` | bytes of a coded video | `sampleStreamToByteStream`, `byteStreamToSampleStream` | between V3C units and video codecs |
| `lib/PccLibBitstreamCommon` `PCCBitstream` | bytes, bit position | fixed and variable length codes | reader, writer |
| `lib/PccLibTranscoder` `PCCTranscoder` | libav contexts of decoder and encoder, `frameIdx` | `transcode`, `transcodeData`, `transcodeVideo`, `encodeVideo`, `addEndTile` | libav, through callbacks |
| `lib/PccLibTranscoder` `buffer_data` | `buf`, `size`, `ptr`, `room` of two in-memory files | `read_packet`, `write_packet`, `seek` | called back by libav |
| `lib/PccLibBitstreamWriter` | `ssvu_out` | `encode` (context to units), `write` (units to file) | reads `PCCContext` |
| `app/PccAppEncoder` `compressVideo`, `lib/PccLibCommon` `PCCGroupOfFrames` | frame numbers, `frames_`, output units | the loop over groups; `load` and `write` with one task per frame on several threads | calls the encoder group by group; the encoder object and its `params_` live across groups |
| `lib/PccLibEncoder` `PCCEncoder`, `PCCPatchSegmenter`, `PCCEncoderParameters` | `params_`, patches per tile, reference lists, atlas tile layers | segmentation, matching with the previous frame, `adjustReferenceAtlasFrames`, `createPatchFrameDataStructure` | fills `PCCContext`, which the writer reads |
| `lib/PccLibDecoder` `PCCDecoder`, `lib/PccLibCommon` `PCCFrameContext`, `PCCContext` | patches per tile, reference lists, order counts | `createPatchFrameDataStructure`, `setRefAfocList`, `calculateAFOCval` | reads what the reader put into `PCCContext` |
| `lib/PccLibVideoEncoder`, `PccLibVideoDecoder`, `PccLibColorConverter`, `PccLibMetrics`, `PccLibConformance`, the other applications | images, points | external codecs and numeric processing | not modelled |

The transcoder runs in one thread; libav calls the three callbacks from inside the
calls made to it. The encoder is parallel inside its stages; where the tasks share
state is `PCCGroupOfFrames::load`, whose tasks shrink a vector that the others
hold references into. The hard behaviours:

* `decode` finds the end of a GOF only by parsing the VPS of the next one, into
  the context of the current one. That VPS may have the same id, and it resizes
  the atlases.
* a problem late in the stream (an unsupported GOF, a missing video, a codec
  error) comes after earlier GOFs were transcoded; there must be no file then.
* the reader drops the END of every tile and the transcoder puts one back.
* decoder and encoder each hold frames back; both have to be drained, and the pts
  is a counter on this side.
* the output buffer grows inside a callback, behind the back of the vector that
  owns its memory.
* sizes at the limit of their field, start codes at the end of the data.
* a frame that cannot be loaded ends the sequence, while other tasks of the same
  group are still reading.
* `params_` is changed for a group and put back, in part, at the end of `encode`.
* encoder and decoder keep two copies of everything a patch is predicted from: the
  index of the next reference patch, the list of reference frames, the quantized
  depth, the frame number of which only the lower bits are sent.

What makes each component correct:

* GOF loop: the output is the input, GOF by GOF, each unit once, the videos
  transcoded once; the file is written exactly when all of that succeeded.
* video loop: every frame comes out once, in display order, with its own pts; one
  header; the loops end.
* buffers: no copy leaves its buffer, growth keeps what was written, the video is
  handed out whole and in order, the result is what libav wrote.
* conversions and sample streams: what is written is read back.
* encoder loop: the groups in the output are the readable prefix of the input, each
  frame from its own file, in every order of the tasks; nothing but what is meant to
  passes from one group to the next.
* patches: the decoder predicts every patch from the one the encoder took the
  difference to, and ends with the same depth; errors do not add up.

`PROJECT.json` lists the hazards line by line with the properties aimed at them.

## 2. Modules

| Module | Models | Kind |
|---|---|---|
| `StreamTranscoding` | what the transcoder promises: GOFs in order, each once, published only when complete | abstract specification |
| `GofTranscoder` | `decompressVideo` with reader, high-level syntax, transcoder and writer at the level of V3C units | composition, implements `StreamTranscoding` |
| `TranscodeVideo` | `transcodeVideo`, `encodeVideo`, `initEncoder`, `initDecoder` | component |
| `BufferData` | `read_packet`, `write_packet`, `seek`, the output vector | component |
| `VideoBitstream` | the two conversions of `PCCVideoBitstream` | component / algorithm |
| `SampleStream` | the V3C sample stream of a file and its size fields, writer to reader | component / algorithm |
| `EncoderFrames` | `compressVideo`, `PCCGroupOfFrames::load` and `write`, the parameters `encode` changes | component, parallel tasks |
| `AtlasPatches` | the patches of a group of frames: encoder, tile layers of the bitstream, decoder | composition of encoder, writer, reader and decoder |
| `MCGofTranscoder`, `MCBufferData`, `MCVideoBitstream`, `MCEncoderFrames`, `MCAtlasPatches` | values of set-valued constants | for TLC |
| `Binary` | powers of two, the bytes of a number and the number of bytes | arithmetic the others share |
| `GofTranscoderProofs`, `TranscodeVideoProofs`, `BufferDataProofs`, `VideoBitstreamProofs`, `SampleStreamProofs`, `EncoderFramesProofs`, `AtlasPatchesProofs` | theorems and proofs, a module each | for TLAPS |
| `InductionLemmas` | lemmas the proofs share: induction on intervals, recursive functions, `FlattenSeq`, powers of two, division, bytes | for TLAPS |

Correspondence with the code, module by module:

**GofTranscoder.** `ssvu_in`, `ssvu_out`, `context` (`vpsList`, `activeVPS`,
`atlasHLS`, `atlasIndex`), `numVPS`, `atlId` are the variables of the code; `stat`
holds the VPS bytes per GOF of the input statistics (the GOF's number stands for
the size of its VPS). `gofs` and `lost` describe the input and never change. The
actions `DecodeFirstVPS`, `DecodeNextVPS`, `DecodeData` and `DecodeEnd` are the
iterations of `PCCBitstreamReader::decode`, including what `v3cUnitHeader` and
`v3cUnitPayload` do to the context; `ProfileRefused`/`ProfileAccepted` are the two
outcomes of `checkProfile`; `transcode` is `transcodeData` and `addEndTile`
together, as in the code; `encode` is `PCCBitstreamWriter::encode` and the loop
conditions behind it; `write` is everything after the loop. `TranscodeExits`,
`CodecExits` and `EncodeExits` are the calls of `exit`. `PCCContext` hides
`setAtlasIndex` of its base class: what `decompressVideo` sets is another variable
than the one the high-level syntax uses, and the model keeps the latter.
A payload is its origin plus one number: END entries for atlas data, the number of
transcodings for a video. The toolset constraints are one flag (`good`).

**TranscodeVideo.** One step per libav call. The codecs are external: the decoder
returns frames in display order and holds `Delay` of them back; the encoder keeps
the order (`max_b_frames` is 0) and lags `EncDelay` behind. `dropped` records the
frames `avcodec_send_frame` refused, a result the code does not look at. The
downscaling of occupancy frames changes pixels only and is not modelled.

**BufferData.** Bytes are represented by their position in their stream, so that
order and loss can be seen. `Grow` is one turn of the `while` loop; `inPlace`
says whether `av_realloc_f` has moved the block, which decides what is left of the
vector's memory. A copy that leaves its buffer is undefined behaviour: the model
stops there (`crash`).

**VideoBitstream.** One iteration of the two `do ... while` loops per step; real
bytes. `emulationPreventionBytes` is false in every call and `newFrame` is always
false where it is read, so neither is in the model.

**SampleStream.** The writer and the reader of the V3C units of a file, one after the
other. The NAL units inside atlas data are another matter: their reader stores the
sizes and goes on by parsing, so nothing depends on them there; they are not
modelled. `ByteBits` is 8 in the code; the passing run uses 2 so that the sizes
at which a field is full are 4 and 16.

**EncoderFrames.** `startFrameNumber`, `endFrameNumber`, `endFrameNumber0`,
`reconstructedFrameNumber`, `contextIndex` and `params` are the variables of the
code; `frames` and `size` are `frames_`. Each task of `load` takes several steps
(take the reference, read, resize), so the steps of the tasks interleave; at most
`NbThread` of them are under way. An element that `resize` has destroyed is reached
by a task, or two threads are in `resize`: undefined behaviour, and the model stops
(`pc = "undefined"`), because nothing can be said of what follows. `missing` is the
set of files that cannot be opened, `far` whether the reconstruction of the group
makes `encode` fall back to two maps; both are inputs. Points and images are not
modelled: a frame is its number.

**AtlasPatches.** `patches` is what the encoder has, tile by tile, `atlList` what is
in the bitstream, `decoded` what the decoder has. The passes of the encoder
(segmentation and matching, `adjustReferenceAtlasFrames`, the reversal of the
patches, `createPatchFrameDataStructure`, `updateNaluInfo`) and the decoder run one
after the other, tile by tile. Which patches there are and which match is left
open: any set of depths the segmentation can give, any matching the order of
`spatialConsistencyPackFlexible` allows, any assignment of references by
`adjustReferenceAtlasFrame` (bit costs decide in the code). Numbers in a unit are
what the bitstream holds: fixed fields cut to their width, exp-Golomb codes as
prefix and bits; `size_t` and `int32_t` arithmetic wraps at `SizeTBits` and
`IntBits`. A read behind the end of `refAFOCList_` returns any member of `Garbage`;
a read of a patch that does not exist stops the model (`pc = "undefined"`):
`EncodeOutside` when a patch is coded, `AdjustOutside` in the bit costs of
`adjustReferenceAtlasFrame`, whose value is not used, so that there the program may
also go on. Of the
geometry only the depth is kept: U and V positions and sizes are coded by plain
differences. Raw and EOM patches are units without content.

## 3. Runs

| Run | Question | Result |
|---|---|---|
| `gofs` | Is the output the transcoded input, GOF by GOF; does the file appear exactly when it should; is each GOF judged and counted by its own VPS; is `StreamTranscoding` implemented? | holds |
| `gofs_atlas_count` | Is a GOF with two atlases refused? | violated |
| `video_reorder` | Are frames written in order, with their pts, completely, after one header, for every coded order and failure; do the loops end? | holds |
| `video_held_back` | Is every frame of the video in the output when the decoder reorders? | violated |
| `buffers` | Do the buffers keep what was written, do copies stay inside, and is `room` the size left until libav seeks? | holds |
| `buffers_grown` | Is the delivered bitstream what libav wrote? | violated |
| `video_bitstream` | Does going to a byte stream and back give the same NAL units? | holds |
| `sample_stream` | Does the reader stay in step with the writer? | holds |
| `sample_stream_precision` | Does every unit size fit its field? | violated |
| `encoder_frames` | Are the groups the readable prefix of the input in every order of the tasks; when is the load undefined; what passes from group to group; does the loop end? | holds |
| `encoder_tiles` | Does the encoder's own check of the number of tiles hold for every group? | violated |
| `atlas_patches` | Does the decoder predict from the same patches as the encoder and end with the same depths? | holds, with the exceptions the properties state |

The violated ones are disagreements between the code and what it says of itself
(`findings` in `PROJECT.json`):

* `buffers_grown`: when the transcoded video is more than twice as large as the
  input, `write_packet` reallocates the memory of `out_vec`, and `out_vec` is what
  is copied afterwards. `DeliveredUnlessGrown` shows that nothing else is wrong
  with the hand-over.
* `gofs_atlas_count`: the VPS of the next GOF resizes the atlases before
  `checkProfile` counts them.
* `video_held_back`: the decoder is never flushed. `OnlyHeldBackMissing` shows that
  the frames it holds back are the only ones that are lost.
* `sample_stream_precision`: `ceilLog2( maxUnitSize )` where the writer of the NAL
  units of an atlas uses `ceilLog2( maxUnitSize + 1 )`. `CrashOnlyAtPowerOfBase` shows
  that exactly the powers of 256 are affected.
* `encoder_tiles`: `encode` adds a tile for the raw points to
  `numMaxTilePerFrame_` in every group and never takes it off, so with regions of
  interest and raw patches the check in `generateTilesFromImage` ends the program
  in the second group. `ExitOnlyWithRawTiles` shows that nothing else does.

One more disagreement with a comment of the code has no violated run of its own; the
exception is part of passing properties:

* `PCCTranscoder.h:82` says of `room` "Size left in buffer". `seek` moves `ptr` and not
  `room`, so after a seek that is false, and a later `memcpy` may leave its buffer.
  `RoomLeftUnlessSought` checks the comment, for both buffers, up to the first seek:
  seeking is the only thing that breaks it. `CopyFits`, `StreamKept` and `ReadsInOrder`
  hold up to then for the same reason. For all behaviours `RoomIsSizeLeft` and
  `pc # "crash"` are false in the model, as in the code.

Five observations are part of passing properties too; no comment or message of the
code says otherwise:

* `LostOnlyWhole`: with several reference frames, a tile of the third or a later
  frame none of whose patches finds a reference loses all its patches, since
  `bestPatchList` stays empty.
* `OutsideOnlyLostOrMirrored`: in the frame behind such a tile,
  `adjustReferenceAtlasFrame` still looks up the matches the segmentation found there,
  in a list that is empty now.
* `DepthKept`: a patch against the normal axis with `D1 = 0` needs an offset of one
  bit more than is written; it and what is predicted from it is decoded
  `2^geometryBitDepth3D` off.
* `OutsideOnlyLostOrMirrored`, again: `patchPrecedenceOrderFlag` together with several
  reference frames mirrors a match in the wrong frame. The patch found there may not exist, and then the encoder reads behind its list, or it
  may have the other projection mode: encoder and decoder still predict from the
  same patch, but the mode is taken from it and the depth is computed in the other
  direction. The clause on the mode in `ReferencesAgree`, and `DepthKept`, leave that
  combination out (`MirroredElsewhere`); the other properties hold in it.
* `NoDrift`: the error of `SizeD` is at most a level, except that a patch against the
  axis that spans all coordinates is cut to `2^geometryBitDepth3D - 1` first and may
  be one more off.

Bounds, and why they are enough:

* `gofs`: three GOFs, so that there is a first, a middle and a last one, each of
  eight shapes (two ids, with and without raw videos, separate map videos, no
  attribute, bad profile, two atlases); one lost video unit at any place; both
  transcoders; both occupancy precisions that behave differently (4 and not 4). The theorems cover
  streams of any length.
* `video_reorder`: five frames, `Delay` 2, `EncDelay` 1: all coded orders the
  decoder can handle, at least two frames after the decoder is full, failures at
  every call. The theorem covers all lengths and delays.
* `buffers`: a video of 2 bytes gives an output vector of 4; writes of up to 7 and
  10 bytes in all make one write need two doublings and a second growth follow a
  first; one seek. The theorem covers all sizes.
* `video_bitstream`: two NAL units of up to three bytes out of zeros, ones and two
  header bytes, and one of 260 bytes, for AVC, HEVC and VVC: start codes are four
  bytes, so what decides is at most three bytes around the border of two units. The
  theorem covers any number of units of any length that fits its size field.
* `sample_stream`: sizes up to 17 with two-bit bytes pass two field limits. The theorems
  cover any number of units and any size of 32 bits.
* `encoder_frames`: seven frames in groups of three give two full groups and a last
  one of a single frame; two threads; every subset of the files unreadable; five
  configurations of tiles, raw patches and maps. The theorems cover all numbers.
* `atlas_patches`: depths of 4 bits in 3D and 3 in 2D with a quantizer of 2, so
  that the caps on `SizeD` are reached; a frame number of one bit, which wraps at
  every second frame; 12 bits for `size_t` and 7 for `int`, wide enough for every
  difference not to be cut by accident and narrow enough for `max3DCoordinate - D1`
  to wrap. One configuration has chains of four frames with every depth between
  three coordinates; the others have up to two patches, two tiles, four frames and
  three reference frames, with and without reversal, raw and EOM patches. The
  theorems cover all of these numbers, and all widths `PatchAssumption` allows.

Fairness. The program is one thread that runs until it returns, so weak fairness
of the next-state action (in `BufferData` of the steps inside `write_packet`, in
`TranscodeVideo` of the steps in which libav does not fail) is
what the scheduler gives. In `EncoderFrames` the threads of the task arena run their
tasks to the end and the caller waits for all of them: weak fairness of the
next-state action. Liveness properties are `PublishedIffTranscodable`,
`Terminates`, `Converts`, `WriteReturns` and `EncoderStops`. `WriteReturns` needs that doubling
reaches every request, the others that no loop waits for what never comes.

Deadlock checking is off in all runs because every behaviour ends: the program
returns or exits.

## 4. Proofs

The theorems have no bound: TLC's constants are arbitrary there. There is one
theorem per safety property, each from the inductive invariant of its module.

`BufferDataProofs` (lemma `BuffersCorrect`): under `BufferAssumption` (a non-empty
video, non-zero request sizes) `Spec` keeps `TypeOK`, `RoomLeftUnlessSought`,
`CopyFits`, `StreamKept`, `ReadsInOrder`, `DeliveredUnlessGrown`. None of them is
inductive: that a copy fits rests on `room` being the size left, which holds only
until libav seeks, and that growth keeps the stream rests on `ptr` being the
number of bytes written. The invariant `IInv` keeps both pointers inside their
buffers always, and `Unseeked` (with `RoomIsSizeLeft`) while `seeks = 0`. One
lemma per action; the lemmas on `Bytes` say how a prefix of a stream is extended.

`TranscodeVideoProofs` (lemma `VideoCorrect`): under `VideoAssumption` (any number of
frames, any delays, with or without failures) `Spec` keeps `TypeOK`, `FramesInOrder`,
`OnlyHeldBackMissing`, `CrashOnlyIfNothingDecoded`. The invariant says
what the decoder holds (`DecoderInv`: the frames of the packets read without the
first `nout`), where every returned frame is (`FrameInv`: written, in the encoder,
in `input_frame` or dropped) and what is known at each place of the loop
(`ControlInv`: back at `av_read_frame` the decoder holds at most `Delay` frames, and
never fewer once the encoder is there). The key step is that the smallest frame in
the decoder is frame `nout + 1`: no packet is more than `Delay` late, so all frames
up to it have been read. TLC checks `IInv` on the instance of `video_reorder`.

`EncoderFramesProofs`: under `EncoderAssumption` (any number of frames, threads and
frames per group, any set of unreadable files, any configurations) `Spec` keeps all
eight invariants of `encoder_frames`. The interesting part is `load`: that the
vector holds the prefix in front of the unreadable file needs, during the load, that
every finished task below `size` has its own frame, that the task of the unreadable
file, and no other, has set `size`, and that a task that is reading a readable file
has its element (`Loading`, `LoadingOne`). `Numbers` ties the frame counters to the
place in the loop, `Output` the groups written to `startFrameNumber`, `Parameters`
what is left in `params_` to the configuration. One lemma per action.

`GofTranscoderProofs`: under `GofAssumption` (any stream of GOFs with at most one
attribute, as the encoder writes them; any parameter set ids, one lost video, any codec
failures) `Spec` keeps `TypeOK`, `JudgedByOwnVps` and
`StatCountsOwnVps`. What has to be known is what is in the context at each place of
`decode`: before the VPS of the GOF (`BeforeVps`) an empty context and a queue that
starts with the units of that GOF; behind it (`AfterVps`) one parameter set, or two
when the next GOF has been peeked into, of which the active one is the GOF's own.
`Looping` ties `numVPS`, `atlId` and the queue to the program counter. For the
output, `OutInv` says that `ssvu_out` is the concatenation of the finished GOFs and
that the video and atlas data of the one at hand are transcoded not at all or once.
It holds under `AtlasAssumption`: a GOF of several atlases violates another
constraint as well, so that the profile check refuses it. That is what the check is
meant to give; `gofs_atlas_count` shows that the code does not, and without it the
loop over the atlases writes a GOF twice, so the assumption cannot be dropped.
`OutputAlwaysInOrder` and `ImplementsStreamTranscoding` have it as a hypothesis: they
are about streams of any length whose accepted GOFs have one atlas. For two attributes
they would be false: videos are told apart by partition and not by attribute, and
`encode` would write the first one twice. Under the
refinement mapping `encode` is `TranscodeGof`, `write` is `Publish`, the exits are
`Fail`, and every other action stutters.

`SampleStreamProofs`: under `SampleStreamAssumption` and `SizeAssumption` (a size is a
`uint32_t`) `Spec` keeps `ReadsInStep` and `CrashOnlyAtPowerOfBase`. `Written` says
where each unit of the stream starts and that its size field holds its size modulo
the field, `Found` that what the reader found so far are the first units, `Phases`
that its position is the start of the next. The arithmetic is `NumberOfDigits`: the
number read from the digits of `n` is `n` modulo the width of the field; and
`ceilLog2` rounds up, so that the size fits unless it is the power itself.

`VideoBitstreamProofs`: under `VideoBitstreamAssumption` and `SizeAssumption` (the
size of a NAL unit fits the `Precision` bytes of its size field) `Spec` keeps
`RoundTrip`. The invariant describes both loops by the number of units converted, the start codes chosen and where each unit ends
(`ToByte`, `ToSample`). The main step is that the search for a start code finds the
next border and nothing before it: a unit of a codec has no start code and no zero at
its end, and the four bytes at which the search stops short are in the last unit.

`AtlasPatchesProofs`: under `PatchAssumption` `Spec` keeps all nine invariants of
`atlas_patches`. The assumption bounds the widths as the code has them (the quantizer
below the depths, `geometryBitDepth3D` two below the width of `int`, indices and
counts inside their types). `EncInv` is the encoder's half: `Phases` says what each
pass has finished, `Geometry` that depths and sizes are the segmented ones on their
level, `References` that every match is a tile in front of this one and, unless
`MirroredElsewhere`, a patch of the same mode, `Coded` that a tile layer is the
encoding of its patches. `Inv` adds `DecInv`: every decoded patch is the encoder's
patch (`IsDecoded`). Its preservation is the decoder reading back, in order, what was
written:
`UvlcRoundTrip` and `SvlcRoundTrip` for the codes, `OrderCount` for the frame number
across the wrap, `ListRead` and `RefIndexRead` for the reference frame, `MatchesRead`
for the running `predIndex`, `ReferenceRead` for the tile it leads to, and
`InterDepthAlong` and `InterDepthAgainst` for the depth, where the encoder's wrapped
`geometryBitDepth3D - D1` and the decoder's `2^geometryBitDepth3D - D1` cancel because
only the difference of two of them is sent. `SegmentSize` and `InterSize` show that the
caps on `SizeD` are never reached by a prediction, from which `NoDrift` and `SizeKept`
follow. For `OutsideOnlyLostOrMirrored` it has to be known that a match, until its tile
is adjusted, is a patch its tile had in the frame before when that was segmented
(`SegmentedMatches`): if it is not there now, the tile has lost its patches.

Several of these proofs are by induction over data. The induction theorems of the
library have an operator as a parameter, which the provers do not instantiate;
`InductionLemmas` states induction on a set of numbers instead (`IntervalInduction`,
from `LeastElement`), and gets from it that a recursive function satisfies its equation
(`RecursiveFunction`, `RecursiveOnNat`, `Pow2Recursion`, `NumberRecursion`) and what
`FlattenSeq` does (`FlattenRecursion`, `FlattenAppend`, `FlattenParts`). That is why the
models have recursive functions and no RECURSIVE operators, and `Pow2[n]` in the place
of `2^n`, of which the SMT backend knows nothing for a symbolic exponent.

Only model-checked: the liveness properties (`PublishedIffTranscodable`, `Terminates`,
`Converts`, `WriteReturns`, `EncoderStops`), since ENABLED and fairness are beyond the
provers, and the five runs that end in a violation. Every invariant of a passing run is
a theorem, and so is the refinement of `StreamTranscoding`, with the hypotheses above.

## 5. Not modelled

The repository has about 245,000 lines of C++, and the models cover a small share of
them. Most of it is not this program's own logic or not a matter of states: the
vendored libraries in `dependencies/` (tbb, the SHVC parser, program options), the
configuration tables of the HM, VTM and SHM encoders, the codecs behind libav, and
the numeric core of the test model (normals, segmentation, packing, smoothing,
colour, metrics), which computes on floating-point points and pixels.

Of the modelled components the following is left out: the syntax elements of
parameter sets and SEI messages, and those of patches other than depth and
references; the single toolset constraints; point local reconstruction data; global
patch allocation; the options passed to libav; the statistics of the output; the file
handling and the external commands of `transcodeBaseline` (their results are ignored
by the code); the functions of `PCCTranscoder` that `transcode` does not call; merge
and skip patches, which the encoder never writes; a unit size precision above four
bytes; more than one attribute; the NAL units of the atlas sub-stream, whose order and
sizes are not modelled (its reader stores a size and goes on by parsing the unit).

Only video units are lost in `GofTranscoder`. When the VPS of a later GOF is missing
and the one in front has the same id, `decode` takes the data units of the later GOF
for more of the one in front, `getVideoBitstream` finds the first of the two videos of
each type, and a file is written although the input is not complete. What
`PublishedIffTranscodable` says of a missing unit is therefore said of videos only. A
missing atlas data unit is left out too.

## 6. Plan

1. (done) GOF loop with its abstract specification; video loop; buffers;
   conversions; sample streams; the invariants of video loop and buffers proved.
2. (done) The encoder's loop with parallel loading, and its proofs; patch prediction
   between encoder and decoder, with the variable length codes.
3. (done) Proofs of the other invariants: `GofTranscoder` with the refinement of
   `StreamTranscoding`, `SampleStream`, `VideoBitstream`, `AtlasPatches`.
4. (open) Atlas sub-stream: order of ASPS, AFPS, SEI and tiles between
   `PCCBitstreamReader::atlasSubStream` and its counterpart in the writer, with the
   sizes the writer takes from a first pass.
5. (open) `checkProfile` constraint by constraint, against the parameter sets the
   encoder produces.
6. (open) `TranscodeVideo` on top of `BufferData`, so that what is delivered is stated in
   frames.
