--------------------------- MODULE EncoderFrames ----------------------------
(***************************************************************************)
(* compressVideo of the encoder application: the loop that loads the next  *)
(* group of frames, encodes it and writes the reconstructed frames.        *)
(*                                                                         *)
(* PCCGroupOfFrames::load and write run one task per frame on several      *)
(* threads.  A task of load takes a reference into the vector frames_,     *)
(* and a task that cannot open its file shrinks that vector while other    *)
(* tasks hold their references.  An access to a destroyed element and two  *)
(* overlapping calls of resize are undefined behaviour: the model stops    *)
(* there (pc = "undefined").                                               *)
(*                                                                         *)
(* PCCEncoder lives as long as the loop, so what encode leaves in params_  *)
(* is what the next group starts from.                                     *)
(***************************************************************************)
EXTENDS Integers, Sequences, FiniteSets

CONSTANTS
  StartFrame,  \* startFrameNumber_
  FrameCount,  \* frameCount_
  GofSize,     \* groupOfFramesSize0
  NbThread,    \* nbThread_, the threads of the task arena
  Confs        \* the configurations: tile segmentation, raw patches, maps

ASSUME EncoderAssumption ==
  /\ StartFrame \in Nat
  /\ FrameCount \in Nat
  /\ GofSize \in Nat \ {0}
  /\ NbThread \in Nat \ {0}
  /\ Confs \subseteq [seg : 0..2, raw : BOOLEAN, rois : Nat \ {0},
                      single : BOOLEAN, recon : BOOLEAN]

VARIABLES
  conf,       \* the configuration
  missing,    \* the frames whose file cannot be opened
  startFrameNumber, endFrameNumber, endFrameNumber0,
  reconstructedFrameNumber, contextIndex,
  frames,     \* frames_: what each element holds
  size,       \* frames_.size()
  task,       \* the task of each frame
  params,     \* params_ of the encoder: numMaxTilePerFrame_, mapCountMinus1_ and
              \* whether one map stands for two (point local reconstruction,
              \* pixel interleaving)
  far,        \* this group's reconstruction is too far from its source
  ssvu,       \* the groups in the output
  files,      \* the reconstructed files written: number and frame
  pc

inputs == <<conf, missing>>
numbers == <<startFrameNumber, endFrameNumber, endFrameNumber0,
             reconstructedFrameNumber, contextIndex>>
vector == <<frames, size>>
encoder == <<params, far, ssvu>>
vars == <<inputs, numbers, vector, task, encoder, files, pc>>

Total == StartFrame + FrameCount
Slots == 0..(GofSize - 1)

\* The elements of frames_ that the group was loaded into.
Empty == -1      \* a point set without points
Destroyed == -2  \* no object

Tasks == 0..(endFrameNumber - startFrameNumber - 1)

\* The bitstream carries 4 bits of the parameter set id.
VpsId == contextIndex % 16

\* PCCEncoderParameters::check fixes the number of tiles by the segmentation.
Configured ==
  [tiles |-> CASE conf.seg = 0 -> 1 [] conf.seg = 1 -> conf.rois [] OTHER -> 3,
   maps |-> IF conf.single THEN 0 ELSE 1,
   single |-> conf.single]

Init ==
  /\ conf \in Confs
  /\ missing \in SUBSET (StartFrame..(Total - 1))
  /\ startFrameNumber = StartFrame
  /\ endFrameNumber = StartFrame
  /\ endFrameNumber0 = Total
  /\ reconstructedFrameNumber = StartFrame
  /\ contextIndex = 0
  /\ frames = [i \in Slots |-> Destroyed]
  /\ size = 0
  /\ task = [i \in Slots |-> "done"]
  /\ params = Configured
  /\ far = FALSE
  /\ ssvu = <<>>
  /\ files = {}
  /\ pc = "loop"

-----------------------------------------------------------------------------
(* load *)

MoreFrames_WholeGroups == startFrameNumber + GofSize <= endFrameNumber0

\* The condition of the loop.
MoreFrames == startFrameNumber < endFrameNumber0

\* The next group, the last one possibly shorter; load makes room for it.
\* There is at least one frame, so load returns true.
LoadBegin ==
  /\ pc = "loop"
  /\ MoreFrames
  /\ LET n == IF startFrameNumber + GofSize < endFrameNumber0
              THEN GofSize ELSE endFrameNumber0 - startFrameNumber
     IN  /\ endFrameNumber' = startFrameNumber + n
         /\ size' = n
         /\ frames' = [i \in Slots |-> IF i < n THEN Empty ELSE Destroyed]
         /\ task' = [i \in Slots |-> IF i < n THEN "ready" ELSE "done"]
  /\ pc' = "load"
  /\ UNCHANGED <<inputs, startFrameNumber, endFrameNumber0,
                 reconstructedFrameNumber, contextIndex, encoder, files>>

Running == {i \in Slots : task[i] \in {"reading", "resizing"}}

Readable(i) == startFrameNumber + i \notin missing

\* A thread takes a task: pointSet = frames_[i], pointSet.resize( 0 ).
TaskStart(i) ==
  /\ pc = "load"
  /\ task[i] = "ready"
  /\ Cardinality(Running) < NbThread
  /\ i < size
  /\ frames' = [frames EXCEPT ![i] = Empty]
  /\ task' = [task EXCEPT ![i] = "reading"]
  /\ UNCHANGED <<inputs, numbers, size, encoder, files, pc>>

\* The element does not exist any more.
TaskStartDangling(i) ==
  /\ pc = "load"
  /\ task[i] = "ready"
  /\ Cardinality(Running) < NbThread
  /\ i >= size
  /\ pc' = "undefined"
  /\ UNCHANGED <<inputs, numbers, vector, task, encoder, files>>

ReadOk_NextFile(i) ==
  /\ pc = "load"
  /\ task[i] = "reading"
  /\ Readable(i)
  /\ frames' = [frames EXCEPT ![i] = startFrameNumber + i + 1]
  /\ task' = [task EXCEPT ![i] = "done"]
  /\ UNCHANGED <<inputs, numbers, size, encoder, files, pc>>

\* The file is read into the point set.
ReadOk(i) ==
  /\ pc = "load"
  /\ task[i] = "reading"
  /\ Readable(i)
  /\ frames' = [frames EXCEPT ![i] = startFrameNumber + i]
  /\ task' = [task EXCEPT ![i] = "done"]
  /\ UNCHANGED <<inputs, numbers, size, encoder, files, pc>>

ReadFails_NoResize(i) ==
  /\ pc = "load"
  /\ task[i] = "reading"
  /\ ~Readable(i)
  /\ task' = [task EXCEPT ![i] = "done"]
  /\ UNCHANGED <<inputs, numbers, vector, encoder, files, pc>>

\* The file cannot be opened, read has not touched the point set: the task
\* enters frames_.resize( i ), where it must be alone.
ReadFails(i) ==
  /\ pc = "load"
  /\ task[i] = "reading"
  /\ ~Readable(i)
  /\ IF \E j \in Slots : task[j] = "resizing"
     THEN pc' = "undefined" /\ UNCHANGED task
     ELSE task' = [task EXCEPT ![i] = "resizing"] /\ UNCHANGED pc
  /\ UNCHANGED <<inputs, numbers, vector, encoder, files>>

\* frames_.resize( n ): the elements from n on are destroyed, or empty ones
\* are appended up to n.
Resized(n) ==
  [i \in Slots |-> IF i >= n THEN Destroyed
                   ELSE IF i >= size THEN Empty ELSE frames[i]]

ResizeEnd_OneMore(i) ==
  /\ pc = "load"
  /\ task[i] = "resizing"
  /\ frames' = Resized(i - 1)
  /\ size' = i - 1
  /\ task' = [task EXCEPT ![i] = "done"]
  /\ pc' = IF \E j \in Slots : /\ j >= i - 1 /\ j < size
                               /\ task[j] = "reading" /\ Readable(j)
           THEN "undefined" ELSE pc
  /\ UNCHANGED <<inputs, numbers, encoder, files>>

\* It goes wrong when a task is reading a file into an element that goes away.
ResizeEnd(i) ==
  /\ pc = "load"
  /\ task[i] = "resizing"
  /\ frames' = Resized(i)
  /\ size' = i
  /\ task' = [task EXCEPT ![i] = "done"]
  /\ pc' = IF \E j \in Slots : /\ j >= i /\ j < size
                               /\ task[j] = "reading" /\ Readable(j)
           THEN "undefined" ELSE pc
  /\ UNCHANGED <<inputs, numbers, encoder, files>>

LoadEnd_Waits ==
  /\ pc = "load"
  /\ \A i \in Slots : task[i] = "done"
  /\ size = endFrameNumber - startFrameNumber
  /\ pc' = "encode"
  /\ UNCHANGED <<inputs, numbers, vector, task, encoder, files>>

\* All tasks have returned.  A short group is the last one.
LoadEnd ==
  /\ pc = "load"
  /\ \A i \in Slots : task[i] = "done"
  /\ IF size < endFrameNumber - startFrameNumber
     THEN /\ endFrameNumber' = startFrameNumber + size
          /\ endFrameNumber0' = startFrameNumber + size
     ELSE UNCHANGED <<endFrameNumber, endFrameNumber0>>
  /\ pc' = "encode"
  /\ UNCHANGED <<inputs, startFrameNumber, reconstructedFrameNumber,
                 contextIndex, vector, task, encoder, files>>

-----------------------------------------------------------------------------
(* encode *)

\* encode returns at once, and the writer asks the context, which has no
\* atlas, for its parameter sets.
EncodeEmpty ==
  /\ pc = "encode"
  /\ size = 0
  /\ pc' = "undefined"
  /\ UNCHANGED <<inputs, numbers, vector, task, encoder, files>>

RawTile == conf.raw /\ conf.seg > 0 /\ params.tiles > 1

EncodeBegin_AnyTile ==
  /\ pc = "encode"
  /\ size > 0
  /\ \E d \in BOOLEAN :
       /\ far' = d
       /\ params' = [tiles |-> params.tiles
                                 + (IF conf.seg > 0 /\ params.tiles > 1 THEN 1 ELSE 0),
                     maps |-> IF params.single /\ d THEN 1 ELSE params.maps,
                     single |-> params.single /\ ~d]
  /\ pc' = "place"
  /\ UNCHANGED <<inputs, numbers, vector, task, ssvu, files>>

\* The raw points get a tile of their own.  generateSegments falls back to two
\* maps when the reconstruction from one of them is too far from the source.
EncodeBegin ==
  /\ pc = "encode"
  /\ size > 0
  /\ \E d \in BOOLEAN :
       /\ far' = d
       /\ params' = [tiles |-> params.tiles + (IF RawTile THEN 1 ELSE 0),
                     maps |-> IF params.single /\ d THEN 1 ELSE params.maps,
                     single |-> params.single /\ ~d]
  /\ pc' = "place"
  /\ UNCHANGED <<inputs, numbers, vector, task, ssvu, files>>

\* generateTilesFromImage finds one tile per region of interest (the last
\* region has points) and checks their number.
TilesAgree ==
  conf.seg = 1 => params.tiles = conf.rois + (IF conf.raw THEN 1 ELSE 0)

PlaceExits ==
  /\ pc = "place"
  /\ ~TilesAgree
  /\ pc' = "exit"
  /\ UNCHANGED <<inputs, numbers, vector, task, encoder, files>>

\* What the writer puts in the bitstream for this group.
Gof == [id |-> VpsId, start |-> startFrameNumber, count |-> size,
        frames |-> frames, tiles |-> params.tiles, maps |-> params.maps,
        far |-> far]

EncodeEnd_NoRestore ==
  /\ pc = "place"
  /\ TilesAgree
  /\ ssvu' = Append(ssvu, Gof)
  /\ task' = [i \in Slots |-> IF i < size /\ conf.recon THEN "ready" ELSE "done"]
  /\ pc' = "write"
  /\ UNCHANGED <<inputs, numbers, vector, params, far, files>>

\* The rest of encode, which puts back three of the parameters, and
\* PCCBitstreamWriter::encode.
EncodeEnd ==
  /\ pc = "place"
  /\ TilesAgree
  /\ ssvu' = Append(ssvu, Gof)
  /\ params' = [Configured EXCEPT !.tiles = params.tiles]
  /\ task' = [i \in Slots |-> IF i < size /\ conf.recon THEN "ready" ELSE "done"]
  /\ pc' = "write"
  /\ UNCHANGED <<inputs, numbers, vector, far, files>>

-----------------------------------------------------------------------------
(* write, and the end of an iteration *)

\* One task of PCCGroupOfFrames::write on the reconstructed frames, as many as
\* there are source frames.
WriteFile(i) ==
  /\ pc = "write"
  /\ task[i] = "ready"
  /\ files' = files \cup {<<reconstructedFrameNumber + i, frames[i]>>}
  /\ task' = [task EXCEPT ![i] = "done"]
  /\ UNCHANGED <<inputs, numbers, vector, encoder, pc>>

WriteEnd_SameNumber ==
  /\ pc = "write"
  /\ \A i \in Slots : task[i] = "done"
  /\ startFrameNumber' = endFrameNumber
  /\ contextIndex' = contextIndex + 1
  /\ pc' = "loop"
  /\ UNCHANGED <<inputs, endFrameNumber, endFrameNumber0,
                 reconstructedFrameNumber, vector, task, encoder, files>>

WriteEnd ==
  /\ pc = "write"
  /\ \A i \in Slots : task[i] = "done"
  /\ reconstructedFrameNumber' =
       reconstructedFrameNumber + (IF conf.recon THEN size ELSE 0)
  /\ startFrameNumber' = endFrameNumber
  /\ contextIndex' = contextIndex + 1
  /\ pc' = "loop"
  /\ UNCHANGED <<inputs, endFrameNumber, endFrameNumber0, vector, task,
                 encoder, files>>

\* After the loop the bitstream is written.
Publish ==
  /\ pc = "loop"
  /\ ~MoreFrames
  /\ pc' = "done"
  /\ UNCHANGED <<inputs, numbers, vector, task, encoder, files>>

-----------------------------------------------------------------------------
LoadTask(i) ==
  \/ TaskStart(i)
  \/ TaskStartDangling(i)
  \/ ReadOk(i)
  \/ ReadFails(i)
  \/ ResizeEnd(i)

Next ==
  \/ LoadBegin
  \/ \E i \in Slots : LoadTask(i)
  \/ LoadEnd
  \/ EncodeEmpty
  \/ EncodeBegin
  \/ PlaceExits
  \/ EncodeEnd
  \/ \E i \in Slots : WriteFile(i)
  \/ WriteEnd
  \/ Publish

Spec == Init /\ [][Next]_vars

\* The main thread runs until it returns, and so do the threads of the arena.
FairSpec == Spec /\ WF_vars(Next)

-----------------------------------------------------------------------------
TypeOK ==
  /\ conf \in Confs
  /\ missing \subseteq StartFrame..(Total - 1)
  /\ startFrameNumber \in StartFrame..Total
  /\ endFrameNumber \in StartFrame..Total
  /\ endFrameNumber0 \in StartFrame..Total
  /\ reconstructedFrameNumber \in StartFrame..Total
  /\ contextIndex \in Nat
  /\ frames \in [Slots -> {Empty, Destroyed} \cup StartFrame..(Total - 1)]
  /\ size \in 0..GofSize
  /\ task \in [Slots -> {"ready", "reading", "resizing", "done"}]
  /\ params \in [tiles : Nat, maps : 0..1, single : BOOLEAN]
  /\ far \in BOOLEAN
  /\ pc \in {"loop", "load", "encode", "place", "write", "done", "exit",
             "undefined"}

\* The group that starts at s, as it was asked for, and the files of it that
\* cannot be opened.
GroupEnd(s) == IF s + GofSize < Total THEN s + GofSize ELSE Total
Group(s) == s..(GroupEnd(s) - 1)
Unreadable(s) == missing \cap Group(s)
AtMostOne(S) == \A x, y \in S : x = y

\* Shrinking frames_ while other tasks hold references into it is harmless when
\* the only file that cannot be opened is the last one of a group of several
\* frames: no task reads into, or takes, an element that is gone, no two
\* threads are in resize, and there is a frame to encode.
LoadSafe ==
  pc = "undefined" =>
    ~ /\ Unreadable(startFrameNumber) \subseteq {GroupEnd(startFrameNumber) - 1}
      /\ GroupEnd(startFrameNumber) - startFrameNumber > 1

\* Whatever the order of the tasks, when load returns, and at most one file was
\* missing, the vector is the group up to that file, each frame from its own
\* file, and endFrameNumber says so.
LoadedPrefix ==
  pc = "encode" /\ AtMostOne(Unreadable(startFrameNumber)) =>
    /\ \A i \in Slots : i < size => frames[i] = startFrameNumber + i
    /\ endFrameNumber = startFrameNumber + size
    /\ \A f \in Group(startFrameNumber) : f \in missing <=> f = endFrameNumber

\* No group lost two of its files so far.
OneMissing ==
  \A k \in DOMAIN ssvu : AtMostOne(Unreadable(ssvu[k].start))

\* The groups in the output follow one another without gap or overlap, and
\* each holds its own frames, all of them readable.
EncodedInOrder ==
  OneMissing =>
    \A k \in DOMAIN ssvu :
      /\ ssvu[k].start =
           IF k = 1 THEN StartFrame ELSE ssvu[k - 1].start + ssvu[k - 1].count
      /\ \A i \in 0..(ssvu[k].count - 1) :
           ssvu[k].frames[i] = ssvu[k].start + i /\ ssvu[k].start + i \notin missing

\* Where the frames in the output end.
Covered ==
  IF ssvu = <<>> THEN StartFrame
  ELSE ssvu[Len(ssvu)].start + ssvu[Len(ssvu)].count

\* When the bitstream is written it ends at the first file that could not be
\* opened, or has all frames that were asked for.
DoneComplete ==
  pc = "done" /\ OneMissing => Covered = Total \/ Covered \in missing

\* A reconstructed file has the number of the frame it holds: the two counters
\* of the loop agree whatever groups came before.
FilesNamed ==
  OneMissing => \A f \in files : f[1] = f[2]

\* A group has other maps than configured only for its own reason: what encode
\* changes in params_ for one group does not reach the next.
MapsByOwnGof ==
  \A k \in DOMAIN ssvu :
    ssvu[k].maps # Configured.maps => conf.single /\ ssvu[k].far

\* The number of tiles stops the encoder only with raw patches and tiles by
\* region of interest, and then after the first group or with a single region.
ExitOnlyWithRawTiles ==
  pc = "exit" => /\ conf.seg = 1 /\ conf.raw
                 /\ contextIndex > 0 \/ conf.rois = 1

\* generateTilesFromImage checks that numMaxTilePerFrame_ is the number of tiles
\* plus the one of the raw points, and exits if it is not.
TilesChecked == pc = "place" => TilesAgree

\* Every task returns and every group ends: the encoder comes to an end.
EncoderStops == <>(pc \in {"done", "exit", "undefined"})
=============================================================================
