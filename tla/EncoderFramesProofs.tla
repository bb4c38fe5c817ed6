------------------------ MODULE EncoderFramesProofs -------------------------
(***************************************************************************)
(* The safety properties of EncoderFrames hold for every number of frames, *)
(* threads and frames per group, every set of missing files and every      *)
(* configuration.                                                          *)
(***************************************************************************)
EXTENDS EncoderFrames, TLAPS

GofType == [id : Int, start : Int, count : Nat, frames : [Slots -> Int],
            tiles : Nat, maps : 0..1, far : BOOLEAN]

Types ==
  /\ TypeOK
  /\ ssvu \in Seq(GofType)
  /\ files \subseteq Int \X Int

\* The frame numbers at each place of the loop.
Numbers ==
  /\ pc = "loop" => endFrameNumber0 = Total \/ startFrameNumber = endFrameNumber0
  /\ pc = "load" => /\ endFrameNumber0 = Total
                    /\ startFrameNumber < Total
                    /\ endFrameNumber = GroupEnd(startFrameNumber)
  /\ pc \in {"encode", "place", "write"} =>
       /\ startFrameNumber < Total
       /\ endFrameNumber = startFrameNumber + size
       /\ endFrameNumber <= GroupEnd(startFrameNumber)
       /\ \/ endFrameNumber0 = Total
          \/ /\ endFrameNumber0 = endFrameNumber
             /\ endFrameNumber < GroupEnd(startFrameNumber)
  /\ pc = "done" => startFrameNumber = endFrameNumber0
  /\ conf.recon => reconstructedFrameNumber = startFrameNumber
  /\ ~conf.recon => reconstructedFrameNumber = StartFrame

InGroup(i) == startFrameNumber + i < GroupEnd(startFrameNumber)

\* The vector during load.
Loading ==
  pc = "load" =>
    /\ size <= endFrameNumber - startFrameNumber
    /\ \A i \in Slots : task[i] # "done" => InGroup(i)
    /\ \A i \in Slots : task[i] = "reading" /\ Readable(i) => i < size
    /\ \A i \in Slots : task[i] = "resizing" => ~Readable(i)

\* ... when at most one file of the group is missing.
LoadingOne ==
  pc = "load" /\ AtMostOne(Unreadable(startFrameNumber)) =>
    /\ \A i \in Slots : i < size /\ task[i] = "done" => frames[i] = startFrameNumber + i
    /\ \A i \in Slots : InGroup(i) /\ ~Readable(i) /\ task[i] = "done" => size = i
    /\ \/ size = endFrameNumber - startFrameNumber
       \/ \E i \in Slots : InGroup(i) /\ ~Readable(i) /\ task[i] = "done"

\* The vector after it.
Loaded ==
  pc \in {"encode", "place", "write"} /\ AtMostOne(Unreadable(startFrameNumber)) =>
    /\ \A i \in Slots : i < size => frames[i] = startFrameNumber + i
    /\ \A f \in Group(startFrameNumber) : f \in missing <=> f = endFrameNumber

\* The groups in the output.
Output ==
  /\ pc # "write" => Covered = startFrameNumber
  /\ pc = "write" => /\ Covered = endFrameNumber
                     /\ ssvu # <<>>
                     /\ ssvu[Len(ssvu)].start = startFrameNumber
  /\ \A k \in DOMAIN ssvu :
       ssvu[k].start =
         IF k = 1 THEN StartFrame ELSE ssvu[k - 1].start + ssvu[k - 1].count
  /\ \A k \in DOMAIN ssvu : AtMostOne(Unreadable(ssvu[k].start)) =>
       \A i \in 0..(ssvu[k].count - 1) :
         ssvu[k].frames[i] = ssvu[k].start + i /\ ssvu[k].start + i \notin missing
  /\ pc \in {"loop", "done"} /\ OneMissing =>
       endFrameNumber0 = Total \/ endFrameNumber0 \in missing

Written ==
  /\ pc = "write" => \A i \in Slots : task[i] # "done" => conf.recon /\ i < size
  /\ FilesNamed

\* What encode leaves in params_.
Parameters ==
  /\ params.single => conf.single
  /\ pc # "place" /\ pc # "exit" => params.maps = Configured.maps
  /\ pc = "place" => (params.maps # Configured.maps => conf.single /\ far)
  /\ ~conf.raw => params.tiles = Configured.tiles
  /\ contextIndex = 0 /\ pc \in {"loop", "load", "encode"} =>
       params.tiles = Configured.tiles
  /\ contextIndex = 0 /\ pc = "place" /\ conf.seg = 1 =>
       params.tiles = conf.rois + (IF conf.raw /\ conf.rois > 1 THEN 1 ELSE 0)
  /\ MapsByOwnGof
  /\ ExitOnlyWithRawTiles

IInv == /\ Types /\ Numbers /\ Loading /\ LoadingOne /\ Loaded
        /\ Output /\ Written /\ Parameters /\ LoadSafe

-----------------------------------------------------------------------------
LEMMA ConfType ==
  ASSUME conf \in Confs
  PROVE  /\ conf.seg \in 0..2 /\ conf.raw \in BOOLEAN /\ conf.rois \in Nat \ {0}
         /\ conf.single \in BOOLEAN /\ conf.recon \in BOOLEAN
         /\ Configured \in [tiles : Nat, maps : 0..1, single : BOOLEAN]
         /\ Configured.maps = (IF conf.single THEN 0 ELSE 1)
         /\ Configured.single = conf.single
         /\ conf.seg = 1 => Configured.tiles = conf.rois
  BY EncoderAssumption DEF Configured

LEMMA GroupBounds ==
  ASSUME NEW s \in StartFrame..Total
  PROVE  /\ GroupEnd(s) \in Int /\ GroupEnd(s) <= Total /\ GroupEnd(s) <= s + GofSize
         /\ s < Total => s < GroupEnd(s)
  BY EncoderAssumption DEF GroupEnd, Total

\* The output does not change.
LEMMA OutputKept ==
  ASSUME Output,
         UNCHANGED <<ssvu, missing, startFrameNumber, endFrameNumber, endFrameNumber0>>,
         \/ pc' = pc
         \/ pc # "write" /\ pc' \notin {"write", "loop", "done"}
  PROVE  Output'
<1>1. Covered' = Covered /\ OneMissing' = OneMissing
  BY DEF Covered, OneMissing, Unreadable
<1>2. ssvu' = ssvu /\ missing' = missing  OBVIOUS
<1>3. \A k : Unreadable(ssvu[k].start)' = Unreadable(ssvu[k].start)
  BY DEF Unreadable
<1>4. /\ pc' # "write" => Covered' = startFrameNumber'
      /\ pc' = "write" => /\ Covered' = endFrameNumber'
                          /\ ssvu' # <<>>
                          /\ ssvu'[Len(ssvu')].start = startFrameNumber'
      /\ pc' \in {"loop", "done"} /\ OneMissing' =>
           endFrameNumber0' = Total \/ endFrameNumber0' \in missing'
  BY <1>1 DEF Output
<1>5. \A k \in DOMAIN ssvu' : AtMostOne(Unreadable(ssvu[k].start))' =>
       \A i \in 0..(ssvu'[k].count - 1) :
         ssvu'[k].frames[i] = ssvu'[k].start + i /\ ssvu'[k].start + i \notin missing'
  BY <1>2, <1>3 DEF Output, AtMostOne
<1>6. \A k \in DOMAIN ssvu' :
       ssvu'[k].start =
         IF k = 1 THEN StartFrame ELSE ssvu'[k - 1].start + ssvu'[k - 1].count
  BY <1>2 DEF Output
<1> QED  BY <1>4, <1>5, <1>6 DEF Output

LEMMA InitInv == Init => IInv
<1> SUFFICES ASSUME Init PROVE IInv  OBVIOUS
<1> USE EncoderAssumption DEF Init
<1>1. Types
  <2>1. params \in [tiles : Nat, maps : 0..1, single : BOOLEAN]  BY ConfType
  <2>2. frames \in [Slots -> {Empty, Destroyed} \cup StartFrame..(Total - 1)]  OBVIOUS
  <2>3. task \in [Slots -> {"ready", "reading", "resizing", "done"}]  OBVIOUS
  <2>4. StartFrame \in StartFrame..Total /\ Total \in StartFrame..Total  BY DEF Total
  <2>5. ssvu \in Seq(GofType) /\ files \subseteq Int \X Int  OBVIOUS
  <2>6. size \in 0..GofSize /\ contextIndex \in Nat  OBVIOUS
  <2> QED  BY <2>1, <2>2, <2>3, <2>4, <2>5, <2>6 DEF Types, TypeOK
<1>2. Numbers  BY DEF Numbers
<1>3. Loading /\ LoadingOne /\ Loaded /\ LoadSafe
  BY DEF Loading, LoadingOne, Loaded, LoadSafe
<1>4. Output  BY DEF Output, Covered
<1>5. Written  BY DEF Written, FilesNamed
<1>6. Parameters
  BY DEF Parameters, MapsByOwnGof, ExitOnlyWithRawTiles, Configured
<1> QED  BY <1>1, <1>2, <1>3, <1>4, <1>5, <1>6 DEF IInv

LEMMA LoadBeginInv ==
  ASSUME IInv, LoadBegin
  PROVE  IInv'
<1> USE EncoderAssumption, ConfType, GroupBounds DEF IInv, LoadBegin, MoreFrames, vars, inputs, numbers, vector, encoder
<1>0. Configured' = Configured  BY DEF Configured
<1>1. Types'
  BY DEF Types, TypeOK, Slots, Total, Empty, Destroyed, GroupEnd, Numbers, GofType
<1>2. Numbers'
  BY DEF Types, TypeOK, Numbers, Slots, Total, GroupEnd
<1>3. Loading'
  BY DEF Types, TypeOK, Numbers, Loading, InGroup, Readable, Slots, Total, GroupEnd
<1>4. LoadingOne'
  BY DEF Types, TypeOK, Numbers, Loading, LoadingOne, InGroup, Readable, Slots, Total, GroupEnd, AtMostOne, Unreadable, Group
<1>5. Loaded'
  BY DEF Types, TypeOK, Numbers, Loading, LoadingOne, Loaded, InGroup, Readable, Slots, Total, GroupEnd, AtMostOne, Unreadable, Group
<1>6. Output'
  BY DEF Types, TypeOK, Numbers, Loaded, Output, Covered, OneMissing, Slots, Total, AtMostOne, Unreadable, Group
<1>7. Written'
  BY DEF Types, TypeOK, Numbers, Loaded, Output, Written, FilesNamed, OneMissing, Slots, Unreadable
<1>8. Parameters'
  BY <1>0 DEF Types, TypeOK, Parameters, MapsByOwnGof, ExitOnlyWithRawTiles
<1>9. LoadSafe'
  BY DEF Types, TypeOK, Numbers, Loading, LoadingOne, Loaded, LoadSafe, InGroup, Readable, Slots, Total, GroupEnd, AtMostOne, Unreadable, Group
<1> QED  BY <1>1, <1>2, <1>3, <1>4, <1>5, <1>6, <1>7, <1>8, <1>9

LEMMA TaskStartInv ==
  ASSUME IInv, NEW i \in Slots, TaskStart(i)
  PROVE  IInv'
<1> USE EncoderAssumption, ConfType, GroupBounds DEF IInv, TaskStart, vars, inputs, numbers, vector, encoder
<1>0. Configured' = Configured  BY DEF Configured
<1>1. Types'
  BY DEF Types, TypeOK, Slots, Total, Empty, Destroyed, GroupEnd, Numbers, GofType
<1>2. Numbers'
  BY DEF Types, TypeOK, Numbers, Slots, Total, GroupEnd
<1>3. Loading'
  BY DEF Types, TypeOK, Numbers, Loading, InGroup, Readable, Slots, Total, GroupEnd
<1>4. LoadingOne'
  BY DEF Types, TypeOK, Numbers, Loading, LoadingOne, InGroup, Readable, Slots, Total, GroupEnd, AtMostOne, Unreadable, Group
<1>5. Loaded'
  BY DEF Types, TypeOK, Numbers, Loading, LoadingOne, Loaded, InGroup, Readable, Slots, Total, GroupEnd, AtMostOne, Unreadable, Group
<1>6. Output'
  BY OutputKept
<1>7. Written'
  BY DEF Types, TypeOK, Numbers, Loaded, Output, Written, FilesNamed, OneMissing, Slots, Unreadable
<1>8. Parameters'
  BY <1>0 DEF Types, TypeOK, Parameters, MapsByOwnGof, ExitOnlyWithRawTiles
<1>9. LoadSafe'
  BY DEF Types, TypeOK, Numbers, Loading, LoadingOne, Loaded, LoadSafe, InGroup, Readable, Slots, Total, GroupEnd, AtMostOne, Unreadable, Group
<1> QED  BY <1>1, <1>2, <1>3, <1>4, <1>5, <1>6, <1>7, <1>8, <1>9

LEMMA TaskStartDanglingInv ==
  ASSUME IInv, NEW i \in Slots, TaskStartDangling(i)
  PROVE  IInv'
<1> USE EncoderAssumption, ConfType, GroupBounds DEF IInv, TaskStartDangling, vars, inputs, numbers, vector, encoder
<1>0. Configured' = Configured  BY DEF Configured
<1>1. Types'
  BY DEF Types, TypeOK, Slots, Total, Empty, Destroyed, GroupEnd, Numbers, GofType
<1>2. Numbers'
  BY DEF Types, TypeOK, Numbers, Slots, Total, GroupEnd
<1>3. Loading'
  BY DEF Types, TypeOK, Numbers, Loading, InGroup, Readable, Slots, Total, GroupEnd
<1>4. LoadingOne'
  BY DEF Types, TypeOK, Numbers, Loading, LoadingOne, InGroup, Readable, Slots, Total, GroupEnd, AtMostOne, Unreadable, Group
<1>5. Loaded'
  BY DEF Types, TypeOK, Numbers, Loading, LoadingOne, Loaded, InGroup, Readable, Slots, Total, GroupEnd, AtMostOne, Unreadable, Group
<1>6. Output'
  BY OutputKept
<1>7. Written'
  BY DEF Types, TypeOK, Numbers, Loaded, Output, Written, FilesNamed, OneMissing, Slots, Unreadable
<1>8. Parameters'
  BY <1>0 DEF Types, TypeOK, Parameters, MapsByOwnGof, ExitOnlyWithRawTiles
<1>9. LoadSafe'
  BY DEF Types, TypeOK, Numbers, Loading, LoadingOne, Loaded, LoadSafe, InGroup, Readable, Slots, Total, GroupEnd, AtMostOne, Unreadable, Group
<1> QED  BY <1>1, <1>2, <1>3, <1>4, <1>5, <1>6, <1>7, <1>8, <1>9

LEMMA ReadOkInv ==
  ASSUME IInv, NEW i \in Slots, ReadOk(i)
  PROVE  IInv'
<1> USE EncoderAssumption, ConfType, GroupBounds DEF IInv, ReadOk, vars, inputs, numbers, vector, encoder
<1>0. Configured' = Configured  BY DEF Configured
<1>1. Types'
  <2>1. startFrameNumber + i \in StartFrame..(Total - 1)
    BY DEF Types, TypeOK, Loading, InGroup, Slots, Total
  <2> QED  BY <2>1 DEF Types, TypeOK
<1>2. Numbers'
  BY DEF Types, TypeOK, Numbers, Slots, Total, GroupEnd
<1>3. Loading'
  BY DEF Types, TypeOK, Numbers, Loading, InGroup, Readable, Slots, Total, GroupEnd
<1>4. LoadingOne'
  <2> SUFFICES ASSUME AtMostOne(Unreadable(startFrameNumber))
               PROVE  LoadingOne'
    BY DEF LoadingOne, Unreadable, AtMostOne, Types, TypeOK
  <2>1. \A j \in Slots : j < size' /\ task'[j] = "done" => frames'[j] = startFrameNumber' + j
    BY DEF Types, TypeOK, LoadingOne
  <2>2. \A j \in Slots : InGroup(j)' = InGroup(j) /\ Readable(j)' = Readable(j)
    BY DEF InGroup, Readable
  <2>3. \A j \in Slots : ~Readable(j) => task'[j] = task[j]
    BY DEF Types, TypeOK
  <2> QED  BY <2>1, <2>2, <2>3 DEF LoadingOne
<1>5. Loaded'
  BY DEF Types, TypeOK, Numbers, Loading, LoadingOne, Loaded, InGroup, Readable, Slots, Total, GroupEnd, AtMostOne, Unreadable, Group
<1>6. Output'
  BY OutputKept
<1>7. Written'
  BY DEF Types, TypeOK, Numbers, Loaded, Output, Written, FilesNamed, OneMissing, Slots, Unreadable
<1>8. Parameters'
  BY <1>0 DEF Types, TypeOK, Parameters, MapsByOwnGof, ExitOnlyWithRawTiles
<1>9. LoadSafe'
  BY DEF Types, TypeOK, Numbers, Loading, LoadingOne, Loaded, LoadSafe, InGroup, Readable, Slots, Total, GroupEnd, AtMostOne, Unreadable, Group
<1> QED  BY <1>1, <1>2, <1>3, <1>4, <1>5, <1>6, <1>7, <1>8, <1>9

LEMMA ReadFailsInv ==
  ASSUME IInv, NEW i \in Slots, ReadFails(i)
  PROVE  IInv'
<1> USE EncoderAssumption, ConfType, GroupBounds DEF IInv, ReadFails, vars, inputs, numbers, vector, encoder
<1>0. Configured' = Configured  BY DEF Configured
<1>1. Types'
  <2>1. task' \in [Slots -> {"ready", "reading", "resizing", "done"}]
    BY DEF Types, TypeOK
  <2>2. pc' \in {"load", "undefined"}  OBVIOUS
  <2> QED  BY <2>1, <2>2 DEF Types, TypeOK
<1>2. Numbers'
  BY DEF Types, TypeOK, Numbers, Slots, Total, GroupEnd
<1>3. Loading'
  <2>1. \A j \in Slots : InGroup(j)' = InGroup(j) /\ Readable(j)' = Readable(j)
    BY DEF InGroup, Readable
  <2>2. CASE pc' = "undefined"  BY <2>2 DEF Loading
  <2>3. CASE task' = [task EXCEPT ![i] = "resizing"]
    BY <2>1, <2>3 DEF Loading, Types, TypeOK
  <2> QED  BY <2>2, <2>3
<1>4. LoadingOne'
  BY DEF Types, TypeOK, Numbers, Loading, LoadingOne, InGroup, Readable, Slots, Total, GroupEnd, AtMostOne, Unreadable, Group
<1>5. Loaded'
  BY DEF Types, TypeOK, Numbers, Loading, LoadingOne, Loaded, InGroup, Readable, Slots, Total, GroupEnd, AtMostOne, Unreadable, Group
<1>6. Output'
  BY OutputKept
<1>7. Written'
  BY DEF Types, TypeOK, Numbers, Loaded, Output, Written, FilesNamed, OneMissing, Slots, Unreadable
<1>8. Parameters'
  BY <1>0 DEF Types, TypeOK, Parameters, MapsByOwnGof, ExitOnlyWithRawTiles
<1>9. LoadSafe'
  BY DEF Types, TypeOK, Numbers, Loading, LoadingOne, Loaded, LoadSafe, InGroup, Readable, Slots, Total, GroupEnd, AtMostOne, Unreadable, Group
<1> QED  BY <1>1, <1>2, <1>3, <1>4, <1>5, <1>6, <1>7, <1>8, <1>9

LEMMA ResizeEndInv ==
  ASSUME IInv, NEW i \in Slots, ResizeEnd(i)
  PROVE  IInv'
<1> USE EncoderAssumption, ConfType, GroupBounds DEF IInv, ResizeEnd, Resized, vars, inputs, numbers, vector, encoder
<1>0. Configured' = Configured  BY DEF Configured
<1>1. Types'
  BY DEF Types, TypeOK, Slots, Total, Empty, Destroyed, GroupEnd, Numbers, GofType
<1>2. Numbers'
  BY DEF Types, TypeOK, Numbers, Slots, Total, GroupEnd
<1>3. Loading'
  BY DEF Types, TypeOK, Numbers, Loading, InGroup, Readable, Slots, Total, GroupEnd
<1>4. LoadingOne'
  BY DEF Types, TypeOK, Numbers, Loading, LoadingOne, InGroup, Readable, Slots, Total, GroupEnd, AtMostOne, Unreadable, Group
<1>5. Loaded'
  BY DEF Types, TypeOK, Numbers, Loading, LoadingOne, Loaded, InGroup, Readable, Slots, Total, GroupEnd, AtMostOne, Unreadable, Group
<1>6. Output'
  BY OutputKept
<1>7. Written'
  BY DEF Types, TypeOK, Numbers, Loaded, Output, Written, FilesNamed, OneMissing, Slots, Unreadable
<1>8. Parameters'
  BY <1>0 DEF Types, TypeOK, Parameters, MapsByOwnGof, ExitOnlyWithRawTiles
<1>9. LoadSafe'
  <2> DEFINE s == startFrameNumber
  <2> SUFFICES ASSUME Unreadable(s) \subseteq {GroupEnd(s) - 1},
                      NEW j \in Slots, j >= i, j < size, Readable(j)
               PROVE  FALSE
    BY DEF LoadSafe, Unreadable, Group, GroupEnd, Total
  <2>1. InGroup(i) /\ ~Readable(i)
    BY DEF Loading
  <2>2. /\ s \in Int /\ GroupEnd(s) \in Int /\ i \in Nat /\ j \in Nat /\ size \in Nat
        /\ size <= GroupEnd(s) - s
    <3>1. s \in StartFrame..Total /\ size \in 0..GofSize /\ i \in Nat /\ j \in Nat
      BY DEF Types, TypeOK, Slots
    <3>2. endFrameNumber = GroupEnd(s) /\ size <= endFrameNumber - s
      BY DEF Numbers, Loading
    <3> QED  BY <3>1, <3>2, GroupBounds DEF Total
  <2>3. s + i = GroupEnd(s) - 1
    BY <2>1, <2>2 DEF InGroup, Readable, Unreadable, Group
  <2>4. i = j
    BY <2>2, <2>3
  <2> QED  BY <2>1, <2>4
<1> QED  BY <1>1, <1>2, <1>3, <1>4, <1>5, <1>6, <1>7, <1>8, <1>9

LEMMA LoadEndInv ==
  ASSUME IInv, LoadEnd
  PROVE  IInv'
<1> USE EncoderAssumption, ConfType, GroupBounds DEF IInv, LoadEnd, vars, inputs, numbers, vector, encoder
<1>0. Configured' = Configured  BY DEF Configured
<1>1. Types'
  BY DEF Types, TypeOK, Slots, Total, Empty, Destroyed, GroupEnd, Numbers, GofType
<1>2. Numbers'
  <2>1. /\ startFrameNumber \in Int /\ size \in Nat /\ endFrameNumber \in Int
        /\ size <= endFrameNumber - startFrameNumber
    BY DEF Loading, Types, TypeOK, Total
  <2>2. /\ endFrameNumber' = startFrameNumber + size
        /\ \/ endFrameNumber0' = endFrameNumber'
                /\ endFrameNumber' < endFrameNumber
           \/ endFrameNumber' = endFrameNumber /\ endFrameNumber0' = endFrameNumber0
    BY <2>1
  <2> QED  BY <2>1, <2>2 DEF Numbers
<1>3. Loading'
  BY DEF Types, TypeOK, Numbers, Loading, InGroup, Readable, Slots, Total, GroupEnd
<1>4. LoadingOne'
  BY DEF Types, TypeOK, Numbers, Loading, LoadingOne, InGroup, Readable, Slots, Total, GroupEnd, AtMostOne, Unreadable, Group
<1>5. Loaded'
  <2> DEFINE s == startFrameNumber
  <2> SUFFICES ASSUME AtMostOne(Unreadable(s))
               PROVE  Loaded'
    BY DEF Loaded, Unreadable, AtMostOne
  <2>1. \A j \in Slots : j < size => frames[j] = s + j
    BY DEF LoadingOne
  <2>2. \A f \in Group(s) : f \in missing => f = s + size
    <3> SUFFICES ASSUME NEW f \in Group(s), f \in missing PROVE f = s + size  OBVIOUS
    <3>1. f - s \in Slots /\ InGroup(f - s) /\ ~Readable(f - s)
      BY SMTT(30) DEF Group, Slots, InGroup, Readable, Types, TypeOK
    <3>2. size = f - s  BY <3>1 DEF LoadingOne
    <3> QED  BY <3>2 DEF Types, TypeOK, Group
  <2>3. endFrameNumber' = s + size
    BY SMTT(30) DEF Loading, Types, TypeOK
  <2>4. s + size \in Group(s) => s + size \in missing
    <3> SUFFICES ASSUME s + size \in Group(s) PROVE s + size \in missing  OBVIOUS
    <3>1. size # endFrameNumber - s
      BY DEF Numbers, Group, Types, TypeOK
    <3>2. PICK j \in Slots : InGroup(j) /\ ~Readable(j) /\ task[j] = "done"
      BY <3>1 DEF LoadingOne
    <3>3. size = j  BY <3>2 DEF LoadingOne
    <3> QED  BY <3>2, <3>3 DEF Readable
  <2> QED  BY <2>1, <2>2, <2>3, <2>4 DEF Loaded
<1>6. Output'
  BY DEF Types, TypeOK, Numbers, Loaded, Output, Covered, OneMissing, Slots, Total, AtMostOne, Unreadable, Group
<1>7. Written'
  BY DEF Types, TypeOK, Numbers, Loaded, Output, Written, FilesNamed, OneMissing, Slots, Unreadable
<1>8. Parameters'
  BY <1>0 DEF Types, TypeOK, Parameters, MapsByOwnGof, ExitOnlyWithRawTiles
<1>9. LoadSafe'
  BY DEF Types, TypeOK, Numbers, Loading, LoadingOne, Loaded, LoadSafe, InGroup, Readable, Slots, Total, GroupEnd, AtMostOne, Unreadable, Group
<1> QED  BY <1>1, <1>2, <1>3, <1>4, <1>5, <1>6, <1>7, <1>8, <1>9

LEMMA EncodeEmptyInv ==
  ASSUME IInv, EncodeEmpty
  PROVE  IInv'
<1> USE EncoderAssumption, ConfType, GroupBounds DEF IInv, EncodeEmpty, vars, inputs, numbers, vector, encoder
<1>0. Configured' = Configured  BY DEF Configured
<1>1. Types'
  BY DEF Types, TypeOK, Slots, Total, Empty, Destroyed, GroupEnd, Numbers, GofType
<1>2. Numbers'
  BY DEF Types, TypeOK, Numbers, Slots, Total, GroupEnd
<1>3. Loading'
  BY DEF Types, TypeOK, Numbers, Loading, InGroup, Readable, Slots, Total, GroupEnd
<1>4. LoadingOne'
  BY DEF Types, TypeOK, Numbers, Loading, LoadingOne, InGroup, Readable, Slots, Total, GroupEnd, AtMostOne, Unreadable, Group
<1>5. Loaded'
  BY DEF Types, TypeOK, Numbers, Loading, LoadingOne, Loaded, InGroup, Readable, Slots, Total, GroupEnd, AtMostOne, Unreadable, Group
<1>6. Output'
  BY DEF Types, TypeOK, Numbers, Loaded, Output, Covered, OneMissing, Slots, Total, AtMostOne, Unreadable, Group
<1>7. Written'
  BY DEF Types, TypeOK, Numbers, Loaded, Output, Written, FilesNamed, OneMissing, Slots, Unreadable
<1>8. Parameters'
  BY <1>0 DEF Types, TypeOK, Parameters, MapsByOwnGof, ExitOnlyWithRawTiles
<1>9. LoadSafe'
  <2> DEFINE s == startFrameNumber
  <2> SUFFICES ASSUME Unreadable(s) \subseteq {GroupEnd(s) - 1}, GroupEnd(s) - s > 1
               PROVE  FALSE
    BY DEF LoadSafe, Unreadable
  <2>1. AtMostOne(Unreadable(s))  BY DEF AtMostOne
  <2>2. s \in Group(s)  BY SMTT(30) DEF Group, Types, TypeOK
  <2>3. endFrameNumber = s  BY DEF Numbers, Types, TypeOK
  <2>4. s \in missing  BY <2>1, <2>2, <2>3 DEF Loaded
  <2> QED  BY SMTT(30), <2>2, <2>4 DEF Unreadable, Types, TypeOK
<1> QED  BY <1>1, <1>2, <1>3, <1>4, <1>5, <1>6, <1>7, <1>8, <1>9

LEMMA EncodeBeginInv ==
  ASSUME IInv, EncodeBegin
  PROVE  IInv'
<1> USE EncoderAssumption, ConfType, GroupBounds DEF IInv, EncodeBegin, RawTile, vars, inputs, numbers, vector, encoder
<1>0. Configured' = Configured  BY DEF Configured
<1>1. Types'
  BY DEF Types, TypeOK, Slots, Total, Empty, Destroyed, GroupEnd, Numbers, GofType
<1>2. Numbers'
  BY DEF Types, TypeOK, Numbers, Slots, Total, GroupEnd
<1>3. Loading'
  BY DEF Types, TypeOK, Numbers, Loading, InGroup, Readable, Slots, Total, GroupEnd
<1>4. LoadingOne'
  BY DEF Types, TypeOK, Numbers, Loading, LoadingOne, InGroup, Readable, Slots, Total, GroupEnd, AtMostOne, Unreadable, Group
<1>5. Loaded'
  BY DEF Types, TypeOK, Numbers, Loading, LoadingOne, Loaded, InGroup, Readable, Slots, Total, GroupEnd, AtMostOne, Unreadable, Group
<1>6. Output'
  BY DEF Types, TypeOK, Numbers, Loaded, Output, Covered, OneMissing, Slots, Total, AtMostOne, Unreadable, Group
<1>7. Written'
  BY DEF Types, TypeOK, Numbers, Loaded, Output, Written, FilesNamed, OneMissing, Slots, Unreadable
<1>8. Parameters'
  BY SMTT(30), <1>0 DEF Types, TypeOK, Parameters, MapsByOwnGof, ExitOnlyWithRawTiles
<1>9. LoadSafe'
  BY DEF Types, TypeOK, Numbers, Loading, LoadingOne, Loaded, LoadSafe, InGroup, Readable, Slots, Total, GroupEnd, AtMostOne, Unreadable, Group
<1> QED  BY <1>1, <1>2, <1>3, <1>4, <1>5, <1>6, <1>7, <1>8, <1>9

LEMMA PlaceExitsInv ==
  ASSUME IInv, PlaceExits
  PROVE  IInv'
<1> USE EncoderAssumption, ConfType, GroupBounds DEF IInv, PlaceExits, TilesAgree, vars, inputs, numbers, vector, encoder
<1>0. Configured' = Configured  BY DEF Configured
<1>1. Types'
  BY DEF Types, TypeOK, Slots, Total, Empty, Destroyed, GroupEnd, Numbers, GofType
<1>2. Numbers'
  BY DEF Types, TypeOK, Numbers, Slots, Total, GroupEnd
<1>3. Loading'
  BY DEF Types, TypeOK, Numbers, Loading, InGroup, Readable, Slots, Total, GroupEnd
<1>4. LoadingOne'
  BY DEF Types, TypeOK, Numbers, Loading, LoadingOne, InGroup, Readable, Slots, Total, GroupEnd, AtMostOne, Unreadable, Group
<1>5. Loaded'
  BY DEF Types, TypeOK, Numbers, Loading, LoadingOne, Loaded, InGroup, Readable, Slots, Total, GroupEnd, AtMostOne, Unreadable, Group
<1>6. Output'
  BY DEF Types, TypeOK, Numbers, Loaded, Output, Covered, OneMissing, Slots, Total, AtMostOne, Unreadable, Group
<1>7. Written'
  BY DEF Types, TypeOK, Numbers, Loaded, Output, Written, FilesNamed, OneMissing, Slots, Unreadable
<1>8. Parameters'
  <2>1. /\ conf.seg = 1 /\ conf.raw
        /\ contextIndex > 0 \/ conf.rois = 1
    <3>1. /\ conf.rois \in Nat /\ conf.raw \in BOOLEAN /\ contextIndex \in Nat
          /\ conf.seg = 1 => Configured.tiles = conf.rois
      BY DEF Types, TypeOK
    <3>2. /\ conf.seg = 1
          /\ params.tiles # conf.rois + (IF conf.raw THEN 1 ELSE 0)
      OBVIOUS
    <3>3. conf.raw
      <4> SUFFICES ASSUME ~conf.raw PROVE FALSE  OBVIOUS
      <4>1. params.tiles = conf.rois  BY <3>1, <3>2 DEF Parameters
      <4> QED  BY <3>1, <3>2, <4>1
    <3>4. contextIndex = 0 /\ conf.rois # 1 => FALSE
      <4> SUFFICES ASSUME contextIndex = 0, conf.rois # 1 PROVE FALSE  OBVIOUS
      <4>1. params.tiles = conf.rois + (IF conf.raw /\ conf.rois > 1 THEN 1 ELSE 0)
        BY <3>2 DEF Parameters
      <4>2. conf.rois \in Nat \ {0}
        BY DEF Types, TypeOK
      <4>3. conf.rois > 1  BY <4>2
      <4> QED  BY <3>2, <3>3, <4>1, <4>3
    <3> QED  BY <3>1, <3>2, <3>3, <3>4
  <2>2. ExitOnlyWithRawTiles'  BY <2>1 DEF ExitOnlyWithRawTiles
  <2> QED  BY <1>0, <2>1, <2>2 DEF Parameters, MapsByOwnGof
<1>9. LoadSafe'
  BY DEF Types, TypeOK, Numbers, Loading, LoadingOne, Loaded, LoadSafe, InGroup, Readable, Slots, Total, GroupEnd, AtMostOne, Unreadable, Group
<1> QED  BY <1>1, <1>2, <1>3, <1>4, <1>5, <1>6, <1>7, <1>8, <1>9

LEMMA EncodeEndInv ==
  ASSUME IInv, EncodeEnd
  PROVE  IInv'
<1> USE EncoderAssumption, ConfType, GroupBounds DEF IInv, EncodeEnd, TilesAgree, Gof, VpsId, vars, inputs, numbers, vector, encoder
<1>0. Configured' = Configured  BY DEF Configured
<1>a. ssvu \in Seq(GofType) /\ Gof \in GofType
  <2>1. contextIndex % 16 \in Int  BY SMTT(30) DEF Types, TypeOK
  <2>2. frames \in [Slots -> Int]
    <3>1. {Empty, Destroyed} \cup StartFrame..(Total - 1) \subseteq Int
      BY DEF Empty, Destroyed, Total
    <3> QED  BY <3>1 DEF Types, TypeOK
  <2> QED  BY <2>1, <2>2 DEF Types, TypeOK, GofType
<1>b. /\ ssvu' \in Seq(GofType) /\ ssvu' # <<>>
      /\ Len(ssvu') = Len(ssvu) + 1 /\ Len(ssvu) \in Nat
      /\ DOMAIN ssvu = 1..Len(ssvu) /\ DOMAIN ssvu' = 1..(Len(ssvu) + 1)
      /\ \A k \in DOMAIN ssvu : ssvu'[k] = ssvu[k]
      /\ ssvu'[Len(ssvu) + 1] = Gof
  BY <1>a
<1>c. OneMissing' => OneMissing /\ AtMostOne(Unreadable(startFrameNumber))
  <2> SUFFICES ASSUME OneMissing'
               PROVE  OneMissing /\ AtMostOne(Unreadable(startFrameNumber))
    OBVIOUS
  <2>1. \A k \in DOMAIN ssvu' : AtMostOne(Unreadable(ssvu'[k].start))
    BY DEF OneMissing, Unreadable, AtMostOne
  <2>2. OneMissing  BY <1>b, <2>1 DEF OneMissing
  <2>3. Len(ssvu) + 1 \in DOMAIN ssvu' /\ ssvu'[Len(ssvu) + 1].start = startFrameNumber
    BY <1>b
  <2> QED  BY <2>1, <2>2, <2>3
<1>1. Types'
  <2>1. params' \in [tiles : Nat, maps : 0..1, single : BOOLEAN]
    BY DEF Types, TypeOK
  <2>2. task' \in [Slots -> {"ready", "reading", "resizing", "done"}]
    OBVIOUS
  <2> QED  BY <1>b, <2>1, <2>2 DEF Types, TypeOK
<1>2. Numbers'
  BY DEF Types, TypeOK, Numbers, Slots, Total, GroupEnd
<1>3. Loading'
  BY DEF Types, TypeOK, Numbers, Loading, InGroup, Readable, Slots, Total, GroupEnd
<1>4. LoadingOne'
  BY DEF Types, TypeOK, Numbers, Loading, LoadingOne, InGroup, Readable, Slots, Total, GroupEnd, AtMostOne, Unreadable, Group
<1>5. Loaded'
  BY DEF Types, TypeOK, Numbers, Loading, LoadingOne, Loaded, InGroup, Readable, Slots, Total, GroupEnd, AtMostOne, Unreadable, Group
<1>6. Output'
  <2>1. Covered = startFrameNumber  BY DEF Output
  <2>2. Covered' = endFrameNumber /\ ssvu'[Len(ssvu')].start = startFrameNumber
    BY <1>b DEF Covered, Numbers
  <2>3. \A k \in DOMAIN ssvu' :
          ssvu'[k].start =
            IF k = 1 THEN StartFrame ELSE ssvu'[k - 1].start + ssvu'[k - 1].count
    <3> SUFFICES ASSUME NEW k \in DOMAIN ssvu'
                 PROVE  ssvu'[k].start =
            IF k = 1 THEN StartFrame ELSE ssvu'[k - 1].start + ssvu'[k - 1].count
      OBVIOUS
    <3>1. CASE k \in DOMAIN ssvu  BY <1>b, <3>1 DEF Output
    <3>2. CASE k = Len(ssvu) + 1 /\ Len(ssvu) = 0
      BY <1>a, <1>b, <2>1, <3>2 DEF Covered
    <3>3. CASE k = Len(ssvu) + 1 /\ Len(ssvu) > 0
      <4>1. k - 1 = Len(ssvu) /\ Len(ssvu) \in DOMAIN ssvu /\ ssvu # <<>> /\ k # 1
        BY <1>a, <1>b, <3>3
      <4>2. startFrameNumber = ssvu[k - 1].start + ssvu[k - 1].count
        BY <2>1, <4>1 DEF Covered
      <4> QED  BY <1>b, <3>3, <4>1, <4>2
    <3> QED  BY <1>b, <3>1, <3>2, <3>3
  <2>4. ASSUME NEW k \in DOMAIN ssvu', AtMostOne(Unreadable(ssvu[k].start))',
               NEW j \in 0..(ssvu'[k].count - 1)
        PROVE  ssvu'[k].frames[j] = ssvu'[k].start + j /\ ssvu'[k].start + j \notin missing'
    <3>0. AtMostOne(Unreadable(ssvu'[k].start))  BY <2>4 DEF Unreadable, AtMostOne
    <3>1. CASE k \in DOMAIN ssvu  BY <1>b, <2>4, <3>0, <3>1 DEF Output
    <3>2. CASE k = Len(ssvu) + 1
      <4>1. AtMostOne(Unreadable(startFrameNumber))  BY <1>b, <2>4, <3>0, <3>2
      <4>2. j \in Slots /\ j < size /\ ssvu'[k].start + j = startFrameNumber + j
        <5>1. ssvu'[k].count = size /\ ssvu'[k].start = startFrameNumber
          BY <1>b, <3>2
        <5>2. size \in 0..GofSize  BY DEF Types, TypeOK
        <5> QED  BY <2>4, <5>1, <5>2 DEF Slots
      <4>3. startFrameNumber + j \in Group(startFrameNumber)
        <5>1. startFrameNumber \in Int /\ size \in Int /\ GroupEnd(startFrameNumber) \in Int
          BY DEF Types, TypeOK, Total
        <5>2. startFrameNumber + size <= GroupEnd(startFrameNumber)  BY DEF Numbers
        <5> QED  BY SMTT(30), <4>2, <5>1, <5>2 DEF Group, Slots
      <4> QED  BY <1>b, <3>2, <4>1, <4>2, <4>3 DEF Loaded, Numbers, Types, TypeOK, Slots, Total
    <3> QED  BY <1>b, <3>1, <3>2
  <2> QED  BY <1>b, <2>2, <2>3, <2>4 DEF Output
<1>7. Written'
  BY <1>c DEF Written, FilesNamed
<1>8. Parameters'
  <2>1. MapsByOwnGof'
    <3> SUFFICES ASSUME NEW k \in DOMAIN ssvu', ssvu'[k].maps # Configured.maps
                 PROVE  conf.single /\ ssvu'[k].far
      BY <1>0 DEF MapsByOwnGof
    <3>1. CASE k \in DOMAIN ssvu  BY <1>b, <3>1 DEF Parameters, MapsByOwnGof
    <3>2. CASE k = Len(ssvu) + 1  BY <1>b, <3>2 DEF Parameters
    <3> QED  BY <1>b, <3>1, <3>2
  <2>2. /\ params'.tiles = params.tiles /\ params'.maps = Configured.maps
        /\ params'.single = conf.single
    BY DEF Types, TypeOK
  <2> QED  BY <1>0, <2>1, <2>2 DEF Parameters, ExitOnlyWithRawTiles
<1>9. LoadSafe'
  BY DEF Types, TypeOK, Numbers, Loading, LoadingOne, Loaded, LoadSafe, InGroup, Readable, Slots, Total, GroupEnd, AtMostOne, Unreadable, Group
<1> QED  BY <1>1, <1>2, <1>3, <1>4, <1>5, <1>6, <1>7, <1>8, <1>9

LEMMA WriteFileInv ==
  ASSUME IInv, NEW i \in Slots, WriteFile(i)
  PROVE  IInv'
<1> USE EncoderAssumption, ConfType, GroupBounds DEF IInv, WriteFile, vars, inputs, numbers, vector, encoder
<1>0. Configured' = Configured  BY DEF Configured
<1>1. Types'
  <2>1. frames[i] \in Int /\ reconstructedFrameNumber + i \in Int
    BY DEF Types, TypeOK, Empty, Destroyed, Total, Slots
  <2>2. task' \in [Slots -> {"ready", "reading", "resizing", "done"}]
    BY DEF Types, TypeOK
  <2>3. files' \subseteq Int \X Int  BY <2>1 DEF Types
  <2> QED  BY <2>2, <2>3 DEF Types, TypeOK
<1>2. Numbers'
  BY DEF Types, TypeOK, Numbers, Slots, Total, GroupEnd
<1>3. Loading'
  BY DEF Types, TypeOK, Numbers, Loading, InGroup, Readable, Slots, Total, GroupEnd
<1>4. LoadingOne'
  BY DEF Types, TypeOK, Numbers, Loading, LoadingOne, InGroup, Readable, Slots, Total, GroupEnd, AtMostOne, Unreadable, Group
<1>5. Loaded'
  BY DEF Types, TypeOK, Numbers, Loading, LoadingOne, Loaded, InGroup, Readable, Slots, Total, GroupEnd, AtMostOne, Unreadable, Group
<1>6. Output'
  BY OutputKept
<1>7. Written'
  <2>1. FilesNamed'
    <3> SUFFICES ASSUME OneMissing PROVE \A f \in files' : f[1] = f[2]
      BY DEF FilesNamed, OneMissing, Unreadable
    <3>1. AtMostOne(Unreadable(startFrameNumber))
      BY DEF OneMissing, Output, Types
    <3>2. frames[i] = startFrameNumber + i
      BY <3>1 DEF Loaded, Written
    <3>3. reconstructedFrameNumber = startFrameNumber
      BY DEF Written, Numbers
    <3> QED  BY <3>2, <3>3 DEF Written, FilesNamed
  <2> QED  BY <2>1 DEF Written, Types, TypeOK
<1>8. Parameters'
  BY <1>0 DEF Types, TypeOK, Parameters, MapsByOwnGof, ExitOnlyWithRawTiles
<1>9. LoadSafe'
  BY DEF Types, TypeOK, Numbers, Loading, LoadingOne, Loaded, LoadSafe, InGroup, Readable, Slots, Total, GroupEnd, AtMostOne, Unreadable, Group
<1> QED  BY <1>1, <1>2, <1>3, <1>4, <1>5, <1>6, <1>7, <1>8, <1>9

LEMMA WriteEndInv ==
  ASSUME IInv, WriteEnd
  PROVE  IInv'
<1> USE EncoderAssumption, ConfType, GroupBounds DEF IInv, WriteEnd, vars, inputs, numbers, vector, encoder
<1>0. Configured' = Configured  BY DEF Configured
<1>1. Types'
  BY DEF Types, TypeOK, Slots, Total, Empty, Destroyed, GroupEnd, Numbers, GofType
<1>2. Numbers'
  BY DEF Types, TypeOK, Numbers, Slots, Total, GroupEnd
<1>3. Loading'
  BY DEF Types, TypeOK, Numbers, Loading, InGroup, Readable, Slots, Total, GroupEnd
<1>4. LoadingOne'
  BY DEF Types, TypeOK, Numbers, Loading, LoadingOne, InGroup, Readable, Slots, Total, GroupEnd, AtMostOne, Unreadable, Group
<1>5. Loaded'
  BY DEF Types, TypeOK, Numbers, Loading, LoadingOne, Loaded, InGroup, Readable, Slots, Total, GroupEnd, AtMostOne, Unreadable, Group
<1>6. Output'
  <2>1. Covered' = Covered /\ OneMissing' = OneMissing
    BY DEF Covered, OneMissing, Unreadable
  <2>2. \A k : Unreadable(ssvu[k].start)' = Unreadable(ssvu[k].start)
    BY DEF Unreadable
  <2>3. OneMissing => endFrameNumber0 = Total \/ endFrameNumber0 \in missing
    <3> SUFFICES ASSUME OneMissing, endFrameNumber0 # Total
                 PROVE  endFrameNumber0 \in missing
      OBVIOUS
    <3>1. AtMostOne(Unreadable(startFrameNumber))
      BY DEF OneMissing, Output, Types
    <3>2. endFrameNumber0 = endFrameNumber /\ endFrameNumber < GroupEnd(startFrameNumber)
      BY DEF Numbers
    <3>3. endFrameNumber \in Group(startFrameNumber)
      <4>1. startFrameNumber \in Int /\ size \in Nat /\ GroupEnd(startFrameNumber) \in Int
        BY DEF Types, TypeOK, Total
      <4> QED  BY <3>2, <4>1 DEF Numbers, Group
    <3> QED  BY <3>1, <3>2, <3>3 DEF Loaded
  <2>4. Covered' = startFrameNumber'  BY <2>1 DEF Output
  <2>5. ssvu' = ssvu /\ missing' = missing  OBVIOUS
  <2>6. \A k \in DOMAIN ssvu' :
         ssvu'[k].start =
           IF k = 1 THEN StartFrame ELSE ssvu'[k - 1].start + ssvu'[k - 1].count
    BY <2>5 DEF Output
  <2>7. \A k \in DOMAIN ssvu' : AtMostOne(Unreadable(ssvu[k].start))' =>
         \A i \in 0..(ssvu'[k].count - 1) :
           ssvu'[k].frames[i] = ssvu'[k].start + i /\ ssvu'[k].start + i \notin missing'
    BY <2>2, <2>5 DEF Output, AtMostOne
  <2> QED  BY <2>1, <2>3, <2>4, <2>6, <2>7 DEF Output
<1>7. Written'
  BY DEF Types, TypeOK, Numbers, Loaded, Output, Written, FilesNamed, OneMissing, Slots, Unreadable
<1>8. Parameters'
  BY <1>0 DEF Types, TypeOK, Parameters, MapsByOwnGof, ExitOnlyWithRawTiles
<1>9. LoadSafe'
  BY DEF Types, TypeOK, Numbers, Loading, LoadingOne, Loaded, LoadSafe, InGroup, Readable, Slots, Total, GroupEnd, AtMostOne, Unreadable, Group
<1> QED  BY <1>1, <1>2, <1>3, <1>4, <1>5, <1>6, <1>7, <1>8, <1>9

LEMMA PublishInv ==
  ASSUME IInv, Publish
  PROVE  IInv'
<1> USE EncoderAssumption, ConfType, GroupBounds DEF IInv, Publish, MoreFrames, vars, inputs, numbers, vector, encoder
<1>0. Configured' = Configured  BY DEF Configured
<1>1. Types'
  BY DEF Types, TypeOK, Slots, Total, Empty, Destroyed, GroupEnd, Numbers, GofType
<1>2. Numbers'
  BY DEF Types, TypeOK, Numbers, Slots, Total, GroupEnd
<1>3. Loading'
  BY DEF Types, TypeOK, Numbers, Loading, InGroup, Readable, Slots, Total, GroupEnd
<1>4. LoadingOne'
  BY DEF Types, TypeOK, Numbers, Loading, LoadingOne, InGroup, Readable, Slots, Total, GroupEnd, AtMostOne, Unreadable, Group
<1>5. Loaded'
  BY DEF Types, TypeOK, Numbers, Loading, LoadingOne, Loaded, InGroup, Readable, Slots, Total, GroupEnd, AtMostOne, Unreadable, Group
<1>6. Output'
  BY DEF Types, TypeOK, Numbers, Loaded, Output, Covered, OneMissing, Slots, Total, AtMostOne, Unreadable, Group
<1>7. Written'
  BY DEF Types, TypeOK, Numbers, Loaded, Output, Written, FilesNamed, OneMissing, Slots, Unreadable
<1>8. Parameters'
  BY <1>0 DEF Types, TypeOK, Parameters, MapsByOwnGof, ExitOnlyWithRawTiles
<1>9. LoadSafe'
  BY DEF Types, TypeOK, Numbers, Loading, LoadingOne, Loaded, LoadSafe, InGroup, Readable, Slots, Total, GroupEnd, AtMostOne, Unreadable, Group
<1> QED  BY <1>1, <1>2, <1>3, <1>4, <1>5, <1>6, <1>7, <1>8, <1>9
-----------------------------------------------------------------------------
LEMMA StepInv == IInv /\ [Next]_vars => IInv'
<1> SUFFICES ASSUME IInv, [Next]_vars PROVE IInv'  OBVIOUS
<1>1. CASE LoadBegin  BY <1>1, LoadBeginInv
<1>2. CASE \E i \in Slots : LoadTask(i)
  <2> PICK i \in Slots : LoadTask(i)  BY <1>2
  <2> QED
    BY TaskStartInv, TaskStartDanglingInv, ReadOkInv, ReadFailsInv, ResizeEndInv
    DEF LoadTask
<1>3. CASE LoadEnd  BY <1>3, LoadEndInv
<1>4. CASE EncodeEmpty  BY <1>4, EncodeEmptyInv
<1>5. CASE EncodeBegin  BY <1>5, EncodeBeginInv
<1>6. CASE PlaceExits  BY <1>6, PlaceExitsInv
<1>7. CASE EncodeEnd  BY <1>7, EncodeEndInv
<1>8. CASE \E i \in Slots : WriteFile(i)  BY <1>8, WriteFileInv
<1>9. CASE WriteEnd  BY <1>9, WriteEndInv
<1>10. CASE Publish  BY <1>10, PublishInv
<1>11. CASE UNCHANGED vars
  <2>1. IInv' = IInv
    BY <1>11 DEF vars, inputs, numbers, vector, encoder, IInv, Types, TypeOK,
      Numbers, Loading, LoadingOne, Loaded, Output, Written, Parameters, LoadSafe,
      Configured, Covered, OneMissing, FilesNamed, MapsByOwnGof,
      ExitOnlyWithRawTiles, InGroup, Readable, Unreadable
  <2> QED  BY <2>1
<1> QED
  BY <1>1, <1>2, <1>3, <1>4, <1>5, <1>6, <1>7, <1>8, <1>9, <1>10, <1>11 DEF Next

LEMMA Invariance == Spec => []IInv
<1> QED  BY InitInv, StepInv, PTL DEF Spec

\* compressVideo: all variables keep their types; in particular the frame
\* numbers stay inside the frames that were asked for.
THEOREM EncoderTypes == Spec => []TypeOK
<1>1. IInv => TypeOK  BY DEF IInv, Types
<1> QED  BY <1>1, Invariance, PTL

\* PCCGroupOfFrames::load: with any number of threads and frames, no access is
\* undefined when only the last file of a group of several frames is missing.
THEOREM LoadIsSafe == Spec => []LoadSafe
<1>1. IInv => LoadSafe  BY DEF IInv
<1> QED  BY <1>1, Invariance, PTL

\* PCCGroupOfFrames::load: with at most one missing file, load returns the
\* frames before it, each from its own file.
THEOREM LoadsThePrefix == Spec => []LoadedPrefix
<1>1. IInv => LoadedPrefix
  BY DEF IInv, Loaded, Numbers, LoadedPrefix
<1> QED  BY <1>1, Invariance, PTL

\* compressVideo: the groups in the output follow one another and hold their
\* own frames.
THEOREM OutputInOrder == Spec => []EncodedInOrder
<1>1. IInv => EncodedInOrder
  BY DEF IInv, Output, EncodedInOrder, OneMissing
<1> QED  BY <1>1, Invariance, PTL

\* compressVideo: the bitstream has every frame up to the first missing file.
THEOREM OutputComplete == Spec => []DoneComplete
<1>1. IInv => DoneComplete
  BY DEF IInv, Output, Numbers, DoneComplete
<1> QED  BY <1>1, Invariance, PTL

\* PCCGroupOfFrames::write: a reconstructed file has its frame's number.
THEOREM FilesAreNamed == Spec => []FilesNamed
<1>1. IInv => FilesNamed  BY DEF IInv, Written
<1> QED  BY <1>1, Invariance, PTL

\* PCCEncoder::encode: a group's maps never depend on an earlier group.
THEOREM MapsIndependent == Spec => []MapsByOwnGof
<1>1. IInv => MapsByOwnGof  BY DEF IInv, Parameters
<1> QED  BY <1>1, Invariance, PTL

\* generateTilesFromImage: its check stops the encoder only with raw patches.
THEOREM TilesStopOnlyRaw == Spec => []ExitOnlyWithRawTiles
<1>1. IInv => ExitOnlyWithRawTiles  BY DEF IInv, Parameters
<1> QED  BY <1>1, Invariance, PTL
=============================================================================
