---------------------------- MODULE AtlasPatches ----------------------------
(***************************************************************************)
(* The patches of a group of frames, from the segmentation in the encoder  *)
(* through the atlas tile layers of the bitstream to the patches of the    *)
(* decoder.                                                                *)
(*                                                                         *)
(* A patch that was matched with a patch of an earlier frame is coded as a *)
(* difference to it. Encoder and decoder each keep the lists of patches    *)
(* the differences refer to, the index of the expected reference patch     *)
(* (predIndex) and the list of the reference frames (refAFOCList_); they   *)
(* have to agree on all of them, tile after tile.                          *)
(*                                                                         *)
(* Of the geometry of a patch the depth is modelled: D1, which is          *)
(* quantized and coded in one of two directions (the projection mode), and *)
(* SizeD, which is quantized, capped and predicted from what was coded     *)
(* before. The coordinates U0, V0, U1, V1 and the sizes U, V are coded by  *)
(* plain differences and left out. The number in a unit is what the        *)
(* bitstream holds. Merge and skip patches are never written by the        *)
(* encoder.                                                                *)
(***************************************************************************)
EXTENDS Integers, Sequences, SequencesExt, Binary

CONSTANTS
  BitDepth2D,  \* geometry2dBitdepth
  BitDepth3D,  \* geometry3dBitdepth
  Quantizer,   \* PosMinDQuantizer, log2 of minLevel
  LsbBits,     \* log2MaxAtlasFrameOrderCntLsb
  SizeTBits,   \* bits of size_t and int64_t
  IntBits,     \* bits of int32_t and uint32_t
  Garbage,     \* what a read behind the end of a vector of int may return
  Confs        \* configurations of the encoder and sizes of the group

\* Points between the coordinates near and far, seen along the normal axis
\* (mode 0) or against it.
Components ==
  {c \in [mode : {0, 1}, near : 0..(Pow2[BitDepth3D] - 1), far : 0..(Pow2[BitDepth3D] - 1)] :
     IF c.mode = 0 THEN c.near <= c.far ELSE c.near >= c.far}

ASSUME PatchAssumption ==
  /\ {BitDepth2D, BitDepth3D, Quantizer, LsbBits, SizeTBits, IntBits} \subseteq Nat
  /\ Quantizer < BitDepth2D /\ Quantizer < BitDepth3D /\ LsbBits > 0
  /\ BitDepth3D + 1 < IntBits /\ 3 < IntBits /\ IntBits + Quantizer <= SizeTBits
  /\ Garbage \subseteq Int
  /\ \A c \in Confs :
       /\ {c.frames, c.tiles, c.maxRef} \subseteq Nat \ {0}
       /\ c.maxRef < Pow2[IntBits]
       /\ c.maxPatches \in Nat /\ c.maxPatches < Pow2[IntBits - 1]
       /\ {c.constrainedPack, c.precedence} \subseteq BOOLEAN
       /\ c.components \subseteq Components
       /\ c.others \in Seq({"raw", "eom"})

VARIABLES
  conf,      \* the configuration
  pc,
  index,     \* tiles done in the current pass, frame after frame
  patches,   \* the encoder's patches of every tile
  segmented, \* history: the depths of the patches, tile by tile, as segmented
  referred,  \* tiles with setReferredTile( true )
  atlList,   \* atlas tile layers
  decoded    \* the decoder's patches, tile by tile

vars == <<conf, pc, index, patches, segmented, referred, atlList, decoded>>

----------------------------------------------------------------------------
\* Numbers.

Min2(a, b) == IF a < b THEN a ELSE b
Max2(a, b) == IF a > b THEN a ELSE b

minLevel == Pow2[Quantizer]
geometryDepth == Min2(BitDepth2D, BitDepth3D)

\* Division of C++ for a negative dividend.
Trunc(a, b) == IF a >= 0 THEN a \div b ELSE -((-a) \div b)

SizeT(x) == x % Pow2[SizeTBits]
Uint32(x) == x % Pow2[IntBits]
Int32(x) == LET u == Uint32(x) IN IF u < Pow2[IntBits - 1] THEN u ELSE u - Pow2[IntBits]

\* write( value, bits )
writeU(x, bits) == x % Pow2[bits]

\* writeUvlc and readUvlc: the zeros in front and the bits of code + 1.
writeUvlc(x) ==
  [zeros |-> CHOOSE n \in 0..(IntBits - 1) : Pow2[n] <= x + 1 /\ x + 1 < Pow2[n + 1],
   code |-> x + 1]
readUvlc(w) == (w.code % Pow2[w.zeros]) + Pow2[w.zeros] - 1

writeSvlc(x) ==
  LET c == Int32(x)
  IN writeUvlc(Uint32(IF c <= 0 THEN -c * 2 ELSE c * 2 - 1))
readSvlc(w) ==
  LET b == readUvlc(w)
  IN IF b % 2 = 1 THEN (b \div 2) + 1 ELSE -(b \div 2)

----------------------------------------------------------------------------
\* Segmentation and packing.

Unmatched == -1  \* g_invalidPatchIndex

numTiles == conf.frames * conf.tiles
frameOf(i) == i \div conf.tiles
\* The same tile of another frame.
tileIn(f, i) == f * conf.tiles + (i % conf.tiles)

\* Mutant: D1 is not rounded to the quantizer.
segmentD1_Exact(c) == c.near

segmentD1(c) ==
  IF c.mode = 0 THEN (c.near \div minLevel) * minLevel
  ELSE ((c.near + minLevel - 1) \div minLevel) * minLevel

segmentSizeDPixel(c) ==
  IF c.mode = 0 THEN c.far - segmentD1(c) ELSE segmentD1(c) - c.far

segmentSizeD(pixel) ==
  LET d == Min2(Pow2[geometryDepth] - 1, pixel)
      quantDD == Min2(IF d = 0 THEN 0 ELSE ((d - 1) \div minLevel) + 1,
                      Pow2[geometryDepth - Quantizer] - 1)
  IN IF quantDD = 0 THEN 0 ELSE quantDD * minLevel - 1

\* Points farther from D1 than maxAllowedDepth are not in the patch.
Segments == {c \in conf.components : segmentSizeDPixel(c) <= Pow2[BitDepth2D] - 1}

Patch(c, match) ==
  [mode |-> c.mode, d1 |-> segmentD1(c), sizeDPixel |-> segmentSizeDPixel(c),
   sizeD |-> segmentSizeD(segmentSizeDPixel(c)), match |-> match, ref |-> 0]

\* The matched patches are in front, in the order of the patches they match.
MatchedFirst(ps) ==
  \A j \in 2..Len(ps) :
     ps[j].match # Unmatched =>
       ps[j - 1].match # Unmatched /\ ps[j - 1].match < ps[j].match

Segment ==
  /\ pc = "segment"
  /\ index < numTiles
  /\ \E n \in 0..conf.maxPatches :
     \E cs \in [1..n -> Segments] :
     LET prev == IF frameOf(index) = 0 \/ ~conf.constrainedPack THEN <<>>
                 ELSE patches[tileIn(frameOf(index) - 1, index) + 1]
     IN \E ms \in [1..n -> Unmatched..(Len(prev) - 1)] :
          LET ps == [k \in 1..n |-> Patch(cs[k], ms[k])]
          IN /\ \A k \in 1..n : ms[k] # Unmatched => prev[ms[k] + 1].mode = cs[k].mode
             /\ MatchedFirst(ps)
             /\ patches' = Append(patches, ps)
             /\ segmented' = Append(segmented, cs)
  /\ index' = index + 1
  /\ UNCHANGED <<conf, pc, referred, atlList, decoded>>

\* Encoder's setRefAfocList: the frames before this one, the nearest first.
refAfocList(f) == [k \in 1..Min2(f, conf.maxRef) |-> f - k]

\* adjustReferenceAtlasFrames runs for frames from the third on.
Adjusts == conf.maxRef # 1 /\ conf.frames > 2 /\ conf.constrainedPack

EndSegment ==
  /\ pc = "segment"
  /\ index = numTiles
  /\ pc' = IF Adjusts THEN "adjust" ELSE "reverse"
  /\ index' = IF Adjusts THEN 2 * conf.tiles ELSE 0
  /\ UNCHANGED <<conf, patches, segmented, referred, atlList, decoded>>

\* Which patch gets which reference is a matter of bit costs. A list without
\* any match has the cost 0 and never becomes bestPatchList. The cost of the
\* match of the segmentation is computed too, and not used; what it reads is in
\* AdjustOutside.
Rematch(i, ps) ==
  LET list == refAfocList(frameOf(i))
      Refs == {<<Unmatched, 0>>} \union
              UNION {{<<k - 1, r - 1>> : k \in 1..Len(patches[tileIn(list[r], i) + 1])}
                     : r \in 1..Len(list)}
  IN {[k \in 1..Len(ps) |-> [ps[k] EXCEPT !.match = m[k][1], !.ref = m[k][2]]] :
      m \in {n \in [1..Len(ps) -> Refs] :
        \A k \in 1..Len(ps) :
          n[k][1] # Unmatched =>
            /\ patches[tileIn(list[n[k][2] + 1], i) + 1][n[k][1] + 1].mode = ps[k].mode
            /\ \A l \in 1..Len(ps) : n[l] = n[k] => l = k}}

AnyMatched(ps) == \E k \in 1..Len(ps) : ps[k].match # Unmatched

\* Mutant: the patches without a reference are left out.
adjustReferenceAtlasFrame_MatchedOnly ==
  /\ pc = "adjust"
  /\ index < numTiles
  /\ \E ps \in Rematch(index, patches[index + 1]) :
       patches' = [patches EXCEPT ![index + 1] =
                     SelectSeq(ps, LAMBDA p : p.match # Unmatched)]
  /\ index' = index + 1
  /\ UNCHANGED <<conf, pc, segmented, referred, atlList, decoded>>

adjustReferenceAtlasFrame ==
  /\ pc = "adjust"
  /\ index < numTiles
  /\ \E ps \in Rematch(index, patches[index + 1]) :
       patches' = [patches EXCEPT ![index + 1] = IF AnyMatched(ps) THEN ps ELSE <<>>]
  /\ index' = index + 1
  /\ UNCHANGED <<conf, pc, segmented, referred, atlList, decoded>>

\* The cost of coding a patch with its match of the segmentation is taken from
\* the patches the frame before has now. That frame has been adjusted itself,
\* and when it has lost its patches, the patch read is not there. The value
\* read ends up in a cost nobody uses, so the program may also go on as in
\* adjustReferenceAtlasFrame.
AdjustOutside ==
  /\ pc = "adjust"
  /\ index < numTiles
  /\ \E k \in 1..Len(patches[index + 1]) :
       LET p == patches[index + 1][k]
       IN /\ p.match # Unmatched
          /\ p.match >= Len(patches[tileIn(frameOf(index) - 1, index) + 1])
  /\ pc' = "undefined"
  /\ UNCHANGED <<conf, index, patches, segmented, referred, atlList, decoded>>

EndAdjust ==
  /\ pc = "adjust"
  /\ index = numTiles
  /\ pc' = "reverse"
  /\ UNCHANGED <<conf, index, patches, segmented, referred, atlList, decoded>>

----------------------------------------------------------------------------
\* PCCEncoder::createPatchFrameDataStructure

\* Mutant: the match is mirrored in the patch's own tile.
Reversed_OwnSize(i) ==
  LET ps == patches[i + 1]
  IN [k \in 1..Len(ps) |->
        LET p == ps[Len(ps) - k + 1]
        IN IF p.match = Unmatched THEN p
           ELSE [p EXCEPT !.match = Len(ps) - p.match - 1]]

\* patchPrecedenceOrder: "only 1 previous frame", whatever ref says.
Reversed(i) ==
  LET ps == patches[i + 1]
      prev == patches[tileIn(frameOf(i) - 1, i) + 1]
  IN [k \in 1..Len(ps) |->
        LET p == ps[Len(ps) - k + 1]
        IN IF p.match = Unmatched THEN p
           ELSE [p EXCEPT !.match = Len(prev) - p.match - 1]]

ReversePatches ==
  /\ pc = "reverse"
  /\ patches' = IF conf.precedence THEN [i \in 1..numTiles |-> Reversed(i - 1)]
                ELSE patches
  /\ pc' = "encode"
  /\ index' = 0
  /\ UNCHANGED <<conf, segmented, referred, atlList, decoded>>

tileType(i) == IF frameOf(i) # 0 /\ AnyMatched(patches[i + 1]) THEN "P" ELSE "I"

\* numRefIdxActive_ of a tile and NumRefIdxDefaultActiveMinus1
numRefIdxActive(f) == IF conf.constrainedPack THEN Min2(f, conf.maxRef) ELSE 0
defaultActiveMinus1 == IF conf.constrainedPack THEN Max2(0, conf.maxRef - 1) ELSE 0

\* constructAtghRefListStruct; the list is the one of the ASPS, 1, 2, 3, ...
constructAtghRefListStruct(f) ==
  LET n == numRefIdxActive(f)
  IN IF n = 0 THEN FALSE
     ELSE IF Len(refAfocList(f)) >= defaultActiveMinus1
          THEN n # defaultActiveMinus1 + 1
          ELSE n # conf.maxRef

\* The tile header as it is written: the flag is there when the list has
\* several entries.
Header(i) ==
  LET f == frameOf(i)
      override == tileType(i) = "P" /\ conf.maxRef > 1 /\ constructAtghRefListStruct(f)
  IN [id |-> i % conf.tiles, type |-> tileType(i),
      lsb |-> writeU(f % Pow2[LsbBits], LsbBits),
      override |-> override,
      activeMinus1 |-> IF override THEN numRefIdxActive(f) - 1 ELSE 0,
      nalu |-> 0]

getNumRefIdxActive(ath) ==
  IF ath.type # "P" THEN 0
  ELSE IF ath.override THEN ath.activeMinus1 + 1
  ELSE Min2(conf.maxRef, defaultActiveMinus1 + 1)

\* The numbers of the patch modes depend on the type of the tile.
patchMode(type, kind) ==
  IF type = "I" THEN [intra |-> 0, raw |-> 1, eom |-> 2, end |-> 14][kind]
  ELSE [inter |-> 2, intra |-> 3, raw |-> 4, eom |-> 5, end |-> 14][kind]

Unit(type, kind, data) == [mode |-> writeUvlc(patchMode(type, kind)), data |-> data]

\* The depth offset of a patch, as the two data units compute it.
intraOffsetD(p) ==
  IF p.mode = 0 THEN p.d1 \div minLevel ELSE (Pow2[BitDepth3D] - p.d1) \div minLevel

\* Mutant: the difference is taken in the direction of mode 0.
interOffsetD_OneDirection(p, r) == (p.d1 \div minLevel) - (r.d1 \div minLevel)

\* max3DCoordinate is geometryBitDepth3D here, and the difference unsigned.
interOffsetD(p, r) ==
  IF p.mode = 0 THEN (p.d1 \div minLevel) - (r.d1 \div minLevel)
  ELSE (SizeT(BitDepth3D - p.d1) \div minLevel) - (SizeT(BitDepth3D - r.d1) \div minLevel)

intraRangeD(p) == IF p.sizeD = 0 THEN 0 ELSE (p.sizeD + 1) \div minLevel

\* Mutant: predicted from the exact size of the reference patch.
interRangeD_OpenLoop(p, r) ==
  LET diffDD == p.sizeDPixel - r.sizeDPixel
  IN IF diffDD = 0 THEN 0 ELSE Trunc(diffDD + 1, minLevel)

interRangeD(p, r) ==
  LET diffDD == p.sizeDPixel - r.sizeD
  IN IF diffDD = 0 THEN 0 ELSE Trunc(diffDD + 1, minLevel)

deltaDD(rangeD) == IF rangeD = 0 THEN 0 ELSE rangeD * minLevel - 1

\* Mutant: the encoder keeps the size of the segmentation.
interSizeD_Segmented(p, r) == p.sizeD

\* The encoder's copy of what the decoder will have.
interSizeD(p, r) ==
  Min2(Max2(r.sizeD + deltaDD(interRangeD(p, r)), 0), Pow2[BitDepth2D] - 1)

\* The patch that patch p of tile i is predicted from.
refTile(i, p) == tileIn(refAfocList(frameOf(i))[p.ref + 1], i)
refExists(i, p) == p.match \in 0..(Len(patches[refTile(i, p) + 1]) - 1)
refPatch(i, p) == patches[refTile(i, p) + 1][p.match + 1]

\* Mutant: predIndex is advanced twice.
predIndex_Twice(ps) ==
  LET pred[k \in 1..(Len(ps) + 1)] ==
        IF k = 1 THEN 0
        ELSE LET p == ps[k - 1]
             IN IF p.match = Unmatched THEN pred[k - 1]
                ELSE pred[k - 1] + (p.match - pred[k - 1]) + 2
  IN pred

\* predIndex in front of every patch: refPatchIndex + 1 is added for an inter patch.
predIndex(ps) ==
  LET pred[k \in 1..(Len(ps) + 1)] ==
        IF k = 1 THEN 0
        ELSE LET p == ps[k - 1]
             IN IF p.match = Unmatched THEN pred[k - 1]
                ELSE pred[k - 1] + (p.match - pred[k - 1]) + 1
  IN pred

patchDataUnit(p) ==
  [offsetD |-> writeU(intraOffsetD(p), BitDepth3D - Quantizer),
   rangeD |-> writeU(intraRangeD(p), geometryDepth - Quantizer),
   mode |-> p.mode]

interPatchDataUnit(ath, p, r, pred) ==
  [refIndex |-> IF getNumRefIdxActive(ath) > 1 THEN <<writeUvlc(p.ref)>> ELSE <<>>,
   refPatchIndex |-> writeSvlc(p.match - pred),
   offsetD |-> writeSvlc(interOffsetD(p, r)),
   rangeD |-> writeSvlc(interRangeD(p, r))]

Units(i, ath) ==
  LET ps == patches[i + 1]
      pred == predIndex(ps)
  IN [k \in 1..Len(ps) |->
        IF ps[k].match = Unmatched
        THEN Unit(ath.type, "intra", patchDataUnit(ps[k]))
        ELSE Unit(ath.type, "inter",
                  interPatchDataUnit(ath, ps[k], refPatch(i, ps[k]), pred[k]))]
     \o [k \in 1..Len(conf.others) |-> Unit(ath.type, conf.others[k], k)]
     \o <<Unit(ath.type, "end", 0)>>

Inter(i) == {k \in 1..Len(patches[i + 1]) : patches[i + 1][k].match # Unmatched}

EncodeTile ==
  /\ pc = "encode"
  /\ index < numTiles
  /\ \A k \in Inter(index) : refExists(index, patches[index + 1][k])
  /\ LET ath == Header(index)
     IN atlList' = Append(atlList, [header |-> ath, units |-> Units(index, ath)])
  /\ patches' = [patches EXCEPT ![index + 1] =
       [k \in DOMAIN @ |->
          IF @[k].match = Unmatched THEN @[k]
          ELSE [@[k] EXCEPT !.sizeD = interSizeD(patches[index + 1][k],
                                                 refPatch(index, patches[index + 1][k]))]]]
  /\ referred' = referred \union {refTile(index, patches[index + 1][k]) : k \in Inter(index)}
  /\ index' = index + 1
  /\ UNCHANGED <<conf, pc, segmented, decoded>>

\* A reference patch that is not there is read all the same.
EncodeOutside ==
  /\ pc = "encode"
  /\ index < numTiles
  /\ \E k \in Inter(index) : ~refExists(index, patches[index + 1][k])
  /\ pc' = "undefined"
  /\ UNCHANGED <<conf, index, patches, segmented, referred, atlList, decoded>>

\* Mutant: decided by what the tile refers to.
UpdateNaluInfo_OwnType ==
  /\ pc = "encode"
  /\ index = numTiles
  /\ atlList' = [i \in 1..numTiles |->
       IF frameOf(i - 1) = 0 \/ ~conf.constrainedPack THEN atlList[i]
       ELSE [atlList[i] EXCEPT !.header.nalu = IF atlList[i].header.type = "P" THEN 1 ELSE 2]]
  /\ pc' = "decode"
  /\ index' = 0
  /\ UNCHANGED <<conf, patches, segmented, referred, decoded>>

\* updateNaluInfo: 0 NAL_IDR_N_LP, 1 NAL_TRAIL_R, 2 NAL_TRAIL_N
UpdateNaluInfo ==
  /\ pc = "encode"
  /\ index = numTiles
  /\ atlList' = [i \in 1..numTiles |->
       IF frameOf(i - 1) = 0 \/ ~conf.constrainedPack THEN atlList[i]
       ELSE [atlList[i] EXCEPT !.header.nalu = IF i - 1 \in referred THEN 1 ELSE 2]]
  /\ pc' = "decode"
  /\ index' = 0
  /\ UNCHANGED <<conf, patches, segmented, referred, decoded>>

----------------------------------------------------------------------------
\* PCCBitstreamReader::atlasTileDataUnit and
\* PCCDecoder::createPatchFrameDataStructure

\* Mutant: a wrap of exactly half the range is not seen.
orderCnt_Strict ==
  LET maxLsb == Pow2[LsbBits]
      lsb(i) == atlList[i].header.lsb
      msb[i \in 1..numTiles] ==
        IF i = 1 THEN 0
        ELSE IF lsb(i) < lsb(i - 1) /\ lsb(i - 1) - lsb(i) > maxLsb \div 2
             THEN msb[i - 1] + maxLsb
        ELSE msb[i - 1]
  IN [i \in 1..numTiles |-> msb[i] + lsb(i)]

\* calculateAFOCval of every tile layer.
orderCnt ==
  LET maxLsb == Pow2[LsbBits]
      lsb(i) == atlList[i].header.lsb
      msb[i \in 1..numTiles] ==
        IF i = 1 THEN 0
        ELSE IF lsb(i) < lsb(i - 1) /\ lsb(i - 1) - lsb(i) >= maxLsb \div 2
             THEN msb[i - 1] + maxLsb
        ELSE IF lsb(i) > lsb(i - 1) /\ lsb(i) - lsb(i - 1) > maxLsb \div 2
             THEN msb[i - 1] - maxLsb
        ELSE msb[i - 1]
  IN [i \in 1..numTiles |-> msb[i] + lsb(i)]

\* getPatchType
patchType(type, mode) ==
  CHOOSE k \in {"intra", "raw", "eom", "end"} \union (IF type = "P" THEN {"inter"} ELSE {}) :
     patchMode(type, k) = mode

\* What the reader keeps of the units: all but the END.
readUnits(atl) ==
  LET kind(u) == patchType(atl.header.type, readUvlc(u.mode))
      n == CHOOSE k \in 1..Len(atl.units) :
             /\ kind(atl.units[k]) = "end"
             /\ \A l \in 1..(k - 1) : kind(atl.units[l]) # "end"
  IN [k \in 1..(n - 1) |-> [kind |-> kind(atl.units[k]), data |-> atl.units[k].data]]

\* Decoder's setRefAfocList: every entry is one frame before the one in front
\* of it; behind an entry that was left out, that one is read from outside of
\* the vector.
refAfocLists(f) ==
  {LET list[k \in 0..conf.maxRef] ==
         IF k = 0 THEN <<>>
         ELSE LET poc == IF k = 1 THEN f - 1
                         ELSE IF Len(list[k - 1]) >= k - 1 THEN list[k - 1][k - 1] - 1
                         ELSE g[k] - 1
              IN IF poc >= 0 THEN Append(list[k - 1], poc) ELSE list[k - 1]
   IN list[conf.maxRef] : g \in [1..conf.maxRef -> Garbage]}

decodeIntra(d) ==
  [mode |-> d.mode,
   d1 |-> IF d.mode = 0 THEN d.offsetD * minLevel
          ELSE Pow2[BitDepth3D] - d.offsetD * minLevel,
   sizeD |-> deltaDD(d.rangeD), match |-> Unmatched, poc |-> -1]

decodeInter(d, r, match, poc) ==
  LET offsetD == readSvlc(d.offsetD)
  IN [mode |-> r.mode,
      d1 |-> IF r.mode = 0 THEN SizeT((offsetD + (r.d1 \div minLevel)) * minLevel)
             ELSE SizeT(Pow2[BitDepth3D]
                        - (offsetD + (SizeT(Pow2[BitDepth3D] - r.d1) \div minLevel)) * minLevel),
      sizeD |-> SizeT(r.sizeD + deltaDD(readSvlc(d.rangeD))),
      match |-> match, poc |-> poc]

IsPatch(u) == u.kind \in {"intra", "inter"}

\* bestMatchIdx of the patches of a tile, with the decoder's predIndex.
decodeMatches(us) ==
  LET pred[k \in 1..(Len(us) + 1)] ==
        IF k = 1 THEN 0
        ELSE IF us[k - 1].kind # "inter" THEN pred[k - 1]
        ELSE pred[k - 1] + readSvlc(us[k - 1].data.refPatchIndex) + 1
  IN [k \in 1..Len(us) |->
        IF us[k].kind # "inter" THEN Unmatched
        ELSE readSvlc(us[k].data.refPatchIndex) + pred[k]]

refIndexOf(u) == IF u.data.refIndex = <<>> THEN 0 ELSE readUvlc(u.data.refIndex[1])

\* The tile of frame poc that tile layer i refers to, when it is there.
decodedTiles(i, poc) ==
  {k \in 1..Len(decoded) : decoded[k].frame = poc /\ decoded[k].id = atlList[i].header.id}

Readable(i, us, list) ==
  LET ms == decodeMatches(us)
  IN \A k \in 1..Len(us) :
       us[k].kind = "inter" =>
         /\ refIndexOf(us[k]) < Len(list)
         /\ \E t \in decodedTiles(i, list[refIndexOf(us[k]) + 1]) :
              ms[k] \in 0..(Len(decoded[t].patches) - 1)

decodePatches(i, us, list) ==
  LET ms == decodeMatches(us)
      inter(u, match) ==
        LET poc == list[refIndexOf(u) + 1]
            t == CHOOSE t \in decodedTiles(i, poc) : TRUE
        IN decodeInter(u.data, decoded[t].patches[match + 1], match, poc)
  IN FlattenSeq([k \in 1..Len(us) |->
       CASE us[k].kind = "intra" -> <<decodeIntra(us[k].data)>>
         [] us[k].kind = "inter" -> <<inter(us[k], ms[k])>>
         [] OTHER -> <<>>])

\* The units of raw and EOM patches.
decodeOthers(us) ==
  FlattenSeq([k \in 1..Len(us) |-> IF IsPatch(us[k]) THEN <<>> ELSE <<us[k]>>])

listsFor(i) ==
  IF orderCnt[i] > 0 /\ atlList[i].header.type # "I" THEN refAfocLists(orderCnt[i])
  ELSE {<<>>}

DecodeTile ==
  /\ pc = "decode"
  /\ index < numTiles
  /\ LET i == index + 1
         us == readUnits(atlList[i])
     IN \E list \in listsFor(i) :
          IF Readable(i, us, list)
          THEN /\ decoded' = Append(decoded,
                    [frame |-> orderCnt[i], id |-> atlList[i].header.id,
                     patches |-> decodePatches(i, us, list),
                     others |-> decodeOthers(us)])
               /\ index' = index + 1
               /\ UNCHANGED pc
          ELSE /\ pc' = "undefined"
               /\ UNCHANGED <<index, decoded>>
  /\ UNCHANGED <<conf, patches, segmented, referred, atlList>>

Init ==
  /\ conf \in Confs
  /\ pc = "segment"
  /\ index = 0
  /\ patches = <<>> /\ segmented = <<>> /\ atlList = <<>> /\ decoded = <<>>
  /\ referred = {}

Next ==
  \/ Segment \/ EndSegment
  \/ adjustReferenceAtlasFrame \/ AdjustOutside \/ EndAdjust
  \/ ReversePatches
  \/ EncodeTile \/ EncodeOutside \/ UpdateNaluInfo
  \/ DecodeTile

Spec == Init /\ [][Next]_vars

----------------------------------------------------------------------------
\* Properties.

\* Patches and tile layers have the fields and ranges of the code's types.
TypeOK ==
  /\ conf \in Confs
  /\ pc \in {"segment", "adjust", "reverse", "encode", "decode", "undefined"}
  /\ index \in 0..numTiles
  /\ Len(segmented) <= numTiles /\ Len(patches) = Len(segmented)
  /\ \A i \in 1..Len(patches) : \A k \in 1..Len(patches[i]) :
       LET p == patches[i][k]
       IN /\ p.mode \in {0, 1}
          /\ p.d1 \in 0..Pow2[BitDepth3D] /\ p.d1 % minLevel = 0
          /\ p.sizeD \in 0..(Pow2[BitDepth2D] - 1)
          /\ p.ref \in 0..(conf.maxRef - 1)
  /\ referred \subseteq 0..(numTiles - 1)
  /\ Len(atlList) <= numTiles
  /\ Len(decoded) <= numTiles

\* The patches of the encoder that have been decoded: <<tile, patch>>.
DecodedPatches ==
  UNION {{<<i, k>> : k \in 1..Min2(Len(decoded[i].patches), Len(patches[i]))}
         : i \in 1..Len(decoded)}

\* The reversal mirrors every match in the previous frame, and
\* adjustReferenceAtlasFrames may have moved it to another one.
MirroredElsewhere == conf.precedence /\ Adjusts

\* calculateAFOCval gives every tile layer the frame it was made for, although
\* the bitstream has only the lower bits of its number.
OrderCountKept ==
  \A i \in 1..Len(decoded) :
     decoded[i].frame = frameOf(i - 1) /\ decoded[i].id = (i - 1) % conf.tiles

\* The decoder predicts every patch from the patch, in the frame, that the
\* encoder took the differences to, whatever is read behind the end of
\* refAFOCList_, and raw and EOM patches do not get in between. That patch has
\* the projection mode of the predicted one, unless the encoder has mirrored the
\* match in the wrong frame.
ReferencesAgree ==
  \A i \in 1..Len(decoded) :
     /\ Len(decoded[i].patches) = Len(patches[i])
     /\ [k \in 1..Len(decoded[i].others) |-> decoded[i].others[k].kind] = conf.others
     /\ \A k \in 1..Len(patches[i]) :
          LET p == patches[i][k]
              q == decoded[i].patches[k]
          IN /\ q.mode = p.mode \/ MirroredElsewhere
             /\ q.match = p.match
             /\ p.match # Unmatched => tileIn(q.poc, i - 1) = refTile(i - 1, p)

\* A patch against the normal axis with all its points at the coordinate 0.
AtZero(c) == c.mode = 1 /\ c.near = 0

\* D1 is decoded as it was encoded, through every chain of predictions from
\* patches of the same projection mode. The exception is a patch against the
\* normal axis whose D1 is 0: its offset needs one bit more than patchDataUnit
\* writes. It, and what is predicted from it, is then decoded with 2^BitDepth3D
\* too much.
DepthKept ==
  ~MirroredElsewhere => \A x \in DecodedPatches :
     LET p == patches[x[1]][x[2]]
         q == decoded[x[1]].patches[x[2]]
     IN /\ q.d1 = p.d1 \/ (p.mode = 1 /\ q.d1 = p.d1 + Pow2[BitDepth3D])
        /\ (\A i \in 1..x[1] : \A k \in 1..Len(segmented[i]) : ~AtZero(segmented[i][k]))
             => q.d1 = p.d1

\* SizeD is decoded as the encoder assumed it when it predicted from it: the
\* bounds the encoder applies and the decoder does not are never reached.
SizeKept ==
  \A x \in DecodedPatches :
     decoded[x[1]].patches[x[2]].sizeD = patches[x[1]][x[2]].sizeD

\* Quantization errors of SizeD do not add up along a chain of predictions: it is
\* off by no more than a level, or by one more for a patch against the normal axis
\* that spans all coordinates.
NoDrift ==
  \A i \in 1..Len(atlList) : \A k \in 1..Len(patches[i]) :
     LET p == patches[i][k]
     IN p.sizeD \in (Min2(p.sizeDPixel, Pow2[BitDepth3D] - 1) - minLevel)
                   ..(p.sizeDPixel + minLevel)

\* A tile layer sent as NAL_TRAIL_N is not referred to by any patch.
NonReferenceUnused ==
  \A i \in 1..Len(decoded) : \A k \in 1..Len(decoded[i].patches) :
     LET q == decoded[i].patches[k]
     IN q.match # Unmatched => atlList[tileIn(q.poc, i - 1) + 1].header.nalu # 2

\* Every patch of the segmentation reaches the decoder, or none of its tile:
\* adjustReferenceAtlasFrames leaves a tile of the third or a later frame
\* without patches when it finds no reference for any of them.
LostOnlyWhole ==
  \A i \in 1..Len(decoded) :
     Len(decoded[i].patches) # Len(segmented[i]) =>
       Adjusts /\ frameOf(i - 1) >= 2 /\ decoded[i].patches = <<>>

\* adjustReferenceAtlasFrames has taken all its patches from tile i.
LostTile(i) == patches[i + 1] = <<>> /\ segmented[i + 1] # <<>>

\* A patch that does not exist is read in two places only, both in the encoder
\* and with several reference frames: by adjustReferenceAtlasFrame, in a tile
\* that has lost all its patches in the frame before; and when a patch is coded
\* whose match was mirrored in the wrong frame. The decoder never reads a patch
\* that does not exist. (It does read behind the end of refAFOCList_: that is
\* Garbage here, and ReferencesAgree says that nothing comes of it.)
OutsideOnlyLostOrMirrored ==
  pc = "undefined" =>
    \/ /\ Adjusts /\ atlList = <<>> /\ frameOf(index) > 2
       /\ LostTile(tileIn(frameOf(index) - 1, index))
    \/ /\ MirroredElsewhere
       /\ atlList # <<>> /\ Len(atlList) < numTiles
=============================================================================
