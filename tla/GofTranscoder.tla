--------------------------- MODULE GofTranscoder ----------------------------
(***************************************************************************)
(* decompressVideo of PccAppTranscoder with the parts of the reader, the   *)
(* high-level syntax, the transcoder and the writer that it drives, one    *)
(* GOF at a time: PCCBitstreamReader::decode takes V3C units from ssvu_in  *)
(* into a fresh PCCContext until it meets the next VPS (which it parses    *)
(* into the context, but leaves in ssvu_in), checkProfile judges the       *)
(* context, PCCTranscoder::transcode replaces the coded videos, and        *)
(* PCCBitstreamWriter::encode appends the units of the context to          *)
(* ssvu_out.  The file is written after the last GOF.                      *)
(*                                                                         *)
(* A GOF of the input is described by a record:                            *)
(*   id       the V3C parameter set id, u(4)                               *)
(*   atlases  AtlasCountMinus1 + 1                                         *)
(*   multi    more than one map, each in a video of its own                *)
(*   attrs    AttributeCount: at most one, of one partition                *)
(*   raw      raw patches, in auxiliary videos                             *)
(*   good     the toolset constraints of the profile are met               *)
(* A payload is represented by where it comes from (GOF and atlas) and by  *)
(* n: in atlas data the END entries of a tile's patch list, in a video how *)
(* often it was transcoded.                                                *)
(***************************************************************************)
EXTENDS Naturals, Sequences, SequencesExt

CONSTANTS
  GofShapes,   \* the GOF records of the input streams
  MaxGofs,     \* bound: the GOFs of an input stream
  Precisions,  \* params_.occupancyPrecision_
  Baselines,   \* params_.transcodeBaseline_
  Losses,      \* bound: the video units missing from an input stream, 0 or 1
  CodecFaults  \* whether libav may report an error

ASSUME GofAssumption ==
  /\ GofShapes \subseteq [id : 0..15, atlases : 1..64, multi : BOOLEAN,
                          attrs : {0, 1}, raw : BOOLEAN, good : BOOLEAN]
  /\ MaxGofs \in Nat
  /\ Precisions \subseteq Nat
  /\ Baselines \subseteq BOOLEAN
  /\ Losses \in {0, 1}
  /\ CodecFaults \in BOOLEAN

VARIABLES
  gofs,      \* the input stream, GOF by GOF
  lost,      \* the place of the video unit that is missing from it, or 0
  params,    \* [occupancyPrecision, transcodeBaseline]
  pc,        \* where decompressVideo is, or how it ended
  ssvu_in,   \* the V3C units not yet consumed
  ssvu_out,  \* the V3C units produced
  context,   \* the PCCContext of the current GOF
  numVPS,    \* the VPS units decode has met in this GOF
  atlId,     \* the atlas loop of decompressVideo
  stat,      \* the VPS bytes counted for each GOF in bitstreamStat_in
  file       \* the output file

vars == <<gofs, lost, params, pc, ssvu_in, ssvu_out, context, numVPS, atlId, stat, file>>

-----------------------------------------------------------------------------
(* The units of a GOF, in the order PCCBitstreamWriter::encode emits them. *)

Header(type, atlas, map, aux) ==
  [type |-> type, atlas |-> atlas, map |-> map, aux |-> aux]

\* The videos of one component: one per map, or one for all; then the raw one.
VideoHeaders(type, atlas, g) ==
  (IF g.multi
     THEN <<Header(type, atlas, 0, FALSE), Header(type, atlas, 1, FALSE)>>
     ELSE <<Header(type, atlas, 0, FALSE)>>)
  \o (IF g.raw THEN <<Header(type, atlas, 0, TRUE)>> ELSE <<>>)

\* The loops over the attributes and their dimension partitions make one round
\* at most: the encoder gives a V3C stream no attribute or one, in one partition.
AtlasHeaders(atlas, g) ==
  <<Header("AD", atlas, 0, FALSE), Header("OVD", atlas, 0, FALSE)>>
  \o VideoHeaders("GVD", atlas, g)
  \o (IF g.attrs > 0 THEN VideoHeaders("AVD", atlas, g) ELSE <<>>)

GofHeaders(g) ==
  <<Header("VPS", 0, 0, FALSE)>>
  \o AtlasHeaders(0, g)
  \o (IF g.atlases > 1 THEN AtlasHeaders(1, g) ELSE <<>>)

Unit(h, id, pay) == [header |-> h, vps |-> id, pay |-> pay]
Payload(gof, atlas, n) == [gof |-> gof, atlas |-> atlas, n |-> n]

\* GOF i of the input: every tile ends with one END, no video is transcoded.
InputGof(i, g) ==
  LET hs == GofHeaders(g) IN
  [k \in DOMAIN hs |->
     Unit(hs[k], g.id, Payload(i, hs[k].atlas, IF hs[k].type = "AD" THEN 1 ELSE 0))]

\* The whole stream, and what read() puts in ssvu_in when unit k is missing.
StreamUnits(gs) == FlattenSeq([i \in DOMAIN gs |-> InputGof(i, gs[i])])
InputUnits(gs, k) ==
  IF k = 0 THEN StreamUnits(gs) ELSE RemoveAt(StreamUnits(gs), k)

\* The units that may be missing: videos.  Without its VPS a GOF would be taken
\* for the end of the one in front of it; that is outside the model.
Losable(gs) ==
  {k \in DOMAIN StreamUnits(gs) : StreamUnits(gs)[k].header.type \notin {"VPS", "AD"}}

-----------------------------------------------------------------------------
(* PCCHighLevelSyntax. *)

NoAtlasData == Payload(0, 0, 0)
EmptyHLS == [videos |-> <<>>, ad |-> NoAtlasData]
NewContext == [vpsList |-> <<>>, activeVPS |-> 0, atlasHLS |-> <<>>, atlasIndex |-> 0]

\* Mutant of allocateAtlasHLS: the atlas the syntax is at is kept.
allocateAtlasHLS_IndexKept(c, size) ==
  [c EXCEPT !.atlasHLS = [k \in 1..size |->
                            IF k <= Len(c.atlasHLS) THEN c.atlasHLS[k] ELSE EmptyHLS]]

\* std::vector::resize keeps the atlases that are there.
allocateAtlasHLS(c, size) ==
  [c EXCEPT !.atlasHLS = [k \in 1..size |->
                            IF k <= Len(c.atlasHLS) THEN c.atlasHLS[k] ELSE EmptyHLS],
            !.atlasIndex = 0]

\* The positions of the parameter sets with the active id; getVps() takes the
\* first and exits when there is none.
activeVpsPositions(c) ==
  {k \in DOMAIN c.vpsList : gofs[c.vpsList[k]].id = c.activeVPS}

\* Mutant of getVps: the last parameter set with the active id.
getVps_Last(c) ==
  c.vpsList[CHOOSE k \in activeVpsPositions(c) :
              \A j \in activeVpsPositions(c) : k >= j]

\* The GOF whose parameter set is active.
getVps(c) ==
  c.vpsList[CHOOSE k \in activeVpsPositions(c) :
              \A j \in activeVpsPositions(c) : k <= j]

\* PCCVideoType of a video unit, from its header and the active VPS: <<name, 0>>
\* for all maps, <<name, m + 1>> for map m, <<name, RAW>> for raw patches.
RAW == 17
videoType(h, g) ==
  IF h.type = "OVD" THEN <<"OCCUPANCY", 0>>
  ELSE LET name == IF h.type = "GVD" THEN "GEOMETRY" ELSE "ATTRIBUTE" IN
       CASE h.aux             -> <<name, RAW>>
         [] ~h.aux /\ g.multi -> <<name, h.map + 1>>
         [] OTHER             -> <<name, 0>>

\* The videos of a type; getVideoBitstream() takes the first, exits if none.
videosOfType(c, type) ==
  LET vs == c.atlasHLS[c.atlasIndex + 1].videos
  IN {k \in DOMAIN vs : vs[k].type = type}
firstVideo(c, type) ==
  CHOOSE k \in videosOfType(c, type) : \A j \in videosOfType(c, type) : k <= j

\* Mutant of checkProfile: the toolset constraints are not looked at.
checkProfile_NoConstraints(c) ==
  Len(c.atlasHLS) = 1

\* checkProfile() = 0.  Which toolset constraint is violated, and how, is
\* abstracted to the flag good of the active parameter set.
checkProfile(c) ==
  Len(c.atlasHLS) = 1 /\ gofs[getVps(c)].good

-----------------------------------------------------------------------------
Init ==
  /\ \E n \in 0..MaxGofs : gofs \in [1..n -> GofShapes]
  /\ params \in [occupancyPrecision : Precisions, transcodeBaseline : Baselines]
  /\ pc = "decode"
  /\ lost \in {0} \cup (IF Losses = 0 THEN {} ELSE Losable(gofs))
  /\ ssvu_in = InputUnits(gofs, lost)
  /\ ssvu_out = <<>>
  /\ context = NewContext
  /\ numVPS = 0
  /\ atlId = 0
  /\ stat = <<0>>   \* newGOF()
  /\ file = <<>>

\* Reading a VPS: v3cUnitPayload adds a parameter set, v3cParameterSet
\* allocates the atlases, the stat counts its bytes (its GOF number, here).
parseVPS(u) ==
  /\ context' = allocateAtlasHLS(
                  [context EXCEPT !.vpsList = Append(@, u.pay.gof)],
                  gofs[u.pay.gof].atlases)
  /\ numVPS' = numVPS + 1

\* decode, on the first VPS of the GOF: it is consumed.
DecodeFirstVPS ==
  /\ pc = "decode"
  /\ ssvu_in # <<>>
  /\ Head(ssvu_in).header.type = "VPS"
  /\ numVPS = 0
  /\ parseVPS(Head(ssvu_in))
  /\ stat' = [stat EXCEPT ![Len(stat)] = @ + Head(ssvu_in).pay.gof]
  /\ ssvu_in' = Tail(ssvu_in)
  /\ UNCHANGED <<gofs, lost, params, pc, ssvu_out, atlId, file>>

\* Mutant of DecodeNextVPS: its bytes stay counted here.
DecodeNextVPS_Counted ==
  /\ pc = "decode"
  /\ ssvu_in # <<>>
  /\ Head(ssvu_in).header.type = "VPS"
  /\ numVPS > 0
  /\ parseVPS(Head(ssvu_in))
  /\ stat' = [stat EXCEPT ![Len(stat)] = @ + Head(ssvu_in).pay.gof]
  /\ pc' = "checkProfile"
  /\ UNCHANGED <<gofs, lost, params, ssvu_in, ssvu_out, atlId, file>>

\* decode, on the VPS of the next GOF: it is parsed into this context as well,
\* its bytes are taken out of the stat again, and it stays in ssvu_in.
DecodeNextVPS ==
  /\ pc = "decode"
  /\ ssvu_in # <<>>
  /\ Head(ssvu_in).header.type = "VPS"
  /\ numVPS > 0
  /\ parseVPS(Head(ssvu_in))
  /\ pc' = "checkProfile"
  /\ UNCHANGED <<gofs, lost, params, ssvu_in, ssvu_out, atlId, stat, file>>

\* decode, on any other unit.  v3cUnitHeader sets the active VPS and the atlas;
\* atlasSubStream keeps the patches without the END; videoSubStream adds a
\* video of the type the active VPS gives it.
DecodeData ==
  /\ pc = "decode"
  /\ ssvu_in # <<>>
  /\ Head(ssvu_in).header.type # "VPS"
  /\ LET u   == Head(ssvu_in)
         c   == [context EXCEPT !.activeVPS = u.vps, !.atlasIndex = u.header.atlas]
         a   == u.header.atlas + 1
         typ == videoType(u.header, gofs[getVps(c)])
     IN context' =
          IF u.header.type = "AD"
            THEN [c EXCEPT !.atlasHLS[a].ad = [u.pay EXCEPT !.n = 0]]
            ELSE [c EXCEPT !.atlasHLS[a].videos =
                    Append(@, [type |-> typ, pay |-> u.pay])]
  /\ ssvu_in' = Tail(ssvu_in)
  /\ UNCHANGED <<gofs, lost, params, pc, ssvu_out, numVPS, atlId, stat, file>>

\* decode, when there are no units left.
DecodeEnd ==
  /\ pc = "decode"
  /\ ssvu_in = <<>>
  /\ pc' = "checkProfile"
  /\ UNCHANGED <<gofs, lost, params, ssvu_in, ssvu_out, context, numVPS, atlId, stat, file>>

\* checkProfile() != 0: "Profile not correct...", return 0, nothing is written.
ProfileRefused ==
  /\ pc = "checkProfile"
  /\ ~checkProfile(context)
  /\ pc' = "refused"
  /\ UNCHANGED <<gofs, lost, params, ssvu_in, ssvu_out, context, numVPS, atlId, stat, file>>

\* resizeAtlas, and the atlas loop starts.
ProfileAccepted ==
  /\ pc = "checkProfile"
  /\ checkProfile(context)
  /\ atlId' = 0
  /\ pc' = "transcode"
  /\ UNCHANGED <<gofs, lost, params, ssvu_in, ssvu_out, context, numVPS, stat, file>>

\* The videos transcodeData / transcodeBaseline work on.
VideosToTranscode ==
  {<<"GEOMETRY", 0>>, <<"ATTRIBUTE", 0>>} \cup
  (IF params.transcodeBaseline \/ params.occupancyPrecision = 4
     THEN {<<"OCCUPANCY", 0>>} ELSE {})

\* transcodeData replaces the first video of each type.
transcodeData(vs) ==
  [k \in DOMAIN vs |->
     IF \E t \in VideosToTranscode : k = firstVideo(context, t)
       THEN [vs[k] EXCEPT !.pay.n = @ + 1] ELSE vs[k]]

\* addEndTile appends an END to every tile.
addEndTile(ad) == [ad EXCEPT !.n = @ + 1]

\* Mutant of TranscodedAtlas: no END is put back.
TranscodedAtlas_NoEndTile(hls) == [hls EXCEPT !.videos = transcodeData(@)]

TranscodedAtlas(hls) ==
  [hls EXCEPT !.videos = transcodeData(@), !.ad = addEndTile(@)]

\* transcode(context, atlId): both work on the atlas the high-level syntax is
\* at, not on atlId.
transcode ==
  /\ pc = "transcode"
  /\ \A t \in VideosToTranscode : videosOfType(context, t) # {}
  /\ context' = [context EXCEPT !.atlasHLS[context.atlasIndex + 1] = TranscodedAtlas(@)]
  /\ pc' = "encode"
  /\ UNCHANGED <<gofs, lost, params, ssvu_in, ssvu_out, numVPS, atlId, stat, file>>

\* getVideoBitstream() finds no video to transcode: exit.
TranscodeExits ==
  /\ pc = "transcode"
  /\ \E t \in VideosToTranscode : videosOfType(context, t) = {}
  /\ pc' = "exit"
  /\ UNCHANGED <<gofs, lost, params, ssvu_in, ssvu_out, context, numVPS, atlId, stat, file>>

\* libav reports an error on one of the videos: exit.  (transcodeBaseline runs
\* its decoder as a command and ignores what that returns.)
CodecExits ==
  /\ pc = "transcode"
  /\ CodecFaults
  /\ ~params.transcodeBaseline
  /\ pc' = "codecExit"
  /\ UNCHANGED <<gofs, lost, params, ssvu_in, ssvu_out, context, numVPS, atlId, stat, file>>

\* The videos encode needs.
EncodedVideos(c) ==
  LET g == gofs[getVps(c)]
      hs == GofHeaders(g)
  IN {videoType(hs[k], g) : k \in {j \in DOMAIN hs : hs[j].type \notin {"VPS", "AD"}}}

\* The units encode() writes.  The atlas id goes to the headers; the atlas data
\* and the videos come from the atlas the high-level syntax is at.
EncodedGof(c) ==
  LET v   == getVps(c)
      g   == gofs[v]
      hs  == GofHeaders(g)
      hls == c.atlasHLS[c.atlasIndex + 1]
      pay(h) == CASE h.type = "VPS" -> Payload(v, 0, 0)
                  [] h.type = "AD"  -> hls.ad
                  [] OTHER -> hls.videos[firstVideo(c, videoType(h, g))].pay
  IN [k \in DOMAIN hs |-> Unit(hs[k], g.id, pay(hs[k]))]

\* Mutant of encode: one context for the whole stream.
encode_ContextKept ==
  /\ pc = "encode"
  /\ \A t \in EncodedVideos(context) : videosOfType(context, t) # {}
  /\ ssvu_out' = ssvu_out \o EncodedGof(context)
  /\ atlId' = atlId + 1
  /\ IF atlId + 1 < gofs[getVps(context)].atlases
       THEN pc' = "transcode" /\ UNCHANGED <<numVPS, stat>>
       ELSE IF ssvu_in # <<>>
         THEN pc' = "decode" /\ numVPS' = 0 /\ stat' = Append(stat, 0)
         ELSE pc' = "write" /\ UNCHANGED <<numVPS, stat>>
  /\ UNCHANGED <<gofs, lost, params, ssvu_in, context, file>>

\* writer.encode, and the end of an iteration of the atlas loop: bMoreData says
\* whether another GOF follows, for which there is a new context and newGOF().
\* The stat of the output is not modelled.
encode ==
  /\ pc = "encode"
  /\ \A t \in EncodedVideos(context) : videosOfType(context, t) # {}
  /\ ssvu_out' = ssvu_out \o EncodedGof(context)
  /\ atlId' = atlId + 1
  /\ IF atlId + 1 < gofs[getVps(context)].atlases
       THEN pc' = "transcode" /\ UNCHANGED <<context, numVPS, stat>>
       ELSE IF ssvu_in # <<>>
         THEN /\ pc' = "decode"
              /\ context' = NewContext
              /\ numVPS' = 0
              /\ stat' = Append(stat, 0)
         ELSE pc' = "write" /\ UNCHANGED <<context, numVPS, stat>>
  /\ UNCHANGED <<gofs, lost, params, ssvu_in, file>>

\* getVideoBitstream() finds no video for a unit encode has to write.
EncodeExits ==
  /\ pc = "encode"
  /\ \E t \in EncodedVideos(context) : videosOfType(context, t) = {}
  /\ pc' = "exit"
  /\ UNCHANGED <<gofs, lost, params, ssvu_in, ssvu_out, context, numVPS, atlId, stat, file>>

\* writer.write and bitstream_out.write, after the last GOF.
write ==
  /\ pc = "write"
  /\ file' = ssvu_out
  /\ pc' = "done"
  /\ UNCHANGED <<gofs, lost, params, ssvu_in, ssvu_out, context, numVPS, atlId, stat>>

Next ==
  \/ DecodeFirstVPS \/ DecodeNextVPS \/ DecodeData \/ DecodeEnd
  \/ ProfileRefused \/ ProfileAccepted
  \/ transcode \/ TranscodeExits \/ CodecExits
  \/ encode \/ EncodeExits
  \/ write

Spec == Init /\ [][Next]_vars

\* decompressVideo is one thread that goes on until it returns.
FairSpec == Spec /\ WF_vars(Next)

-----------------------------------------------------------------------------
(* Properties. *)

PayloadType == [gof : 0..MaxGofs, atlas : 0..63, n : Nat]

\* Every variable has its type, and the atlas the high-level syntax is at is
\* one of the atlases it has: getAtlasHighLevelSyntax() indexes without a check
\* after the peeked VPS has resized them.
TypeOK ==
  /\ pc \in {"decode", "checkProfile", "transcode", "encode", "write",
             "done", "refused", "exit", "codecExit"}
  /\ numVPS \in 0..2
  /\ atlId \in 0..64
  /\ \A k \in DOMAIN stat : stat[k] \in 0..MaxGofs
  /\ \A k \in DOMAIN context.vpsList : context.vpsList[k] \in DOMAIN gofs
  /\ context.activeVPS \in 0..15
  /\ context.atlasHLS # <<>> => context.atlasIndex + 1 \in DOMAIN context.atlasHLS
  /\ \A a \in DOMAIN context.atlasHLS :
       /\ context.atlasHLS[a].ad \in PayloadType
       /\ \A k \in DOMAIN context.atlasHLS[a].videos :
            context.atlasHLS[a].videos[k].pay \in PayloadType

\* The GOF decompressVideo is at.
CurrentGof == Len(stat)

\* What GOF i has to become: the same units in the same order; one END in
\* every tile, as in the input, and each of the videos transcoded once.
TranscodedGof(i) ==
  LET g == gofs[i]
      n(h) == CASE h.type = "VPS" -> 0
                [] h.type = "AD"  -> 1
                [] OTHER -> IF videoType(h, g) \in VideosToTranscode THEN 1 ELSE 0
      hs == GofHeaders(g)
  IN [k \in DOMAIN hs |->
        Unit(hs[k], g.id, Payload(i, hs[k].atlas, n(hs[k])))]

\* The GOFs whose parameter sets are in a sequence of units.
VpsGofs(units) ==
  LET upTo[k \in 0..Len(units)] ==
        IF k = 0 THEN <<>>
        ELSE IF units[k].header.type = "VPS"
          THEN Append(upTo[k - 1], units[k].pay.gof)
          ELSE upTo[k - 1]
  IN upTo[Len(units)]

\* The GOFs in ssvu_out.
OutputGofs == VpsGofs(ssvu_out)

\* ssvu_out is at all times made of whole GOFs, the first ones of the input, in
\* order and each once: nothing of the peeked VPS or of another GOF gets in, no
\* END is lost or doubled between atlasSubStream and addEndTile, and no video
\* is transcoded twice.  What is written to the file is all of it.
OutputInOrder ==
  /\ ssvu_out = FlattenSeq([i \in 1..Len(OutputGofs) |-> TranscodedGof(i)])
  /\ file = IF pc = "done"
              THEN FlattenSeq([i \in DOMAIN gofs |-> TranscodedGof(i)])
              ELSE <<>>

\* After decode the active parameter set is that of the GOF at hand, although
\* the one of the next GOF is in the list too, possibly with the same id.
JudgedByOwnVps ==
  pc \in {"checkProfile", "transcode", "encode"} /\ context.vpsList # <<>>
    => getVps(context) = CurrentGof

\* decode takes the bytes of the peeked VPS out of the stat again: over the
\* whole run those of each VPS are counted once, in its own GOF.
StatCountsOwnVps ==
  \A k \in DOMAIN stat :
    stat[k] = IF k = CurrentGof /\ numVPS = 0 THEN 0 ELSE k

\* A GOF the transcoder can handle: the profile allows it, and it has the one
\* geometry video and the one attribute video that transcodeData asks for.
Supported(g) == g.atlases = 1 /\ g.good /\ ~g.multi /\ g.attrs > 0
Transcodable ==
  gofs # <<>> /\ lost = 0 /\ \A i \in DOMAIN gofs : Supported(gofs[i])

Ended == pc \in {"done", "refused", "exit", "codecExit"}

\* decompressVideo ends, and it writes the output file exactly when all of the
\* input can be transcoded: a missing video or an unsupported GOF, wherever it
\* is in the stream, never yields a file, and a stream without either does,
\* unless libav fails.
PublishedIffTranscodable ==
  <>[](/\ Ended
       /\ pc = "done" => Transcodable
       /\ Transcodable => pc \in {"done", "codecExit"})

\* "ProfileToolsetConstraint Violation(1) : number of atlas should be 1": a GOF
\* checkProfile has let through has one atlas.
AtlasCountChecked ==
  pc \in {"transcode", "encode"} => gofs[CurrentGof].atlases = 1

-----------------------------------------------------------------------------
(* The transcoder does what StreamTranscoding promises. *)

Stream == INSTANCE StreamTranscoding WITH
  todo   <- [k \in 1..(Len(gofs) - Len(OutputGofs)) |-> Len(OutputGofs) + k],
  result <- OutputGofs,
  status <- CASE pc = "done" -> "published"
              [] pc \in {"refused", "exit", "codecExit"} -> "failed"
              [] OTHER -> "running"

\* decompressVideo implements StreamTranscoding: GOFs in order, each once, and
\* a file only when all of them are in it.
ImplementsStream == Stream!Spec
=============================================================================
