------------------------ MODULE GofTranscoderProofs -------------------------
(***************************************************************************)
(* Proofs about GofTranscoder: for streams of any length, with any         *)
(* parameter set ids, at most one attribute and any one video unit         *)
(* missing, every GOF is judged by its own parameter set, and ssvu_out is  *)
(* made of whole GOFs in the order of the input.                           *)
(***************************************************************************)
EXTENDS GofTranscoder, InductionLemmas, SequenceTheorems, TLAPS

-----------------------------------------------------------------------------
(* The units of a stream. *)

HeaderSet ==
  [type : {"VPS", "AD", "OVD", "GVD", "AVD"}, atlas : {0, 1}, map : {0, 1}, aux : BOOLEAN]
PayloadSet == [gof : Nat, atlas : Nat, n : Nat]
UnitSet == [header : HeaderSet, vps : 0..15, pay : PayloadSet]

\* A unit of its GOF.
IsUnit(u, gs) ==
  /\ u.pay.gof \in 1..Len(gs)
  /\ u.vps = gs[u.pay.gof].id
  /\ u.pay.atlas = u.header.atlas
  /\ u.header.atlas < gs[u.pay.gof].atlases
  /\ u.header.type # "AD" => u.pay.n = 0

\* v may come after u: a VPS starts the next GOF, and is followed by the atlas
\* data of its first atlas.
Follows(u, v) ==
  IF v.header.type = "VPS"
    THEN u.header.type # "VPS" /\ v.pay.gof = u.pay.gof + 1
    ELSE /\ v.pay.gof = u.pay.gof
         /\ u.header.type = "VPS" => v.header.type = "AD" /\ v.header.atlas = 0

\* The units from some unit on to the end of GOF m.
IsRest(s, gs, m) ==
  /\ s \in Seq(UnitSet)
  /\ \A k \in 1..Len(s) : IsUnit(s[k], gs)
  /\ \A k \in 2..Len(s) : Follows(s[k - 1], s[k])
  /\ s # <<>> => s[Len(s)].header.type # "VPS" /\ s[Len(s)].pay.gof = m

\* The units of GOFs 1 to m.
IsStream(s, gs, m) ==
  /\ IsRest(s, gs, m)
  /\ IF m = 0 THEN s = <<>>
     ELSE s # <<>> /\ s[1].header.type = "VPS" /\ s[1].pay.gof = 1

-----------------------------------------------------------------------------
(* The inductive invariant. *)

VideoTypes == {"OCCUPANCY", "GEOMETRY", "ATTRIBUTE"} \X {0, 1, 2, RAW}
VideoSet == [type : VideoTypes, pay : PayloadSet]
HLSSet == [videos : Seq(VideoSet), ad : PayloadSet]
ContextSet == [vpsList : Seq(Nat), activeVPS : 0..15, atlasHLS : Seq(HLSSet), atlasIndex : Nat]

Types ==
  /\ gofs \in Seq(GofShapes) /\ Len(gofs) \in 0..MaxGofs
  /\ params \in [occupancyPrecision : Precisions, transcodeBaseline : Baselines]
  /\ pc \in {"decode", "checkProfile", "transcode", "encode", "write",
             "done", "refused", "exit", "codecExit"}
  /\ numVPS \in 0..2
  /\ atlId \in 0..64
  /\ stat \in Seq(Nat) /\ stat # <<>>
  /\ context \in ContextSet
  /\ IsRest(ssvu_in, gofs, Len(gofs))

\* The parameter set the context was last given.
LastVps == CurrentGof + numVPS - 1

\* Everything in the context is of the GOF at hand.
OwnData ==
  \A a \in 1..Len(context.atlasHLS) :
    LET hls == context.atlasHLS[a] IN
    /\ hls.ad.gof \in {0, CurrentGof}
    /\ hls.ad.atlas \in {0, a - 1}
    /\ \A k \in 1..Len(hls.videos) :
         hls.videos[k].pay.gof = CurrentGof /\ hls.videos[k].pay.atlas = a - 1

\* decode has not met a VPS in this GOF.
BeforeVps ==
  /\ context = NewContext
  /\ IF ssvu_in = <<>>
       THEN gofs = <<>> /\ CurrentGof = 1 /\ pc \in {"decode", "checkProfile", "refused"}
       ELSE pc = "decode" /\ ssvu_in[1].header.type = "VPS" /\ ssvu_in[1].pay.gof = CurrentGof

\* decode has met one, and has not peeked another.
OwnVps ==
  /\ context.vpsList = <<CurrentGof>>
  /\ IF ssvu_in = <<>>
       THEN CurrentGof = Len(gofs)
       ELSE /\ pc = "decode"
            /\ ssvu_in[1].pay.gof =
                 IF ssvu_in[1].header.type = "VPS" THEN CurrentGof + 1 ELSE CurrentGof

\* decode has peeked the VPS of the next GOF.
PeekedVps ==
  /\ context.vpsList = <<CurrentGof, CurrentGof + 1>>
  /\ pc \notin {"decode", "write", "done"}
  /\ CurrentGof + 1 <= Len(gofs)
  /\ ssvu_in # <<>>
  /\ ssvu_in[1].header.type = "VPS"
  /\ ssvu_in[1].pay.gof = CurrentGof + 1

\* The atlas data of the GOF has come, and with it its parameter set is active.
Active ==
  context.activeVPS = gofs[CurrentGof].id /\ context.atlasHLS[1].ad.gof = CurrentGof

AfterVps ==
  /\ CurrentGof \in 1..Len(gofs)
  /\ IF numVPS = 1 THEN OwnVps ELSE PeekedVps
  /\ Len(context.atlasHLS) = gofs[LastVps].atlases
  /\ context.atlasIndex < Len(context.atlasHLS)
  /\ OwnData
  /\ \/ Active
     \/ /\ pc = "decode"
        /\ ssvu_in # <<>>
        /\ ssvu_in[1].header.type = "AD"
        /\ ssvu_in[1].header.atlas = 0

Looping ==
  /\ pc \in {"transcode", "encode"} =>
       numVPS > 0 /\ atlId < gofs[CurrentGof].atlases /\ Len(context.atlasHLS) = 1
  /\ pc \in {"write", "done"} => numVPS = 1 /\ ssvu_in = <<>>

IInv ==
  /\ Types
  /\ StatCountsOwnVps
  /\ IF numVPS = 0 THEN BeforeVps ELSE AfterVps
  /\ Looping

-----------------------------------------------------------------------------
(* The invariant of the output, when a GOF of several atlases is refused. *)

\* Every GOF of more than one atlas violates a toolset constraint as well.
AtlasAssumption == \A g \in GofShapes : g.good => g.atlases = 1

\* The GOFs of which all units are in ssvu_out.
Finished == IF pc \in {"write", "done"} THEN CurrentGof ELSE CurrentGof - 1

Output(m) == FlattenSeq([i \in 1..m |-> TranscodedGof(i)])

\* What is in the context was not transcoded yet.
Untouched ==
  \A a \in 1..Len(context.atlasHLS) :
    LET hls == context.atlasHLS[a] IN
    hls.ad.n = 0 /\ \A k \in 1..Len(hls.videos) : hls.videos[k].pay.n = 0

\* The first video of each type, and the atlas data, were transcoded once.
Transcoded ==
  LET hls == context.atlasHLS[1] IN
  /\ hls.ad.n = 1
  /\ \A t \in VideoTypes : videosOfType(context, t) # {} =>
       hls.videos[firstVideo(context, t)].pay.n = IF t \in VideosToTranscode THEN 1 ELSE 0

OutInv ==
  /\ ssvu_out = Output(Finished)
  /\ OutputGofs = [i \in 1..Finished |-> i]
  /\ file = IF pc = "done" THEN ssvu_out ELSE <<>>
  /\ pc \in {"transcode", "encode"} => gofs[CurrentGof].atlases = 1
  /\ pc \in {"decode", "checkProfile", "transcode"} => Untouched
  /\ pc = "encode" => Transcoded

-----------------------------------------------------------------------------
(* The headers of a GOF. *)

\* The headers of the units that carry data of an atlas.
DataHeaders(a) == {h \in HeaderSet : h.type # "VPS" /\ h.atlas = a}

LEMMA VideoHeadersType ==
  ASSUME NEW type \in {"OVD", "GVD", "AVD"}, NEW a \in {0, 1}, NEW g
  PROVE  VideoHeaders(type, a, g) \in Seq(DataHeaders(a))
<1> DEFINE D == DataHeaders(a)
           p == Header(type, a, 0, FALSE)
           q == Header(type, a, 1, FALSE)
           r == Header(type, a, 0, TRUE)
<1>1. p \in D /\ q \in D /\ r \in D
  BY DEF Header, DataHeaders, HeaderSet
<1>2. VideoHeaders(type, a, g) =
        (IF g.multi THEN <<p, q>> ELSE <<p>>) \o (IF g.raw THEN <<r>> ELSE <<>>)
  BY DEF VideoHeaders
<1> HIDE DEF D, p, q, r
<1>3. <<p, q>> \in Seq(D) /\ <<p>> \in Seq(D) /\ <<r>> \in Seq(D) /\ <<>> \in Seq(D)
  BY <1>1
<1> QED
  BY <1>2, <1>3, ConcatProperties DEF D

LEMMA AtlasHeadersType ==
  ASSUME NEW a \in {0, 1}, NEW g
  PROVE  /\ AtlasHeaders(a, g) \in Seq(DataHeaders(a))
         /\ Len(AtlasHeaders(a, g)) >= 2
         /\ AtlasHeaders(a, g)[1] = Header("AD", a, 0, FALSE)
<1> DEFINE D == DataHeaders(a)
           s == <<Header("AD", a, 0, FALSE), Header("OVD", a, 0, FALSE)>>
           t == VideoHeaders("GVD", a, g)
           u == IF g.attrs > 0 THEN VideoHeaders("AVD", a, g) ELSE <<>>
<1>1. s \in Seq(D)
  BY DEF Header, DataHeaders, HeaderSet
<1>2. t \in Seq(D) /\ u \in Seq(D)
  BY VideoHeadersType
<1>3. AtlasHeaders(a, g) = (s \o t) \o u
  BY DEF AtlasHeaders
<1>4. Len(s) = 2 /\ s[1] = Header("AD", a, 0, FALSE)
  OBVIOUS
<1> HIDE DEF s, t, u, D
<1>5. /\ s \o t \in Seq(D) /\ Len(s \o t) = 2 + Len(t)
      /\ (s \o t)[1] = s[1] /\ Len(t) \in Nat /\ Len(u) \in Nat
  <2>1. Len(t) \in Nat /\ Len(u) \in Nat
    BY <1>2
  <2>2. 1 \in 1..Len(s) + Len(t) /\ 1 <= Len(s)
    BY <2>1, <1>4
  <2>3. s \o t \in Seq(D) /\ Len(s \o t) = Len(s) + Len(t) /\ (s \o t)[1] = s[1]
    BY <1>1, <1>2, <2>2, ConcatProperties
  <2> QED
    BY <1>4, <2>1, <2>3
<1>6. /\ (s \o t) \o u \in Seq(D)
      /\ Len((s \o t) \o u) = 2 + Len(t) + Len(u)
      /\ ((s \o t) \o u)[1] = s[1]
  <2>1. 1 \in 1..Len(s \o t) + Len(u) /\ 1 <= Len(s \o t)
    BY <1>5
  <2> QED
    BY <1>2, <1>5, <2>1, ConcatProperties
<1> QED
  BY <1>3, <1>4, <1>5, <1>6 DEF D

LEMMA GofHeadersShape ==
  ASSUME NEW g \in GofShapes
  PROVE  /\ GofHeaders(g) \in Seq(HeaderSet)
         /\ Len(GofHeaders(g)) >= 3
         /\ GofHeaders(g)[1] = Header("VPS", 0, 0, FALSE)
         /\ GofHeaders(g)[2] = Header("AD", 0, 0, FALSE)
         /\ \A k \in 2..Len(GofHeaders(g)) :
              GofHeaders(g)[k].type # "VPS" /\ GofHeaders(g)[k].atlas < g.atlases
<1> DEFINE H == HeaderSet
           D == {h \in HeaderSet : h.type # "VPS" /\ h.atlas < g.atlases}
           v == <<Header("VPS", 0, 0, FALSE)>>
           s == AtlasHeaders(0, g)
           t == IF g.atlases > 1 THEN AtlasHeaders(1, g) ELSE <<>>
           hs == GofHeaders(g)
<1>1. g.atlases \in Nat /\ g.atlases >= 1
  BY GofAssumption
<1>2. DataHeaders(0) \subseteq D /\ (g.atlases > 1 => DataHeaders(1) \subseteq D) /\ D \subseteq H
  BY <1>1 DEF DataHeaders
<1>3. s \in Seq(D) /\ Len(s) >= 2 /\ s[1] = Header("AD", 0, 0, FALSE)
  BY <1>2, AtlasHeadersType, SeqMonotonic
<1>4. t \in Seq(D)
  <2>1. CASE g.atlases > 1
    BY <2>1, <1>2, AtlasHeadersType, SeqMonotonic
  <2>2. CASE ~(g.atlases > 1)
    BY <2>2
  <2> QED
    BY <2>1, <2>2
<1>5. v \in Seq(H) /\ Len(v) = 1 /\ v[1] = Header("VPS", 0, 0, FALSE)
  BY DEF Header, HeaderSet
<1>6. hs = (v \o s) \o t
  BY DEF GofHeaders
<1>7. s \in Seq(H) /\ t \in Seq(H)
  BY <1>2, <1>3, <1>4, SeqMonotonic
<1> HIDE DEF v, s, t, D, H, hs
<1>8. /\ v \o s \in Seq(H) /\ Len(v \o s) = 1 + Len(s) /\ Len(s) \in Nat /\ Len(t) \in Nat
      /\ \A i \in 1..(1 + Len(s)) : (v \o s)[i] = IF i <= 1 THEN v[i] ELSE s[i - 1]
  <2>1. Len(s) \in Nat /\ Len(t) \in Nat
    BY <1>7
  <2>2. /\ v \o s \in Seq(H) /\ Len(v \o s) = Len(v) + Len(s)
        /\ \A i \in 1..Len(v) + Len(s) : (v \o s)[i] = IF i <= Len(v) THEN v[i] ELSE s[i - Len(v)]
    BY <1>5, <1>7, ConcatProperties
  <2> QED
    BY <2>1, <2>2, <1>5
<1>9. /\ hs \in Seq(H) /\ Len(hs) = 1 + Len(s) + Len(t)
      /\ \A i \in 1..(1 + Len(s) + Len(t)) :
            hs[i] = IF i <= 1 + Len(s) THEN (v \o s)[i] ELSE t[i - (1 + Len(s))]
  <2> DEFINE r == v \o s
  <2> HIDE DEF r
  <2>1. r \in Seq(H) /\ Len(r) = 1 + Len(s) /\ hs = r \o t
    BY <1>6, <1>8 DEF r
  <2>2. /\ r \o t \in Seq(H) /\ Len(r \o t) = Len(r) + Len(t)
        /\ \A i \in 1..Len(r) + Len(t) : (r \o t)[i] = IF i <= Len(r) THEN r[i] ELSE t[i - Len(r)]
    BY <2>1, <1>7, ConcatProperties, ZenonT(30)
  <2> QED
    BY <2>1, <2>2, <1>8 DEF r
<1>10. hs[1] = Header("VPS", 0, 0, FALSE) /\ hs[2] = Header("AD", 0, 0, FALSE) /\ Len(hs) >= 3
  <2>1. 1 \in 1..(1 + Len(s) + Len(t)) /\ 2 \in 1..(1 + Len(s) + Len(t)) /\ 1 <= 1 + Len(s)
        /\ 2 <= 1 + Len(s) /\ 1 \in 1..(1 + Len(s)) /\ 2 \in 1..(1 + Len(s))
    BY <1>3, <1>8
  <2>2. hs[1] = v[1] /\ hs[2] = s[2 - 1]
    BY <2>1, <1>8, <1>9
  <2>3. Len(hs) >= 3
    BY <1>3, <1>8, <1>9
  <2>4. 2 - 1 = 1
    OBVIOUS
  <2> QED
    BY <2>2, <2>3, <2>4, <1>3, <1>5, Zenon
<1>11. ASSUME NEW k \in 2..Len(hs) PROVE hs[k] \in D
  <2>1. CASE k <= 1 + Len(s)
    <3>1. k - 1 \in 1..Len(s) /\ hs[k] = s[k - 1]
      BY <2>1, <1>8, <1>9
    <3> QED
      BY <3>1, <1>3, ElementOfSeq
  <2>2. CASE k > 1 + Len(s)
    <3>1. k - (1 + Len(s)) \in 1..Len(t) /\ hs[k] = t[k - (1 + Len(s))]
      BY <2>2, <1>8, <1>9
    <3> QED
      BY <3>1, <1>4, ElementOfSeq
  <2> QED
    BY <2>1, <2>2, <1>8
<1> QED
  BY <1>9, <1>10, <1>11 DEF hs, D, H

-----------------------------------------------------------------------------
(* The input is a well-formed stream. *)

LEMMA ShapeFields ==
  ASSUME NEW g \in GofShapes
  PROVE  /\ g.id \in 0..15
         /\ g.atlases \in Nat /\ g.atlases >= 1 /\ g.atlases <= 64
         /\ g.multi \in BOOLEAN
<1>1. g \in [id : 0..15, atlases : 1..64, multi : BOOLEAN,
             attrs : {0, 1}, raw : BOOLEAN, good : BOOLEAN]
  BY GofAssumption
<1> QED
  BY <1>1

LEMMA InputGofShape ==
  ASSUME NEW gs \in Seq(GofShapes), NEW i \in 1..Len(gs)
  PROVE  /\ IsRest(InputGof(i, gs[i]), gs, i)
         /\ InputGof(i, gs[i]) # <<>>
         /\ InputGof(i, gs[i])[1].header.type = "VPS"
         /\ InputGof(i, gs[i])[1].pay.gof = i
<1> DEFINE g == gs[i]
           hs == GofHeaders(g)
           us == InputGof(i, g)
           n(k) == IF hs[k].type = "AD" THEN 1 ELSE 0
<1>1. g \in GofShapes /\ i \in Nat
  OBVIOUS
<1>2. /\ hs \in Seq(HeaderSet)
      /\ Len(hs) >= 3
      /\ hs[1] = Header("VPS", 0, 0, FALSE)
      /\ hs[2] = Header("AD", 0, 0, FALSE)
      /\ \A k \in 2..Len(hs) : hs[k].type # "VPS" /\ hs[k].atlas < g.atlases
  BY <1>1, GofHeadersShape
<1>3. g.id \in 0..15 /\ g.atlases \in Nat /\ g.atlases >= 1
  BY <1>1, ShapeFields
<1>4. us = [k \in 1..Len(hs) |-> Unit(hs[k], g.id, Payload(i, hs[k].atlas, n(k)))]
  BY <1>2 DEF InputGof
<1> HIDE DEF g, hs, us
<1>5. ASSUME NEW k \in 1..Len(hs)
      PROVE  /\ us[k] \in UnitSet
             /\ us[k].header = hs[k] /\ us[k].pay.gof = i
             /\ us[k].vps = g.id /\ us[k].pay.atlas = hs[k].atlas
             /\ hs[k].type # "AD" => us[k].pay.n = 0
  <2>1. hs[k] \in HeaderSet
    BY <1>2
  <2>2. us[k] = Unit(hs[k], g.id, Payload(i, hs[k].atlas, n(k)))
    BY <1>4
  <2>3. hs[k].atlas \in Nat
    BY <2>1 DEF HeaderSet
  <2> QED
    BY <2>1, <2>2, <2>3, <1>1, <1>3 DEF Unit, Payload, UnitSet, PayloadSet
<1>6. Len(hs) \in Nat /\ us \in Seq(UnitSet) /\ Len(us) = Len(hs) /\ us # <<>>
  <2>1. Len(hs) \in Nat
    BY <1>2
  <2>2. us \in [1..Len(hs) -> UnitSet]
    BY <1>4, <1>5
  <2>3. us \in Seq(UnitSet) /\ Len(us) = Len(hs)
    BY <2>1, <2>2
  <2> QED
    BY <2>1, <2>3, <1>2
<1>7. us[1].header.type = "VPS" /\ us[1].header.atlas = 0 /\ us[1].pay.gof = i
  <2>1. 1 \in 1..Len(hs)
    BY <1>2, <1>6
  <2>2. us[1].header = hs[1] /\ us[1].pay.gof = i
    BY <2>1, <1>5
  <2> QED
    BY <2>2, <1>2 DEF Header
<1>8. us[2].header.type = "AD" /\ us[2].header.atlas = 0
  BY <1>2, <1>5, <1>6 DEF Header
<1>9. \A k \in 2..Len(us) : us[k].header.type # "VPS" /\ us[k].header.atlas < g.atlases
  BY <1>2, <1>5, <1>6
<1>10. \A k \in 1..Len(us) : IsUnit(us[k], gs)
  <2> SUFFICES ASSUME NEW k \in 1..Len(us) PROVE IsUnit(us[k], gs)
    OBVIOUS
  <2>1. k = 1 \/ k \in 2..Len(us)
    BY <1>6
  <2>2. us[k].header.atlas < g.atlases
    BY <2>1, <1>3, <1>7, <1>9
  <2> QED
    BY <2>2, <1>5, <1>6 DEF IsUnit, g
<1>11. \A k \in 2..Len(us) : Follows(us[k - 1], us[k])
  <2> SUFFICES ASSUME NEW k \in 2..Len(us) PROVE Follows(us[k - 1], us[k])
    OBVIOUS
  <2>1. k \in 1..Len(us) /\ k - 1 \in 1..Len(us) /\ (k # 2 => k - 1 \in 2..Len(us))
    BY <1>6
  <2>2. us[k].pay.gof = i /\ us[k - 1].pay.gof = i
    BY <2>1, <1>5, <1>6
  <2> QED
    BY <2>1, <2>2, <1>8, <1>9 DEF Follows
<1>12. us[Len(us)].header.type # "VPS" /\ us[Len(us)].pay.gof = i
  <2>1. Len(us) \in 2..Len(us) /\ Len(us) \in 1..Len(hs)
    BY <1>2, <1>6
  <2> QED
    BY <2>1, <1>5, <1>9
<1> QED
  BY <1>6, <1>7, <1>10, <1>11, <1>12 DEF IsRest, us, g

\* One more GOF at the end of a stream.
LEMMA StreamConcat ==
  ASSUME NEW gs, NEW m \in Nat, NEW s, NEW t,
         IsStream(s, gs, m), IsRest(t, gs, m + 1),
         t # <<>>, t[1].header.type = "VPS", t[1].pay.gof = m + 1
  PROVE  IsStream(s \o t, gs, m + 1)
<1> DEFINE r == s \o t
<1>1. s \in Seq(UnitSet) /\ t \in Seq(UnitSet)
  BY DEF IsStream, IsRest
<1>2. Len(s) \in Nat /\ Len(t) \in Nat /\ Len(t) >= 1
  BY <1>1
<1>3. /\ r \in Seq(UnitSet) /\ Len(r) = Len(s) + Len(t)
      /\ \A k \in 1..Len(s) + Len(t) : r[k] = IF k <= Len(s) THEN s[k] ELSE t[k - Len(s)]
  BY <1>1, ConcatProperties
<1> HIDE DEF r
<1>4. \A k \in 1..Len(r) : IsUnit(r[k], gs)
  <2> SUFFICES ASSUME NEW k \in 1..Len(r) PROVE IsUnit(r[k], gs)
    OBVIOUS
  <2>1. CASE k <= Len(s)
    BY <2>1, <1>2, <1>3 DEF IsStream, IsRest
  <2>2. CASE k > Len(s)
    <3>1. r[k] = t[k - Len(s)] /\ k - Len(s) \in 1..Len(t)
      BY <2>2, <1>2, <1>3
    <3> QED
      BY <3>1 DEF IsRest
  <2> QED
    BY <2>1, <2>2, <1>2
<1>5. \A k \in 2..Len(r) : Follows(r[k - 1], r[k])
  <2> SUFFICES ASSUME NEW k \in 2..Len(r) PROVE Follows(r[k - 1], r[k])
    OBVIOUS
  <2>1. CASE k <= Len(s)
    <3>1. r[k] = s[k] /\ r[k - 1] = s[k - 1] /\ k \in 2..Len(s)
      BY <2>1, <1>2, <1>3
    <3> QED
      BY <3>1 DEF IsStream, IsRest
  <2>2. CASE k = Len(s) + 1
    <3>1. r[k] = t[1] /\ r[k - 1] = s[Len(s)] /\ s # <<>>
      BY <2>2, <1>1, <1>2, <1>3
    <3>2. s[Len(s)].header.type # "VPS" /\ s[Len(s)].pay.gof = m
      BY <3>1 DEF IsStream, IsRest
    <3> QED
      BY <3>1, <3>2 DEF Follows
  <2>3. CASE k > Len(s) + 1
    <3>1. /\ r[k] = t[k - Len(s)] /\ r[k - 1] = t[(k - Len(s)) - 1]
          /\ k - Len(s) \in 2..Len(t)
      BY <2>3, <1>2, <1>3, SMTT(30)
    <3> QED
      BY <3>1 DEF IsRest
  <2> QED
    BY <2>1, <2>2, <2>3, <1>2
<1>6. r[Len(r)] = t[Len(t)] /\ r # <<>>
  BY <1>2, <1>3
<1>7. t[Len(t)].header.type # "VPS" /\ t[Len(t)].pay.gof = m + 1
  BY DEF IsRest
<1>8. r[1].header.type = "VPS" /\ r[1].pay.gof = 1
  <2>1. CASE m = 0
    <3>1. s = <<>> /\ Len(s) = 0
      BY <2>1 DEF IsStream
    <3>2. r[1] = t[1]
      BY <3>1, <1>2, <1>3
    <3> QED
      BY <3>2, <2>1
  <2>2. CASE m # 0
    <3>1. s # <<>> /\ s[1].header.type = "VPS" /\ s[1].pay.gof = 1
      BY <2>2 DEF IsStream
    <3>2. r[1] = s[1]
      BY <3>1, <1>1, <1>2, <1>3
    <3> QED
      BY <3>1, <3>2
  <2> QED
    BY <2>1, <2>2
<1>9. IsRest(r, gs, m + 1)
  BY <1>3, <1>4, <1>5, <1>6, <1>7 DEF IsRest
<1> QED
  BY <1>6, <1>8, <1>9 DEF IsStream, r

\* The whole stream.
LEMMA StreamIsStream ==
  ASSUME NEW gs \in Seq(GofShapes)
  PROVE  IsStream(StreamUnits(gs), gs, Len(gs))
<1> DEFINE n == Len(gs)
           sq(m) == [i \in 1..m |-> InputGof(i, gs[i])]
           T == {m \in 0..n : IsStream(FlattenSeq(sq(m)), gs, m)}
<1>1. n \in Nat /\ DOMAIN gs = 1..n
  OBVIOUS
<1>2. \A i \in 1..n : InputGof(i, gs[i]) \in Seq(UnitSet)
  BY InputGofShape DEF IsRest
<1>3. ASSUME NEW m \in 0..n PROVE sq(m) \in Seq(Seq(UnitSet)) /\ Len(sq(m)) = m
  <2> DEFINE Q == Seq(UnitSet)
             f == sq(m)
  <2>1. m \in Nat /\ \A i \in 1..m : InputGof(i, gs[i]) \in Q
    BY <1>1, <1>2
  <2>2. f \in [1..m -> Q]
    BY <2>1
  <2> HIDE DEF f, Q
  <2>3. f \in Seq(Q) /\ Len(f) = m
    BY <2>1, <2>2
  <2> QED
    BY <2>3 DEF f, Q
<1>4. 0 \in T
  <2>1. sq(0) = <<>>
    OBVIOUS
  <2>2. FlattenSeq(sq(0)) = <<>>
    BY <2>1 DEF FlattenSeq
  <2>3. IsStream(<<>>, gs, 0)
    BY DEF IsStream, IsRest
  <2> QED
    BY <2>2, <2>3, <1>1
<1>5. ASSUME NEW m \in 0..n, m \in T, m < n PROVE m + 1 \in T
  <2> DEFINE f == sq(m)
             h == sq(m + 1)
             t == InputGof(m + 1, gs[m + 1])
  <2>1. m \in Nat /\ m + 1 \in 0..n /\ m + 1 \in 1..n
    BY <1>1, <1>5
  <2>2. f \in Seq(Seq(UnitSet)) /\ Len(f) = m /\ h \in Seq(Seq(UnitSet)) /\ Len(h) = m + 1
    BY <1>3, <2>1
  <2>3. (\A i \in 1..m : h[i] = f[i]) /\ h[m + 1] = t
    BY <2>1
  <2> HIDE DEF f, h, t
  <2>4. FlattenSeq(h) = FlattenSeq(f) \o t
    BY <2>1, <2>2, <2>3, FlattenAppend
  <2>5. IsStream(FlattenSeq(f), gs, m)
    BY <1>5 DEF f
  <2>6. IsRest(t, gs, m + 1) /\ t # <<>> /\ t[1].header.type = "VPS" /\ t[1].pay.gof = m + 1
    BY <2>1, InputGofShape DEF t
  <2>7. IsStream(FlattenSeq(h), gs, m + 1)
    BY <2>1, <2>4, <2>5, <2>6, StreamConcat
  <2> QED
    BY <2>1, <2>7 DEF h
<1>6. \A m \in 0..n : m \in T
  <2> HIDE DEF T
  <2> QED
    BY <1>1, <1>4, <1>5, IntervalInduction
<1>7. IsStream(FlattenSeq(sq(n)), gs, n)
  <2>1. n \in 0..n
    BY <1>1
  <2> QED
    BY <2>1, <1>6
<1> QED
  BY <1>1, <1>7 DEF StreamUnits

\* A stream without one of its videos.
LEMMA RemoveVideo ==
  ASSUME NEW gs, NEW m \in Nat, NEW s, IsStream(s, gs, m), NEW k \in 1..Len(s),
         s[k].header.type \notin {"VPS", "AD"}
  PROVE  IsStream(RemoveAt(s, k), gs, m)
<1> DEFINE r == RemoveAt(s, k)
           n == Len(s)
<1>1. s \in Seq(UnitSet) /\ n \in Nat /\ k \in Nat /\ k >= 1 /\ k <= n
  BY DEF IsStream, IsRest
<1>2. m # 0 /\ s[1].header.type = "VPS" /\ s[1].pay.gof = 1
  BY <1>1 DEF IsStream
<1>3. k > 1
  BY <1>1, <1>2
<1>4. /\ r \in Seq(UnitSet) /\ Len(r) = n - 1
      /\ \A i \in 1..(n - 1) : r[i] = IF i < k THEN s[i] ELSE s[i + 1]
  <2> DEFINE a == SubSeq(s, 1, k - 1)
             b == SubSeq(s, k + 1, n)
  <2>1. /\ a \in Seq(UnitSet) /\ Len(a) = k - 1
        /\ \A i \in 1..(k - 1) : a[i] = s[i]
    BY <1>1, <1>3, SubSeqProperties
  <2>2. /\ b \in Seq(UnitSet) /\ Len(b) = n - k
        /\ \A i \in 1..(n - k) : b[i] = s[k + i]
    <3>1. \A i \in (k + 1)..n : s[i] \in UnitSet
      BY <1>1
    <3>2. /\ b \in Seq(UnitSet)
          /\ Len(b) = IF k + 1 <= n THEN n - (k + 1) + 1 ELSE 0
          /\ \A i \in 1..(n - (k + 1) + 1) : b[i] = s[k + 1 + i - 1]
      BY <1>1, <3>1, SubSeqProperties
    <3> HIDE DEF b
    <3> QED
      BY <1>1, <3>2
  <2>3. r = a \o b
    BY DEF RemoveAt
  <2> HIDE DEF a, b, r
  <2>4. /\ r \in Seq(UnitSet) /\ Len(r) = Len(a) + Len(b)
        /\ \A i \in 1..Len(a) + Len(b) : r[i] = IF i <= Len(a) THEN a[i] ELSE b[i - Len(a)]
    BY <2>1, <2>2, <2>3, ConcatProperties
  <2> HIDE DEF n
  <2>5. ASSUME NEW i \in 1..(n - 1) PROVE r[i] = IF i < k THEN s[i] ELSE s[i + 1]
    <3> i \in 1..Len(a) + Len(b) /\ Len(a) = k - 1
      BY <1>1, <2>1, <2>2
    <3>1. CASE i < k
      BY <3>1, <1>1, <2>1, <2>2, <2>4
    <3>2. CASE i >= k
      <4>1. i - (k - 1) \in 1..(n - k) /\ k + (i - (k - 1)) = i + 1
        BY <3>2, <1>1
      <4>2. r[i] = b[i - (k - 1)]
        BY <3>2, <1>1, <2>1, <2>2, <2>4
      <4> QED
        BY <3>2, <4>1, <4>2, <2>2, <1>1, SMTT(30)
    <3> QED
      BY <3>1, <3>2, <1>1
  <2> QED
    BY <2>1, <2>2, <2>4, <2>5, <1>1
<1> HIDE DEF r, n
<1>5. /\ \A i \in 1..n : IsUnit(s[i], gs)
      /\ \A i \in 2..n : Follows(s[i - 1], s[i])
      /\ s[n].header.type # "VPS" /\ s[n].pay.gof = m
  BY <1>1 DEF IsStream, IsRest, n
<1>6. s[k].pay.gof = s[k - 1].pay.gof /\ s[k - 1].header.type # "VPS"
  <2>1. Follows(s[k - 1], s[k])
    BY <1>1, <1>3, <1>5
  <2> QED
    BY <2>1 DEF Follows
<1>7. \A i \in 1..Len(r) : IsUnit(r[i], gs)
  BY <1>1, <1>4, <1>5, SMTT(30)
<1>8. \A i \in 2..Len(r) : Follows(r[i - 1], r[i])
  <2> SUFFICES ASSUME NEW i \in 2..Len(r) PROVE Follows(r[i - 1], r[i])
    OBVIOUS
  <2>1. CASE i < k
    <3>1. r[i] = s[i] /\ r[i - 1] = s[i - 1] /\ i \in 2..n
      BY <2>1, <1>1, <1>4
    <3> QED
      BY <3>1, <1>5
  <2>2. CASE i = k
    <3>1. r[i] = s[k + 1] /\ r[i - 1] = s[k - 1] /\ k + 1 \in 2..n /\ (k + 1) - 1 = k
      BY <2>2, <1>1, <1>3, <1>4
    <3>2. Follows(s[k], s[k + 1])
      BY <3>1, <1>5
    <3> QED
      BY <3>1, <3>2, <1>6 DEF Follows
  <2>3. CASE i > k
    <3>1. r[i] = s[i + 1] /\ r[i - 1] = s[(i + 1) - 1] /\ i + 1 \in 2..n
      BY <2>3, <1>1, <1>4
    <3> QED
      BY <3>1, <1>5
  <2> QED
    BY <2>1, <2>2, <2>3, <1>1
<1>9. /\ r # <<>>
      /\ r[1].header.type = "VPS" /\ r[1].pay.gof = 1
      /\ r[Len(r)].header.type # "VPS" /\ r[Len(r)].pay.gof = m
  <2>1. n - 1 \in 1..(n - 1) /\ 1 \in 1..(n - 1)
    BY <1>1, <1>3
  <2>2. r[1] = s[1] /\ r # <<>>
    BY <2>1, <1>2, <1>3, <1>4
  <2>3. CASE k = n
    <3>1. r[n - 1] = s[k - 1]
      BY <2>1, <2>3, <1>1, <1>4
    <3> QED
      BY <3>1, <2>2, <2>3, <1>2, <1>4, <1>5, <1>6
  <2>4. CASE k < n
    <3>1. r[n - 1] = s[n]
      BY <2>1, <2>4, <1>1, <1>4
    <3> QED
      BY <3>1, <2>2, <1>2, <1>4, <1>5
  <2> QED
    BY <2>3, <2>4, <1>1 DEF n
<1>10. IsRest(r, gs, m)
  BY <1>4, <1>7, <1>8, <1>9 DEF IsRest
<1> QED
  BY <1>2, <1>9, <1>10 DEF IsStream, r

\* What read() puts in ssvu_in.
LEMMA InputIsStream ==
  ASSUME NEW gs \in Seq(GofShapes), NEW k \in {0} \cup Losable(gs)
  PROVE  IsStream(InputUnits(gs, k), gs, Len(gs))
<1>1. IsStream(StreamUnits(gs), gs, Len(gs))
  BY StreamIsStream
<1>2. CASE k = 0
  BY <1>1, <1>2 DEF InputUnits
<1>3. CASE k # 0
  <2> DEFINE s == StreamUnits(gs)
  <2> HIDE DEF s
  <2>1. s \in Seq(UnitSet) /\ IsStream(s, gs, Len(gs)) /\ Len(gs) \in Nat
    <3>1. IsStream(s, gs, Len(gs))
      BY <1>1 DEF s
    <3> QED
      BY <3>1 DEF IsStream, IsRest
  <2>2. k \in DOMAIN s /\ s[k].header.type \notin {"VPS", "AD"}
    BY <1>3 DEF Losable, s
  <2>3. k \in 1..Len(s)
    BY <2>1, <2>2
  <2>4. IsStream(RemoveAt(s, k), gs, Len(gs))
    BY <2>1, <2>2, <2>3, RemoveVideo
  <2> QED
    BY <2>4, <1>3 DEF InputUnits, s
<1> QED
  BY <1>2, <1>3

-----------------------------------------------------------------------------
(* Steps of the decoder on the stream. *)

LEMMA AppendOne ==
  ASSUME NEW x, NEW y
  PROVE  Append(<<x>>, y) = <<x, y>>
<1> DEFINE S == {x, y}
           s == Append(<<x>>, y)
<1>1. s \in Seq(S) /\ <<x, y>> \in Seq(S) /\ Len(s) = 2 /\ Len(<<x, y>>) = 2
  OBVIOUS
<1>2. s[1] = x /\ s[2] = y /\ <<x, y>>[1] = x /\ <<x, y>>[2] = y
  OBVIOUS
<1> HIDE DEF s, S
<1> DEFINE t == <<x, y>>
<1> HIDE DEF t
<1>3. s \in Seq(S) /\ t \in Seq(S) /\ Len(s) = Len(t) /\ \A i \in 1..Len(s) : s[i] = t[i]
  BY <1>1, <1>2 DEF t
<1>4. s = t
  BY <1>3, SeqEqual
<1> QED
  BY <1>4 DEF s, t

\* Consuming the first unit.
LEMMA RestTail ==
  ASSUME NEW gs, NEW m, NEW s, IsRest(s, gs, m), s # <<>>
  PROVE  /\ IsRest(Tail(s), gs, m)
         /\ Head(s) = s[1] /\ s[1] \in UnitSet /\ IsUnit(s[1], gs)
         /\ IF Tail(s) = <<>>
              THEN s[1].header.type # "VPS" /\ s[1].pay.gof = m
              ELSE Follows(s[1], Tail(s)[1]) /\ Tail(s)[1] \in UnitSet
<1> DEFINE t == Tail(s)
<1>1. s \in Seq(UnitSet) /\ Len(s) \in Nat /\ Len(s) >= 1
  BY DEF IsRest
<1>2. /\ t \in Seq(UnitSet) /\ Len(t) = Len(s) - 1
      /\ \A i \in 1..Len(t) : t[i] = s[i + 1]
  BY <1>1, HeadTailProperties
<1>3. Head(s) = s[1] /\ s[1] \in UnitSet
  BY <1>1
<1> HIDE DEF t
<1>4. /\ \A i \in 1..Len(s) : IsUnit(s[i], gs)
      /\ \A i \in 2..Len(s) : Follows(s[i - 1], s[i])
      /\ s[Len(s)].header.type # "VPS" /\ s[Len(s)].pay.gof = m
  BY DEF IsRest
<1>5. \A i \in 1..Len(t) : IsUnit(t[i], gs)
  BY <1>1, <1>2, <1>4, SMTT(30)
<1>6. \A i \in 2..Len(t) : Follows(t[i - 1], t[i])
  <2> SUFFICES ASSUME NEW i \in 2..Len(t) PROVE Follows(t[i - 1], t[i])
    OBVIOUS
  <2>1. t[i] = s[i + 1] /\ t[i - 1] = s[(i + 1) - 1] /\ i + 1 \in 2..Len(s)
    BY <1>1, <1>2
  <2> QED
    BY <2>1, <1>4
<1>7. CASE t = <<>>
  <2>1. Len(s) = 1
    BY <1>1, <1>2, <1>7
  <2> QED
    BY <2>1, <1>2, <1>3, <1>4, <1>5, <1>6, <1>7 DEF IsRest, t
<1>8. CASE t # <<>>
  <2>1. Len(t) >= 1 /\ Len(t) \in Nat
    BY <1>2, <1>8
  <2>2. t[1] = s[2] /\ t[Len(t)] = s[Len(s)] /\ 2 \in 2..Len(s) /\ 2 - 1 = 1
    BY <2>1, <1>1, <1>2
  <2>3. Follows(s[1], t[1])
    BY <2>2, <1>4
  <2>4. IsRest(t, gs, m)
    BY <2>2, <1>2, <1>4, <1>5, <1>6 DEF IsRest
  <2>5. t[1] \in UnitSet
    BY <2>1, <1>2
  <2> QED
    BY <2>3, <2>4, <2>5, <1>1, <1>3, <1>4, <1>8 DEF t
<1> QED
  BY <1>7, <1>8

\* getVps() takes the first parameter set with the active id.
LEMMA FirstVpsActive ==
  ASSUME NEW c, NEW i, c.vpsList = <<i>> \/ \E j : c.vpsList = <<i, j>>,
         gofs[i].id = c.activeVPS
  PROVE  getVps(c) = i
<1> DEFINE P == activeVpsPositions(c)
<1>1. c.vpsList[1] = i /\ DOMAIN c.vpsList \subseteq {1, 2} /\ 1 \in DOMAIN c.vpsList
  OBVIOUS
<1>2. P \subseteq {1, 2} /\ 1 \in P
  BY <1>1 DEF activeVpsPositions
<1> HIDE DEF P
<1>3. \A k \in P : (\A j \in P : k <= j) <=> k = 1
  <2>1. \A j \in P : 1 <= j
    BY <1>2
  <2>2. ASSUME NEW k \in P, \A j \in P : k <= j PROVE k = 1
    <3>1. k <= 1 /\ k \in {1, 2}
      BY <1>2, <2>2
    <3> QED
      BY <3>1
  <2> QED
    BY <2>1, <2>2
<1>4. (CHOOSE k \in P : \A j \in P : k <= j) = 1
  BY <1>2, <1>3
<1> QED
  BY <1>1, <1>4 DEF getVps, P

\* The type a video unit gets.
LEMMA VideoTypeType ==
  ASSUME NEW h \in HeaderSet, NEW g
  PROVE  videoType(h, g) \in VideoTypes
<1>1. h.map \in {0, 1}
  BY DEF HeaderSet
<1> QED
  BY <1>1 DEF videoType, VideoTypes, RAW

-----------------------------------------------------------------------------
(* The invariant holds initially, and every step preserves it. *)

LEMMA InitIInv == Init => IInv
<1> SUFFICES ASSUME Init PROVE IInv
  OBVIOUS
<1>1. PICK n \in 0..MaxGofs : gofs \in [1..n -> GofShapes]
  BY DEF Init
<1>2. n \in Nat /\ MaxGofs \in Nat
  BY <1>1, GofAssumption
<1>3. gofs \in Seq(GofShapes) /\ Len(gofs) = n
  BY <1>1, <1>2
<1>4. lost \in {0} \cup Losable(gofs)
  BY DEF Init
<1>5. IsStream(ssvu_in, gofs, Len(gofs))
  BY <1>3, <1>4, InputIsStream DEF Init
<1>6. context \in ContextSet
  BY DEF Init, NewContext, ContextSet
<1>7. stat = <<0>> /\ Len(stat) = 1 /\ stat \in Seq(Nat) /\ stat # <<>>
  BY DEF Init
<1>8. Types
  BY <1>1, <1>2, <1>3, <1>5, <1>6, <1>7 DEF Types, IsStream, Init
<1>9. StatCountsOwnVps
  BY <1>7 DEF StatCountsOwnVps, CurrentGof, Init
<1>10. BeforeVps
  <2>1. CASE Len(gofs) = 0
    <3>1. ssvu_in = <<>> /\ gofs = <<>>
      BY <2>1, <1>3, <1>5 DEF IsStream
    <3> QED
      BY <3>1, <1>7 DEF BeforeVps, CurrentGof, Init
  <2>2. CASE Len(gofs) # 0
    <3>1. ssvu_in # <<>> /\ ssvu_in[1].header.type = "VPS" /\ ssvu_in[1].pay.gof = 1
      BY <2>2, <1>5 DEF IsStream
    <3> QED
      BY <3>1, <1>7 DEF BeforeVps, CurrentGof, Init
  <2> QED
    BY <2>1, <2>2
<1> QED
  BY <1>8, <1>9, <1>10 DEF IInv, Looping, Init

\* A step that takes the units, the context and the GOF as they are.
LEMMA QuietStep ==
  ASSUME IInv,
         UNCHANGED <<gofs, lost, params, ssvu_in, context, numVPS, stat>>,
         pc' \in {"checkProfile", "transcode", "write", "done", "refused", "exit", "codecExit"},
         atlId' \in 0..64, Looping',
         numVPS = 0 => ssvu_in = <<>> /\ pc' \in {"checkProfile", "refused"},
         numVPS = 1 => Active /\ ssvu_in = <<>>,
         numVPS = 2 => pc' \notin {"write", "done"}
  PROVE  IInv'
<1>1. Types'
  BY DEF IInv, Types, IsRest
<1>2. StatCountsOwnVps'
  BY DEF IInv, StatCountsOwnVps, CurrentGof
<1>3. CASE numVPS = 0
  BY <1>1, <1>2, <1>3 DEF IInv, BeforeVps, CurrentGof
<1>4. CASE numVPS # 0
  <2>1. OwnData'
    BY <1>4 DEF IInv, AfterVps, OwnData, CurrentGof
  <2>2. numVPS = 1 \/ numVPS = 2
    BY <1>4 DEF IInv, Types
  <2>3. (IF numVPS = 1 THEN OwnVps ELSE PeekedVps)'
    BY <1>4, <2>2 DEF IInv, AfterVps, OwnVps, PeekedVps, CurrentGof
  <2>4. Active'
    <3>1. Active
      BY <1>4, <2>2 DEF IInv, AfterVps, PeekedVps
    <3> QED
      BY <3>1 DEF Active, CurrentGof
  <2>5. AfterVps'
    BY <1>4, <2>1, <2>3, <2>4 DEF IInv, AfterVps, LastVps, CurrentGof
  <2> QED
    BY <1>1, <1>2, <1>4, <2>5 DEF IInv
<1> QED
  BY <1>3, <1>4

\* Outside decode the parameter set of the GOF is active.
LEMMA OwnVpsActive ==
  ASSUME IInv, pc # "decode", numVPS # 0
  PROVE  /\ Active /\ getVps(context) = CurrentGof
         /\ numVPS = 1 => ssvu_in = <<>>
<1>1. AfterVps /\ Active
  BY DEF IInv, AfterVps
<1>2. context.vpsList = <<CurrentGof>> \/ context.vpsList = <<CurrentGof, CurrentGof + 1>>
  BY <1>1 DEF AfterVps, OwnVps, PeekedVps
<1>3. getVps(context) = CurrentGof
  BY <1>1, <1>2, FirstVpsActive DEF Active
<1> QED
  BY <1>1, <1>3 DEF AfterVps, OwnVps

LEMMA DecodeEndIInv == IInv /\ DecodeEnd => IInv'
<1> SUFFICES ASSUME IInv, DecodeEnd PROVE IInv'
  OBVIOUS
<1>1. numVPS = 1 => Active
  BY DEF IInv, AfterVps, DecodeEnd
<1>2. numVPS # 2
  BY DEF IInv, AfterVps, PeekedVps, DecodeEnd
<1>3. Looping'
  BY DEF DecodeEnd, Looping
<1>4. atlId' \in 0..64
  BY DEF IInv, Types, DecodeEnd
<1> QED
  BY <1>1, <1>2, <1>3, <1>4, QuietStep DEF DecodeEnd

LEMMA ProfileRefusedIInv == IInv /\ ProfileRefused => IInv'
<1> SUFFICES ASSUME IInv, ProfileRefused PROVE IInv'
  OBVIOUS
<1>1. numVPS = 1 => Active /\ ssvu_in = <<>>
  BY OwnVpsActive DEF ProfileRefused
<1>2. numVPS = 0 => ssvu_in = <<>>
  BY DEF IInv, BeforeVps, ProfileRefused
<1>3. Looping'
  BY DEF ProfileRefused, Looping
<1>4. atlId' \in 0..64
  BY DEF IInv, Types, ProfileRefused
<1> QED
  BY <1>1, <1>2, <1>3, <1>4, QuietStep DEF ProfileRefused

LEMMA ProfileAcceptedIInv == IInv /\ ProfileAccepted => IInv'
<1> SUFFICES ASSUME IInv, ProfileAccepted PROVE IInv'
  OBVIOUS
<1>1. Len(context.atlasHLS) = 1
  BY DEF ProfileAccepted, checkProfile
<1>2. numVPS # 0
  <2>1. NewContext.atlasHLS = <<>> /\ Len(<<>>) = 0
    BY DEF NewContext
  <2>2. context # NewContext
    BY <2>1, <1>1
  <2> QED
    BY <2>2 DEF IInv, BeforeVps
<1>3. numVPS = 1 => Active /\ ssvu_in = <<>>
  BY OwnVpsActive DEF ProfileAccepted
<1>4. 0 < gofs[CurrentGof].atlases
  <2>1. gofs \in Seq(GofShapes) /\ CurrentGof \in 1..Len(gofs)
    BY <1>2 DEF IInv, Types, AfterVps
  <2>2. gofs[CurrentGof] \in GofShapes
    BY <2>1
  <2> QED
    BY <2>2, ShapeFields
<1>5. Looping'
  BY <1>1, <1>2, <1>4 DEF ProfileAccepted, Looping, IInv, Types, CurrentGof
<1>6. atlId' \in 0..64
  BY DEF ProfileAccepted
<1> QED
  BY <1>2, <1>3, <1>5, <1>6, QuietStep DEF ProfileAccepted

LEMMA ExitsIInv == IInv /\ (TranscodeExits \/ CodecExits \/ EncodeExits) => IInv'
<1> SUFFICES ASSUME IInv, TranscodeExits \/ CodecExits \/ EncodeExits PROVE IInv'
  OBVIOUS
<1>1. /\ UNCHANGED <<gofs, lost, params, ssvu_in, context, numVPS, stat, atlId>>
      /\ pc \in {"transcode", "encode"} /\ pc' \in {"exit", "codecExit"}
  BY DEF TranscodeExits, CodecExits, EncodeExits
<1>2. numVPS # 0
  BY <1>1 DEF IInv, Looping, Types
<1>3. numVPS = 1 => Active /\ ssvu_in = <<>>
  BY <1>1, OwnVpsActive
<1>4. Looping'
  BY <1>1 DEF Looping
<1>5. atlId' \in 0..64
  BY <1>1 DEF IInv, Types
<1> QED
  BY <1>1, <1>2, <1>3, <1>4, <1>5, QuietStep

LEMMA WriteIInv == IInv /\ write => IInv'
<1> SUFFICES ASSUME IInv, write PROVE IInv'
  OBVIOUS
<1>1. numVPS = 1 /\ ssvu_in = <<>>
  BY DEF IInv, Looping, write
<1>2. Active
  BY <1>1, OwnVpsActive DEF write
<1>3. Looping'
  BY <1>1 DEF Looping, write
<1>4. atlId' \in 0..64
  BY DEF IInv, Types, write
<1> QED
  BY <1>1, <1>2, <1>3, <1>4, QuietStep DEF write

\* resize() keeps what is there and adds empty atlases.
LEMMA Allocate ==
  ASSUME NEW c \in ContextSet, NEW size \in Nat
  PROVE  LET d == allocateAtlasHLS(c, size) IN
         /\ d \in ContextSet
         /\ d.vpsList = c.vpsList /\ d.activeVPS = c.activeVPS /\ d.atlasIndex = 0
         /\ Len(d.atlasHLS) = size
         /\ \A k \in 1..size :
              d.atlasHLS[k] = IF k <= Len(c.atlasHLS) THEN c.atlasHLS[k] ELSE EmptyHLS
<1> DEFINE f == [k \in 1..size |-> IF k <= Len(c.atlasHLS) THEN c.atlasHLS[k] ELSE EmptyHLS]
           d == allocateAtlasHLS(c, size)
<1>1. EmptyHLS \in HLSSet
  BY DEF EmptyHLS, HLSSet, NoAtlasData, Payload, PayloadSet
<1>2. c.atlasHLS \in Seq(HLSSet)
  BY DEF ContextSet
<1>3. f \in [1..size -> HLSSet]
  BY <1>1, <1>2
<1>4. f \in Seq(HLSSet) /\ Len(f) = size
  BY <1>3
<1>5. \A k \in 1..size : f[k] = IF k <= Len(c.atlasHLS) THEN c.atlasHLS[k] ELSE EmptyHLS
  OBVIOUS
<1>6. d = [c EXCEPT !.atlasHLS = f, !.atlasIndex = 0]
  BY DEF allocateAtlasHLS
<1> HIDE DEF f, d
<1>7. /\ d \in ContextSet
      /\ d.vpsList = c.vpsList /\ d.activeVPS = c.activeVPS /\ d.atlasIndex = 0
      /\ d.atlasHLS = f
  BY <1>4, <1>6 DEF ContextSet
<1> QED
  BY <1>4, <1>5, <1>7 DEF d

\* Reading the VPS of GOF i.
LEMMA ParseVps ==
  ASSUME context \in ContextSet, gofs \in Seq(GofShapes),
         NEW u, u.pay.gof \in 1..Len(gofs), parseVPS(u)
  PROVE  LET i == u.pay.gof IN
         /\ context' \in ContextSet
         /\ context'.vpsList = Append(context.vpsList, i)
         /\ context'.activeVPS = context.activeVPS /\ context'.atlasIndex = 0
         /\ Len(context'.atlasHLS) = gofs[i].atlases
         /\ gofs[i].atlases \in Nat /\ gofs[i].atlases >= 1
         /\ \A k \in 1..gofs[i].atlases :
              context'.atlasHLS[k] = IF k <= Len(context.atlasHLS) THEN context.atlasHLS[k] ELSE EmptyHLS
         /\ numVPS' = numVPS + 1
<1> DEFINE i == u.pay.gof
           c == [context EXCEPT !.vpsList = Append(@, i)]
<1>1. gofs[i] \in GofShapes /\ i \in Nat
  OBVIOUS
<1>2. gofs[i].atlases \in Nat /\ gofs[i].atlases >= 1
  BY <1>1, ShapeFields
<1>3. context.vpsList \in Seq(Nat)
  BY DEF ContextSet
<1>4. Append(context.vpsList, i) \in Seq(Nat)
  BY <1>1, <1>3
<1>5. /\ c \in ContextSet /\ c.vpsList = Append(context.vpsList, i)
      /\ c.activeVPS = context.activeVPS /\ c.atlasHLS = context.atlasHLS
  BY <1>4 DEF ContextSet
<1>6. context' = allocateAtlasHLS(c, gofs[i].atlases) /\ numVPS' = numVPS + 1
  BY DEF parseVPS
<1> HIDE DEF c, i
<1>7. /\ context' \in ContextSet
      /\ context'.vpsList = c.vpsList /\ context'.activeVPS = c.activeVPS /\ context'.atlasIndex = 0
      /\ Len(context'.atlasHLS) = gofs[i].atlases
      /\ \A k \in 1..gofs[i].atlases :
            context'.atlasHLS[k] = IF k <= Len(c.atlasHLS) THEN c.atlasHLS[k] ELSE EmptyHLS
  BY <1>2, <1>5, <1>6, Allocate
<1> QED
  BY <1>2, <1>5, <1>6, <1>7 DEF i

LEMMA DecodeFirstVPSIInv == IInv /\ DecodeFirstVPS => IInv'
<1> SUFFICES ASSUME IInv, DecodeFirstVPS PROVE IInv'
  OBVIOUS
<1> DEFINE u == ssvu_in[1]
           i == CurrentGof
           t == Tail(ssvu_in)
<1>1. numVPS = 0 /\ pc = "decode" /\ ssvu_in # <<>> /\ pc' = pc /\ ssvu_in' = t
      /\ UNCHANGED <<gofs, lost, params, atlId>>
  BY DEF DecodeFirstVPS
<1>2. IsRest(ssvu_in, gofs, Len(gofs)) /\ gofs \in Seq(GofShapes) /\ context \in ContextSet
  BY DEF IInv, Types
<1>3. /\ IsRest(t, gofs, Len(gofs)) /\ Head(ssvu_in) = u /\ IsUnit(u, gofs)
      /\ IF t = <<>> THEN u.header.type # "VPS" ELSE Follows(u, t[1]) /\ t[1] \in UnitSet
  BY <1>1, <1>2, RestTail
<1>4. context = NewContext /\ u.header.type = "VPS" /\ u.pay.gof = i
  BY <1>1 DEF IInv, BeforeVps
<1>5. i \in 1..Len(gofs)
  BY <1>3, <1>4 DEF IsUnit
<1>6. t # <<>> /\ t[1].header.type = "AD" /\ t[1].header.atlas = 0 /\ t[1].pay.gof = i
  BY <1>3, <1>4 DEF Follows
<1>7. parseVPS(u) /\ stat' = [stat EXCEPT ![Len(stat)] = @ + i]
  BY <1>3, <1>4 DEF DecodeFirstVPS
<1> HIDE DEF u, t, i
<1>8. /\ context' \in ContextSet
      /\ context'.vpsList = Append(context.vpsList, i) /\ context'.atlasIndex = 0
      /\ Len(context'.atlasHLS) = gofs[i].atlases
      /\ gofs[i].atlases \in Nat /\ gofs[i].atlases >= 1
      /\ \A k \in 1..gofs[i].atlases :
            context'.atlasHLS[k] = IF k <= Len(context.atlasHLS) THEN context.atlasHLS[k] ELSE EmptyHLS
      /\ numVPS' = numVPS + 1
  BY <1>2, <1>4, <1>5, <1>7, ParseVps
<1>9. context.vpsList = <<>> /\ context.atlasHLS = <<>> /\ Len(<<>>) = 0
  BY <1>4 DEF NewContext
<1>10. numVPS' = 1 /\ context'.vpsList = <<i>>
       /\ \A k \in 1..gofs[i].atlases : context'.atlasHLS[k] = EmptyHLS
  BY <1>1, <1>8, <1>9
<1>11. /\ stat \in Seq(Nat) /\ Len(stat) \in Nat /\ Len(stat) >= 1 /\ i = Len(stat)
       /\ \A k \in 1..Len(stat) : stat[k] = IF k = Len(stat) THEN 0 ELSE k
  BY <1>1 DEF IInv, Types, StatCountsOwnVps, CurrentGof, i
<1>12. /\ stat' \in Seq(Nat) /\ Len(stat') = Len(stat) /\ stat' # <<>>
       /\ \A k \in 1..Len(stat) : stat'[k] = k
  <2>1. stat[i] = 0 /\ i \in 1..Len(stat) /\ 0 + i \in Nat
    BY <1>11
  <2>2. stat' = [stat EXCEPT ![i] = 0 + i]
    BY <2>1, <1>7, <1>11
  <2>3. /\ stat' \in Seq(Nat) /\ Len(stat') = Len(stat)
        /\ \A k \in 1..Len(stat) : stat'[k] = IF k = i THEN 0 + i ELSE stat[k]
    BY <2>1, <2>2, <1>11, ExceptSeq
  <2> QED
    BY <2>1, <2>3, <1>11
<1>13. CurrentGof' = i /\ StatCountsOwnVps'
  BY <1>10, <1>11, <1>12 DEF StatCountsOwnVps, CurrentGof
<1>14. Types'
  BY <1>1, <1>3, <1>8, <1>10, <1>12 DEF IInv, Types
<1>15. EmptyHLS.videos = <<>> /\ EmptyHLS.ad.gof = 0 /\ EmptyHLS.ad.atlas = 0
  BY DEF EmptyHLS, NoAtlasData, Payload
<1>16. OwnData'
  BY <1>8, <1>9, <1>10, <1>13, <1>15 DEF OwnData
<1>17. OwnVps'
  BY <1>1, <1>6, <1>10, <1>13 DEF OwnVps
<1>18. AfterVps'
  BY <1>1, <1>5, <1>6, <1>8, <1>10, <1>13, <1>16, <1>17 DEF AfterVps, LastVps
<1>19. Looping'
  BY <1>1 DEF Looping
<1> QED
  BY <1>10, <1>13, <1>14, <1>18, <1>19 DEF IInv

LEMMA DecodeNextVPSIInv == IInv /\ DecodeNextVPS => IInv'
<1> SUFFICES ASSUME IInv, DecodeNextVPS PROVE IInv'
  OBVIOUS
<1> DEFINE u == ssvu_in[1]
           i == CurrentGof
<1>1. numVPS > 0 /\ pc = "decode" /\ ssvu_in # <<>> /\ pc' = "checkProfile"
      /\ UNCHANGED <<gofs, lost, params, ssvu_in, atlId, stat>>
  BY DEF DecodeNextVPS
<1>2. IsRest(ssvu_in, gofs, Len(gofs)) /\ gofs \in Seq(GofShapes) /\ context \in ContextSet
  BY DEF IInv, Types
<1>3. Head(ssvu_in) = u /\ IsUnit(u, gofs)
  BY <1>1, <1>2, RestTail
<1>4. AfterVps /\ numVPS = 1 /\ OwnVps
  BY <1>1 DEF IInv, Types, AfterVps, PeekedVps
<1>5. u.header.type = "VPS" /\ u.pay.gof = i + 1 /\ parseVPS(u)
  BY <1>1, <1>3, <1>4 DEF DecodeNextVPS, OwnVps
<1>6. i \in 1..Len(gofs) /\ i + 1 \in 1..Len(gofs)
  BY <1>3, <1>4, <1>5 DEF IsUnit, AfterVps
<1>7. Active
  BY <1>4, <1>5 DEF AfterVps
<1>8. Len(context.atlasHLS) = gofs[i].atlases /\ context.vpsList = <<i>> /\ OwnData
  BY <1>4 DEF AfterVps, OwnVps, LastVps, CurrentGof
<1>9. gofs[i].atlases \in Nat /\ gofs[i].atlases >= 1
  <2>1. gofs[i] \in GofShapes
    BY <1>2, <1>6
  <2> QED
    BY <2>1, ShapeFields
<1> HIDE DEF u, i
<1>10. /\ context' \in ContextSet
       /\ context'.vpsList = Append(context.vpsList, i + 1) /\ context'.atlasIndex = 0
       /\ context'.activeVPS = context.activeVPS
       /\ Len(context'.atlasHLS) = gofs[i + 1].atlases
       /\ gofs[i + 1].atlases \in Nat /\ gofs[i + 1].atlases >= 1
       /\ \A k \in 1..gofs[i + 1].atlases :
             context'.atlasHLS[k] = IF k <= Len(context.atlasHLS) THEN context.atlasHLS[k] ELSE EmptyHLS
       /\ numVPS' = numVPS + 1
  BY <1>2, <1>5, <1>6, ParseVps
<1>11. numVPS' = 2 /\ context'.vpsList = <<i, i + 1>> /\ CurrentGof' = i
  <2>1. Append(<<i>>, i + 1) = <<i, i + 1>>
    BY AppendOne
  <2>2. CurrentGof' = i
    BY <1>1 DEF CurrentGof, i
  <2> QED
    BY <2>1, <2>2, <1>4, <1>8, <1>10
<1>12. StatCountsOwnVps'
  BY <1>1, <1>4, <1>11 DEF IInv, StatCountsOwnVps, CurrentGof
<1>13. Types'
  BY <1>1, <1>10, <1>11 DEF IInv, Types
<1>14. context'.atlasHLS[1] = context.atlasHLS[1]
  BY <1>8, <1>9, <1>10
<1>15. Active'
  BY <1>1, <1>7, <1>10, <1>11, <1>14 DEF Active, i
<1>16. EmptyHLS.videos = <<>> /\ EmptyHLS.ad.gof = 0 /\ EmptyHLS.ad.atlas = 0
  BY DEF EmptyHLS, NoAtlasData, Payload
<1>17. OwnData'
  <2> SUFFICES ASSUME NEW a \in 1..gofs[i + 1].atlases
               PROVE  LET hls == context'.atlasHLS[a] IN
                      /\ hls.ad.gof \in {0, i}
                      /\ hls.ad.atlas \in {0, a - 1}
                      /\ \A k \in 1..Len(hls.videos) :
                           hls.videos[k].pay.gof = i /\ hls.videos[k].pay.atlas = a - 1
    BY <1>10, <1>11 DEF OwnData
  <2>1. CASE a <= Len(context.atlasHLS)
    <3>1. a \in 1..Len(context.atlasHLS) /\ context'.atlasHLS[a] = context.atlasHLS[a]
      BY <2>1, <1>8, <1>9, <1>10
    <3> QED
      BY <3>1, <1>8 DEF OwnData, i
  <2>2. CASE ~(a <= Len(context.atlasHLS))
    <3>1. context'.atlasHLS[a] = EmptyHLS /\ Len(<<>>) = 0
      BY <2>2, <1>10
    <3> QED
      BY <3>1, <1>16
  <2> QED
    BY <2>1, <2>2
<1>18. PeekedVps'
  BY <1>1, <1>5, <1>6, <1>11 DEF PeekedVps, u
<1>19. LastVps' = i + 1
  BY <1>11, <1>6 DEF LastVps
<1>20. AfterVps'
  BY <1>1, <1>6, <1>10, <1>11, <1>15, <1>17, <1>18, <1>19 DEF AfterVps
<1>21. Looping'
  BY <1>1 DEF Looping
<1> QED
  BY <1>11, <1>12, <1>13, <1>20, <1>21 DEF IInv

\* Replacing one atlas of the context.
LEMMA ReplaceAtlas ==
  ASSUME NEW c \in ContextSet, NEW a \in 1..Len(c.atlasHLS), NEW h \in HLSSet
  PROVE  LET d == [c EXCEPT !.atlasHLS = [@ EXCEPT ![a] = h]] IN
         /\ d \in ContextSet
         /\ d.vpsList = c.vpsList /\ d.activeVPS = c.activeVPS /\ d.atlasIndex = c.atlasIndex
         /\ Len(d.atlasHLS) = Len(c.atlasHLS)
         /\ \A k \in 1..Len(c.atlasHLS) :
              d.atlasHLS[k] = IF k = a THEN h ELSE c.atlasHLS[k]
<1> DEFINE s == [c.atlasHLS EXCEPT ![a] = h]
           d == [c EXCEPT !.atlasHLS = s]
<1>1. c.atlasHLS \in Seq(HLSSet)
  BY DEF ContextSet
<1>2. /\ s \in Seq(HLSSet) /\ Len(s) = Len(c.atlasHLS)
      /\ \A k \in 1..Len(c.atlasHLS) : s[k] = IF k = a THEN h ELSE c.atlasHLS[k]
  BY <1>1, ExceptSeq
<1> HIDE DEF s
<1>3. /\ d \in ContextSet /\ d.atlasHLS = s
      /\ d.vpsList = c.vpsList /\ d.activeVPS = c.activeVPS /\ d.atlasIndex = c.atlasIndex
  BY <1>2 DEF ContextSet
<1> QED
  BY <1>2, <1>3 DEF s

\* What decode makes of a unit u of the atlas it is at.
DecodedAtlas(u, hls, typ) ==
  IF u.header.type = "AD"
    THEN [hls EXCEPT !.ad = [u.pay EXCEPT !.n = 0]]
    ELSE [hls EXCEPT !.videos = Append(@, [type |-> typ, pay |-> u.pay])]

LEMMA DecodedAtlasType ==
  ASSUME NEW u \in UnitSet, NEW hls \in HLSSet, NEW typ \in VideoTypes
  PROVE  LET h == DecodedAtlas(u, hls, typ) IN
         /\ h \in HLSSet
         /\ IF u.header.type = "AD"
              THEN /\ h.ad.gof = u.pay.gof /\ h.ad.atlas = u.pay.atlas /\ h.ad.n = 0
                   /\ h.videos = hls.videos
              ELSE /\ h.ad = hls.ad
                   /\ Len(h.videos) = Len(hls.videos) + 1
                   /\ h.videos[Len(hls.videos) + 1].pay = u.pay
                   /\ \A k \in 1..Len(hls.videos) : h.videos[k] = hls.videos[k]
<1> DEFINE v == [type |-> typ, pay |-> u.pay]
           p == [u.pay EXCEPT !.n = 0]
<1>1. u.pay \in PayloadSet /\ hls.videos \in Seq(VideoSet) /\ hls.ad \in PayloadSet
  BY DEF UnitSet, HLSSet
<1>2. v \in VideoSet /\ v.pay = u.pay
  BY <1>1 DEF VideoSet
<1>3. p \in PayloadSet /\ p.gof = u.pay.gof /\ p.atlas = u.pay.atlas /\ p.n = 0
  BY <1>1 DEF PayloadSet
<1> HIDE DEF v, p
<1>4. /\ Append(hls.videos, v) \in Seq(VideoSet)
      /\ Len(Append(hls.videos, v)) = Len(hls.videos) + 1
      /\ Append(hls.videos, v)[Len(hls.videos) + 1] = v
      /\ \A k \in 1..Len(hls.videos) : Append(hls.videos, v)[k] = hls.videos[k]
  BY <1>1, <1>2
<1>5. CASE u.header.type = "AD"
  <2>1. DecodedAtlas(u, hls, typ) = [hls EXCEPT !.ad = p]
    BY <1>5 DEF DecodedAtlas, p
  <2> QED
    BY <2>1, <1>1, <1>3, <1>5 DEF HLSSet
<1>6. CASE u.header.type # "AD"
  <2> DEFINE w == Append(hls.videos, v)
  <2>1. DecodedAtlas(u, hls, typ) = [hls EXCEPT !.videos = w]
    BY <1>6 DEF DecodedAtlas, v
  <2>2. /\ w \in Seq(VideoSet) /\ Len(w) = Len(hls.videos) + 1
        /\ w[Len(hls.videos) + 1].pay = u.pay
        /\ \A k \in 1..Len(hls.videos) : w[k] = hls.videos[k]
    BY <1>2, <1>4
  <2> HIDE DEF w
  <2> QED
    BY <2>1, <2>2, <1>1, <1>6 DEF HLSSet
<1> QED
  BY <1>5, <1>6

\* The step of decode on a unit that is not a VPS.
LEMMA DecodeDataStep ==
  ASSUME IInv, DecodeData
  PROVE  LET u == ssvu_in[1]
             a == u.header.atlas + 1
         IN /\ numVPS = 1 /\ AfterVps /\ u \in UnitSet /\ IsUnit(u, gofs)
            /\ u.pay.gof = CurrentGof /\ u.header.type # "VPS"
            /\ a \in 1..Len(context.atlasHLS)
            /\ \E typ \in VideoTypes :
                 LET h == DecodedAtlas(u, context.atlasHLS[a], typ) IN
                 /\ h \in HLSSet
                 /\ context' \in ContextSet
                 /\ context'.vpsList = context.vpsList
                 /\ context'.activeVPS = u.vps
                 /\ context'.atlasIndex = u.header.atlas
                 /\ Len(context'.atlasHLS) = Len(context.atlasHLS)
                 /\ \A k \in 1..Len(context.atlasHLS) :
                      context'.atlasHLS[k] = IF k = a THEN h ELSE context.atlasHLS[k]
<1> DEFINE u == Head(ssvu_in)
           a == u.header.atlas + 1
           c == [context EXCEPT !.activeVPS = u.vps, !.atlasIndex = u.header.atlas]
           typ == videoType(u.header, gofs[getVps(c)])
           h == DecodedAtlas(u, context.atlasHLS[a], typ)
<1>1. pc = "decode" /\ ssvu_in # <<>> /\ Head(ssvu_in).header.type # "VPS"
  BY DEF DecodeData
<1>2. IsRest(ssvu_in, gofs, Len(gofs)) /\ gofs \in Seq(GofShapes) /\ context \in ContextSet
  BY DEF IInv, Types
<1>3. u = ssvu_in[1] /\ u \in UnitSet /\ IsUnit(u, gofs)
  BY <1>1, <1>2, RestTail
<1>4. numVPS = 1 /\ AfterVps /\ OwnVps
  BY <1>1, <1>3 DEF IInv, Types, BeforeVps, AfterVps, PeekedVps
<1>5. u.pay.gof = CurrentGof /\ Len(context.atlasHLS) = gofs[CurrentGof].atlases
  BY <1>1, <1>3, <1>4 DEF OwnVps, AfterVps, LastVps, CurrentGof
<1>6. u.header \in HeaderSet /\ u.header.atlas \in Nat /\ u.vps \in 0..15
  <2>1. u.header \in HeaderSet /\ u.vps \in 0..15
    BY <1>3 DEF UnitSet
  <2> QED
    BY <2>1 DEF HeaderSet
<1>7. a \in 1..Len(context.atlasHLS)
  <2>1. u.header.atlas < Len(context.atlasHLS) /\ Len(context.atlasHLS) \in Nat
    BY <1>2, <1>3, <1>5 DEF IsUnit, ContextSet
  <2> QED
    BY <2>1, <1>6
<1>8. typ \in VideoTypes
  BY <1>6, VideoTypeType
<1>9. /\ c \in ContextSet /\ c.atlasHLS = context.atlasHLS /\ c.vpsList = context.vpsList
      /\ c.activeVPS = u.vps /\ c.atlasIndex = u.header.atlas
  BY <1>2, <1>6 DEF ContextSet
<1>10. context' = IF u.header.type = "AD"
                   THEN [c EXCEPT !.atlasHLS[a].ad = [u.pay EXCEPT !.n = 0]]
                   ELSE [c EXCEPT !.atlasHLS[a].videos = Append(@, [type |-> typ, pay |-> u.pay])]
  BY DEF DecodeData
<1> HIDE DEF typ, c, u, a
<1>11. context' = [c EXCEPT !.atlasHLS = [@ EXCEPT ![a] = h]]
  BY <1>7, <1>9, <1>10 DEF DecodedAtlas
<1>12. context.atlasHLS[a] \in HLSSet
  BY <1>2, <1>7 DEF ContextSet
<1>13. h \in HLSSet
  BY <1>3, <1>8, <1>12, DecodedAtlasType
<1> HIDE DEF h
<1>14. /\ context' \in ContextSet
       /\ context'.vpsList = context.vpsList /\ context'.activeVPS = u.vps
       /\ context'.atlasIndex = u.header.atlas
       /\ Len(context'.atlasHLS) = Len(context.atlasHLS)
       /\ \A k \in 1..Len(context.atlasHLS) :
            context'.atlasHLS[k] = IF k = a THEN h ELSE context.atlasHLS[k]
  BY <1>7, <1>9, <1>11, <1>13, ReplaceAtlas
<1> QED
  BY <1>1, <1>3, <1>4, <1>5, <1>7, <1>8, <1>13, <1>14 DEF h, u, a

LEMMA DecodeDataIInv == IInv /\ DecodeData => IInv'
<1> SUFFICES ASSUME IInv, DecodeData PROVE IInv'
  OBVIOUS
<1> DEFINE u == ssvu_in[1]
           i == CurrentGof
           a == u.header.atlas + 1
           t == Tail(ssvu_in)
<1>1. /\ numVPS = 1 /\ AfterVps /\ u \in UnitSet /\ IsUnit(u, gofs)
      /\ u.pay.gof = i /\ u.header.type # "VPS"
      /\ a \in 1..Len(context.atlasHLS)
  BY DecodeDataStep
<1>2. PICK typ \in VideoTypes :
        LET h == DecodedAtlas(u, context.atlasHLS[a], typ) IN
        /\ h \in HLSSet
        /\ context' \in ContextSet
        /\ context'.vpsList = context.vpsList
        /\ context'.activeVPS = u.vps
        /\ context'.atlasIndex = u.header.atlas
        /\ Len(context'.atlasHLS) = Len(context.atlasHLS)
        /\ \A k \in 1..Len(context.atlasHLS) :
             context'.atlasHLS[k] = IF k = a THEN h ELSE context.atlasHLS[k]
  BY DecodeDataStep
<1> DEFINE hls == context.atlasHLS[a]
           h == DecodedAtlas(u, hls, typ)
<1>3. /\ pc = "decode" /\ ssvu_in # <<>> /\ ssvu_in' = t
      /\ UNCHANGED <<gofs, lost, params, pc, numVPS, atlId, stat>>
  BY DEF DecodeData
<1>4. IsRest(ssvu_in, gofs, Len(gofs)) /\ gofs \in Seq(GofShapes) /\ context \in ContextSet
  BY DEF IInv, Types
<1>5. /\ IsRest(t, gofs, Len(gofs))
      /\ IF t = <<>> THEN u.pay.gof = Len(gofs) ELSE Follows(u, t[1])
  BY <1>3, <1>4, RestTail
<1>6. context.atlasHLS \in Seq(HLSSet) /\ hls \in HLSSet
  BY <1>1, <1>4 DEF ContextSet
<1>7. /\ h \in HLSSet
      /\ IF u.header.type = "AD"
           THEN h.ad.gof = u.pay.gof /\ h.ad.atlas = u.pay.atlas /\ h.videos = hls.videos
           ELSE /\ h.ad = hls.ad
                /\ Len(h.videos) = Len(hls.videos) + 1
                /\ h.videos[Len(hls.videos) + 1].pay = u.pay
                /\ \A k \in 1..Len(hls.videos) : h.videos[k] = hls.videos[k]
  BY <1>1, <1>6, DecodedAtlasType
<1>8. u.pay.atlas = u.header.atlas /\ u.vps = gofs[i].id /\ u.header.atlas \in Nat
  BY <1>1 DEF IsUnit, UnitSet, HeaderSet
<1> HIDE DEF h, hls, a, u, t, i
<1>9. CurrentGof' = i /\ LastVps' = LastVps
  BY <1>3 DEF CurrentGof, LastVps, i
<1>10. StatCountsOwnVps'
  BY <1>3 DEF IInv, StatCountsOwnVps, CurrentGof
<1>11. Types'
  BY <1>2, <1>3, <1>5 DEF IInv, Types
<1>12. Len(hls.videos) \in Nat
  BY <1>6 DEF HLSSet
<1>13. /\ h.ad.gof \in {0, i} /\ h.ad.atlas \in {0, a - 1}
       /\ \A k \in 1..Len(h.videos) : h.videos[k].pay.gof = i /\ h.videos[k].pay.atlas = a - 1
  <2>1. /\ hls.ad.gof \in {0, i} /\ hls.ad.atlas \in {0, a - 1}
        /\ \A k \in 1..Len(hls.videos) : hls.videos[k].pay.gof = i /\ hls.videos[k].pay.atlas = a - 1
    BY <1>1 DEF AfterVps, OwnData, hls, i
  <2>2. u.pay.atlas = a - 1
    BY <1>8 DEF a
  <2>3. CASE u.header.type = "AD"
    BY <2>1, <2>2, <2>3, <1>1, <1>7
  <2>4. CASE u.header.type # "AD"
    <3>1. ASSUME NEW k \in 1..Len(h.videos)
          PROVE  h.videos[k].pay.gof = i /\ h.videos[k].pay.atlas = a - 1
      <4>1. k \in 1..Len(hls.videos) \/ k = Len(hls.videos) + 1
        BY <2>4, <1>7, <1>12
      <4> QED
        BY <4>1, <2>1, <2>2, <2>4, <1>1, <1>7
    <3> QED
      BY <3>1, <2>1, <2>4, <1>7
  <2> QED
    BY <2>3, <2>4
<1>14. OwnData'
  <2> SUFFICES ASSUME NEW b \in 1..Len(context.atlasHLS)
               PROVE  LET x == context'.atlasHLS[b] IN
                      /\ x.ad.gof \in {0, i} /\ x.ad.atlas \in {0, b - 1}
                      /\ \A k \in 1..Len(x.videos) :
                           x.videos[k].pay.gof = i /\ x.videos[k].pay.atlas = b - 1
    BY <1>2, <1>9 DEF OwnData
  <2>1. CASE b = a
    <3>1. context'.atlasHLS[b] = h
      BY <2>1, <1>1, <1>2 DEF h, hls
    <3> QED
      BY <3>1, <2>1, <1>13
  <2>2. CASE b # a
    <3>1. context'.atlasHLS[b] = context.atlasHLS[b]
      BY <2>2, <1>2
    <3> QED
      BY <3>1, <1>1 DEF AfterVps, OwnData, i
  <2> QED
    BY <2>1, <2>2
<1>15. Active'
  <2>1. 1 \in 1..Len(context.atlasHLS)
    BY <1>1, <1>6
  <2>2. context'.atlasHLS[1].ad.gof = i
    <3>1. CASE a = 1 /\ u.header.type = "AD"
      <4>1. context'.atlasHLS[1] = h
        BY <3>1, <2>1, <1>2 DEF h, hls
      <4> QED
        BY <4>1, <3>1, <1>1, <1>7
    <3>2. CASE ~(a = 1 /\ u.header.type = "AD")
      <4>1. Active
        <5>1. ~(u.header.type = "AD" /\ u.header.atlas = 0)
          BY <3>2, <1>8 DEF a
        <5> QED
          BY <5>1, <1>1 DEF AfterVps, u
      <4>2. context'.atlasHLS[1].ad = context.atlasHLS[1].ad
        BY <3>2, <2>1, <1>2, <1>7 DEF h, hls
      <4> QED
        BY <4>1, <4>2 DEF Active, i
    <3> QED
      BY <3>1, <3>2
  <2> QED
    BY <2>2, <1>2, <1>3, <1>8, <1>9 DEF Active
<1>16. OwnVps'
  <2>1. context'.vpsList = <<i>>
    BY <1>1, <1>2 DEF AfterVps, OwnVps, i
  <2> QED
    BY <2>1, <1>1, <1>3, <1>5, <1>9 DEF OwnVps, Follows
<1>17. context'.atlasIndex < Len(context'.atlasHLS)
  BY <1>1, <1>2, <1>6, <1>8 DEF a
<1>18. AfterVps'
  BY <1>1, <1>2, <1>3, <1>9, <1>14, <1>15, <1>16, <1>17 DEF AfterVps, i
<1>19. Looping'
  BY <1>3 DEF Looping
<1> QED
  BY <1>1, <1>3, <1>10, <1>11, <1>18, <1>19 DEF IInv

-----------------------------------------------------------------------------
(* transcode and encode. *)

LEMMA TranscodeStep ==
  ASSUME IInv, transcode
  PROVE  LET hls == context.atlasHLS[1]
             h   == context'.atlasHLS[1]
         IN /\ numVPS # 0 /\ context.atlasIndex = 0 /\ Len(context.atlasHLS) = 1
            /\ hls \in HLSSet
            /\ context' \in ContextSet
            /\ context'.vpsList = context.vpsList /\ context'.activeVPS = context.activeVPS
            /\ context'.atlasIndex = 0 /\ Len(context'.atlasHLS) = 1
            /\ h.ad = [hls.ad EXCEPT !.n = @ + 1]
            /\ Len(h.videos) = Len(hls.videos)
            /\ \A k \in 1..Len(hls.videos) :
                 h.videos[k] = IF \E t \in VideosToTranscode : k = firstVideo(context, t)
                                 THEN [hls.videos[k] EXCEPT !.pay.n = @ + 1] ELSE hls.videos[k]
<1> DEFINE hls == context.atlasHLS[1]
           first(k) == \E t \in VideosToTranscode : k = firstVideo(context, t)
           vs == transcodeData(hls.videos)
           p == addEndTile(hls.ad)
           h == [hls EXCEPT !.videos = vs, !.ad = p]
<1>1. context \in ContextSet /\ context.atlasHLS \in Seq(HLSSet) /\ context.atlasIndex \in Nat
  BY DEF IInv, Types, ContextSet
<1>2. numVPS # 0 /\ Len(context.atlasHLS) = 1
  <2>1. pc = "transcode" /\ Looping /\ numVPS \in 0..2
    BY DEF IInv, Types, transcode
  <2> QED
    BY <2>1 DEF Looping
<1>3. context.atlasIndex = 0 /\ 1 \in 1..Len(context.atlasHLS)
  BY <1>1, <1>2 DEF IInv, AfterVps
<1>4. hls \in HLSSet
  BY <1>1, <1>3
<1>5. hls.videos \in Seq(VideoSet) /\ hls.ad \in PayloadSet
  BY <1>4 DEF HLSSet
<1>6. context' = [context EXCEPT !.atlasHLS = [@ EXCEPT ![1] = h]]
  <2>1. context.atlasIndex + 1 = 1
    BY <1>3
  <2> DEFINE a == context.atlasIndex + 1
             hh == TranscodedAtlas(context.atlasHLS[a])
  <2>2. context' = [context EXCEPT !.atlasHLS = [@ EXCEPT ![a] = hh]]
    BY DEF transcode
  <2>3. a = 1 /\ hh = h
    BY <2>1 DEF TranscodedAtlas
  <2> HIDE DEF a, hh, h
  <2> QED
    BY <2>2, <2>3
<1>7. vs = [k \in 1..Len(hls.videos) |->
             IF first(k) THEN [hls.videos[k] EXCEPT !.pay.n = @ + 1] ELSE hls.videos[k]]
  BY <1>5 DEF transcodeData
<1> HIDE DEF hls, vs, first
<1>8. ASSUME NEW k \in 1..Len(hls.videos) PROVE vs[k] \in VideoSet
  <2>1. hls.videos[k] \in VideoSet
    BY <1>5
  <2>2. [hls.videos[k] EXCEPT !.pay.n = @ + 1] \in VideoSet
    BY <2>1 DEF VideoSet, PayloadSet
  <2> QED
    BY <2>1, <2>2, <1>7
<1>9. vs \in Seq(VideoSet) /\ Len(vs) = Len(hls.videos)
  <2> DEFINE n == Len(hls.videos)
  <2>1. n \in Nat
    BY <1>5
  <2> HIDE DEF n
  <2>2. vs \in [1..n -> VideoSet]
    BY <1>7, <1>8 DEF n
  <2>3. vs \in Seq(VideoSet) /\ Len(vs) = n
    BY <2>1, <2>2
  <2> QED
    BY <2>3 DEF n
<1>10. p = [hls.ad EXCEPT !.n = @ + 1]
  BY DEF addEndTile
<1>11. p \in PayloadSet
  BY <1>5, <1>10 DEF PayloadSet
<1> HIDE DEF p
<1>12. h \in HLSSet /\ h.videos = vs /\ h.ad = p
  BY <1>4, <1>9, <1>11 DEF HLSSet
<1> HIDE DEF h
<1>13. /\ context' \in ContextSet
       /\ context'.vpsList = context.vpsList /\ context'.activeVPS = context.activeVPS
       /\ context'.atlasIndex = context.atlasIndex
       /\ Len(context'.atlasHLS) = Len(context.atlasHLS)
       /\ context'.atlasHLS[1] = h
  BY <1>1, <1>3, <1>6, <1>12, ReplaceAtlas
<1>14. \A k \in 1..Len(hls.videos) :
         vs[k] = IF first(k) THEN [hls.videos[k] EXCEPT !.pay.n = @ + 1] ELSE hls.videos[k]
  BY <1>7
<1> QED
  BY <1>2, <1>3, <1>4, <1>9, <1>10, <1>12, <1>13, <1>14, Zenon DEF hls, first

LEMMA TranscodeIInv == IInv /\ transcode => IInv'
<1> SUFFICES ASSUME IInv, transcode PROVE IInv'
  OBVIOUS
<1> DEFINE hls == context.atlasHLS[1]
           h == context'.atlasHLS[1]
           i == CurrentGof
<1>1. /\ pc = "transcode" /\ pc' = "encode"
      /\ UNCHANGED <<gofs, lost, params, ssvu_in, numVPS, atlId, stat>>
  BY DEF transcode
<1>2. /\ numVPS # 0 /\ context.atlasIndex = 0 /\ Len(context.atlasHLS) = 1
      /\ hls \in HLSSet
      /\ context' \in ContextSet
      /\ context'.vpsList = context.vpsList /\ context'.activeVPS = context.activeVPS
      /\ context'.atlasIndex = 0 /\ Len(context'.atlasHLS) = 1
      /\ h.ad = [hls.ad EXCEPT !.n = @ + 1]
      /\ Len(h.videos) = Len(hls.videos)
      /\ \A k \in 1..Len(hls.videos) :
           h.videos[k] = IF \E t \in VideosToTranscode : k = firstVideo(context, t)
                           THEN [hls.videos[k] EXCEPT !.pay.n = @ + 1] ELSE hls.videos[k]
  BY TranscodeStep
<1>3. AfterVps /\ Active /\ Looping /\ (numVPS = 1 => ssvu_in = <<>>)
  BY <1>1, <1>2, OwnVpsActive DEF IInv
<1>4. hls.videos \in Seq(VideoSet) /\ hls.ad \in PayloadSet
  BY <1>2 DEF HLSSet
<1> HIDE DEF hls, h, i
<1>5. h.ad.gof = hls.ad.gof /\ h.ad.atlas = hls.ad.atlas
  BY <1>2, <1>4 DEF PayloadSet
<1>6. ASSUME NEW k \in 1..Len(hls.videos)
      PROVE  h.videos[k].pay.gof = hls.videos[k].pay.gof
             /\ h.videos[k].pay.atlas = hls.videos[k].pay.atlas
  <2>1. hls.videos[k] \in VideoSet
    BY <1>4
  <2>2. h.videos[k] = [hls.videos[k] EXCEPT !.pay.n = @ + 1] \/ h.videos[k] = hls.videos[k]
    BY <1>2
  <2> QED
    BY <2>1, <2>2 DEF VideoSet, PayloadSet
<1>7. CurrentGof' = i /\ LastVps' = LastVps
  BY <1>1 DEF CurrentGof, LastVps, i
<1>8. StatCountsOwnVps'
  BY <1>1 DEF IInv, StatCountsOwnVps, CurrentGof
<1>9. Types'
  BY <1>1, <1>2 DEF IInv, Types
<1>10. OwnData'
  <2>1. /\ hls.ad.gof \in {0, i} /\ hls.ad.atlas \in {0, 1 - 1}
        /\ \A k \in 1..Len(hls.videos) :
             hls.videos[k].pay.gof = i /\ hls.videos[k].pay.atlas = 1 - 1
    BY <1>2, <1>3, SMTT(30) DEF AfterVps, OwnData, hls, i
  <2>2. /\ h.ad.gof \in {0, i} /\ h.ad.atlas \in {0, 1 - 1}
        /\ \A k \in 1..Len(h.videos) :
             h.videos[k].pay.gof = i /\ h.videos[k].pay.atlas = 1 - 1
    BY <2>1, <1>2, <1>5, <1>6
  <2>3. \A a \in 1..Len(context'.atlasHLS) : a = 1
    BY <1>2
  <2> QED
    BY <2>2, <2>3, <1>7 DEF OwnData, h
<1>11. Active'
  BY <1>1, <1>2, <1>3, <1>5, <1>7 DEF Active, h, hls, i
<1>12. (IF numVPS = 1 THEN OwnVps ELSE PeekedVps)'
  <2>1. CASE numVPS = 1
    BY <2>1, <1>1, <1>2, <1>3, <1>7 DEF AfterVps, OwnVps, i
  <2>2. CASE numVPS # 1
    BY <2>2, <1>1, <1>2, <1>3, <1>7 DEF AfterVps, PeekedVps, i
  <2> QED
    BY <2>1, <2>2, <1>1
<1>13. AfterVps'
  BY <1>1, <1>2, <1>3, <1>7, <1>10, <1>11, <1>12 DEF AfterVps, i
<1>14. Looping'
  BY <1>1, <1>2, <1>3, <1>7 DEF Looping, i
<1> QED
  BY <1>1, <1>2, <1>8, <1>9, <1>13, <1>14 DEF IInv

LEMMA EncodeIInv == IInv /\ encode => IInv'
<1> SUFFICES ASSUME IInv, encode PROVE IInv'
  OBVIOUS
<1> DEFINE i == CurrentGof
<1>1. /\ pc = "encode" /\ atlId' = atlId + 1
      /\ UNCHANGED <<gofs, lost, params, ssvu_in>>
  BY DEF encode
<1>2. /\ numVPS \in {1, 2} /\ atlId < gofs[i].atlases /\ Len(context.atlasHLS) = 1
      /\ stat \in Seq(Nat) /\ Len(stat) \in Nat /\ Len(stat) >= 1 /\ i = Len(stat)
      /\ gofs \in Seq(GofShapes) /\ atlId \in 0..64
  <2>1. Looping /\ numVPS \in 0..2 /\ stat \in Seq(Nat) /\ stat # <<>>
        /\ gofs \in Seq(GofShapes) /\ atlId \in 0..64
    BY DEF IInv, Types
  <2> QED
    BY <2>1, <1>1 DEF Looping, CurrentGof
<1>3. AfterVps /\ Active /\ getVps(context) = i /\ (numVPS = 1 => ssvu_in = <<>>)
  BY <1>1, <1>2, OwnVpsActive DEF IInv
<1>4. gofs[i].atlases \in Nat /\ gofs[i].atlases <= 64
  <2>1. gofs[i] \in GofShapes
    BY <1>2, <1>3 DEF AfterVps
  <2> QED
    BY <2>1, ShapeFields
<1>5. atlId + 1 \in 0..64
  <2> DEFINE n == gofs[i].atlases
  <2>1. atlId < n /\ n \in Nat /\ n <= 64 /\ atlId \in 0..64
    BY <1>2, <1>4, Zenon
  <2> HIDE DEF n
  <2> QED
    BY <2>1
<1>6. CASE atlId + 1 < gofs[i].atlases
  <2>1. pc' = "transcode" /\ UNCHANGED <<context, numVPS, stat>>
    BY <1>3, <1>6 DEF encode
  <2>2. Looping'
    BY <2>1, <1>1, <1>2, <1>6 DEF Looping, CurrentGof
  <2> QED
    BY <2>1, <2>2, <1>1, <1>2, <1>3, <1>5, QuietStep
<1>7. CASE ~(atlId + 1 < gofs[i].atlases) /\ ssvu_in = <<>>
  <2>1. pc' = "write" /\ UNCHANGED <<context, numVPS, stat>>
    BY <1>3, <1>7 DEF encode
  <2>2. numVPS = 1
    BY <1>2, <1>3, <1>7 DEF AfterVps, PeekedVps
  <2>3. Looping'
    BY <2>1, <2>2, <1>1, <1>7 DEF Looping
  <2> QED
    BY <2>1, <2>2, <2>3, <1>1, <1>3, <1>5, <1>7, QuietStep
<1>8. CASE ~(atlId + 1 < gofs[i].atlases) /\ ssvu_in # <<>>
  <2>1. pc' = "decode" /\ context' = NewContext /\ numVPS' = 0 /\ stat' = Append(stat, 0)
    BY <1>3, <1>8 DEF encode
  <2>2. PeekedVps
    BY <1>2, <1>3, <1>8 DEF AfterVps
  <2>3. /\ stat' \in Seq(Nat) /\ Len(stat') = i + 1 /\ stat' # <<>> /\ CurrentGof' = i + 1
        /\ \A k \in 1..(i + 1) : stat'[k] = IF k = i + 1 THEN 0 ELSE stat[k]
    <3>1. Append(stat, 0) \in Seq(Nat) /\ Len(Append(stat, 0)) = Len(stat) + 1
          /\ \A k \in 1..Len(stat) + 1 : Append(stat, 0)[k] = IF k = Len(stat) + 1 THEN 0 ELSE stat[k]
      BY <1>2, AppendProperties
    <3> QED
      BY <3>1, <2>1, <1>2 DEF CurrentGof
  <2>4. StatCountsOwnVps'
    <3>1. \A k \in 1..i : stat[k] = k
      BY <1>2 DEF IInv, StatCountsOwnVps, CurrentGof
    <3>2. DOMAIN stat' = 1..(i + 1)
      BY <2>3
    <3>3. \A k \in 1..(i + 1) : k = i + 1 \/ k \in 1..i
      BY <1>2
    <3> HIDE DEF i
    <3> QED
      BY <3>1, <3>2, <3>3, <2>1, <2>3 DEF StatCountsOwnVps
  <2>5. context' \in ContextSet
    BY <2>1 DEF NewContext, ContextSet
  <2>6. Types'
    BY <2>1, <2>3, <2>5, <1>1, <1>5 DEF IInv, Types
  <2>7. BeforeVps'
    BY <2>1, <2>2, <2>3, <1>1 DEF BeforeVps, PeekedVps
  <2>8. Looping'
    BY <2>1 DEF Looping
  <2> QED
    BY <2>1, <2>4, <2>6, <2>7, <2>8 DEF IInv
<1> QED
  BY <1>6, <1>7, <1>8

\* The invariant is inductive.
LEMMA NextIInv == IInv /\ [Next]_vars => IInv'
<1> SUFFICES ASSUME IInv, [Next]_vars PROVE IInv'
  OBVIOUS
<1>1. CASE Next
  BY <1>1, DecodeFirstVPSIInv, DecodeNextVPSIInv, DecodeDataIInv, DecodeEndIInv,
     ProfileRefusedIInv, ProfileAcceptedIInv, TranscodeIInv, ExitsIInv, EncodeIInv, WriteIInv
  DEF Next
<1>2. CASE UNCHANGED vars
  BY <1>2 DEF vars, IInv, Types, StatCountsOwnVps, CurrentGof, BeforeVps, AfterVps, OwnVps,
              PeekedVps, OwnData, Active, LastVps, Looping
<1> QED
  BY <1>1, <1>2

LEMMA IInvAlways == Spec => []IInv
<1> QED
  BY InitIInv, NextIInv, PTL DEF Spec

-----------------------------------------------------------------------------
(* The safety properties. *)

\* For every stream the variables have their types, and the atlas the
\* high-level syntax is at is always one of those it has: the resize by the
\* peeked VPS never leaves PCCHighLevelSyntax at an atlas that is gone.
THEOREM TypeCorrect == Spec => []TypeOK
<1>1. IInv => TypeOK
  <2> SUFFICES ASSUME IInv PROVE TypeOK
    OBVIOUS
  <2>1. context \in ContextSet /\ stat \in Seq(Nat) /\ Len(gofs) \in 0..MaxGofs
        /\ gofs \in Seq(GofShapes) /\ MaxGofs \in Nat
    BY GofAssumption DEF IInv, Types
  <2>2. \A k \in DOMAIN stat : stat[k] \in 0..MaxGofs
    <3>1. \A k \in DOMAIN stat : stat[k] = 0 \/ stat[k] = k
      BY DEF IInv, StatCountsOwnVps
    <3>2. Len(stat) <= Len(gofs) \/ (Len(stat) = 1 /\ numVPS = 0)
      <4>1. CASE numVPS = 0
        <5>1. CASE ssvu_in = <<>>
          BY <4>1, <5>1 DEF IInv, BeforeVps, CurrentGof
        <5>2. CASE ssvu_in # <<>>
          <6>1. IsUnit(ssvu_in[1], gofs) /\ ssvu_in[1].pay.gof = Len(stat)
            BY <4>1, <5>2, RestTail DEF IInv, Types, BeforeVps, CurrentGof
          <6> QED
            BY <6>1 DEF IsUnit
        <5> QED
          BY <5>1, <5>2
      <4>2. CASE numVPS # 0
        BY <4>2 DEF IInv, AfterVps, CurrentGof
      <4> QED
        BY <4>1, <4>2
    <3>3. CASE Len(stat) <= Len(gofs)
      BY <3>1, <3>3, <2>1
    <3>4. CASE Len(stat) = 1 /\ numVPS = 0
      <4>1. \A k \in DOMAIN stat : stat[k] = 0
        BY <3>4, <2>1 DEF IInv, StatCountsOwnVps, CurrentGof
      <4> QED
        BY <4>1, <2>1
    <3> QED
      BY <3>2, <3>3, <3>4
  <2>3. /\ \A k \in DOMAIN context.vpsList : context.vpsList[k] \in DOMAIN gofs
        /\ context.atlasHLS # <<>> => context.atlasIndex + 1 \in DOMAIN context.atlasHLS
    <3>1. CASE numVPS = 0
      BY <3>1 DEF IInv, BeforeVps, NewContext
    <3>2. CASE numVPS # 0
      <4>1. AfterVps
        BY <3>2 DEF IInv
      <4>2. \A k \in DOMAIN context.vpsList : context.vpsList[k] \in DOMAIN gofs
        <5>1. CASE context.vpsList = <<CurrentGof>>
          BY <5>1, <4>1, <2>1 DEF AfterVps
        <5>2. CASE PeekedVps
          BY <5>2, <4>1, <2>1 DEF AfterVps, PeekedVps
        <5> QED
          BY <5>1, <5>2, <4>1 DEF AfterVps, OwnVps
      <4>3. context.atlasIndex \in Nat /\ context.atlasHLS \in Seq(HLSSet)
        BY <2>1 DEF ContextSet
      <4> QED
        BY <4>1, <4>2, <4>3 DEF AfterVps
    <3> QED
      BY <3>1, <3>2
  <2>4. ASSUME NEW a \in DOMAIN context.atlasHLS
        PROVE  /\ context.atlasHLS[a].ad \in PayloadType
               /\ \A k \in DOMAIN context.atlasHLS[a].videos :
                    context.atlasHLS[a].videos[k].pay \in PayloadType
    <3> DEFINE hls == context.atlasHLS[a]
    <3>1. context.atlasHLS \in Seq(HLSSet)
      BY <2>1 DEF ContextSet
    <3>2. a \in 1..Len(context.atlasHLS) /\ hls \in HLSSet
      BY <3>1, <2>4
    <3>3. numVPS # 0
      <4>1. NewContext.atlasHLS = <<>>
        BY DEF NewContext
      <4>2. context # NewContext
        BY <4>1, <3>2
      <4> QED
        BY <4>2 DEF IInv, BeforeVps
    <3>4. AfterVps /\ CurrentGof \in 1..Len(gofs)
      BY <3>3 DEF IInv, AfterVps
    <3>5. a - 1 \in 0..63
      <4>1. LastVps \in 1..Len(gofs)
        BY <3>3, <3>4, <2>1 DEF IInv, Types, AfterVps, PeekedVps, LastVps
      <4>2. gofs[LastVps] \in GofShapes
        BY <4>1, <2>1
      <4>3. Len(context.atlasHLS) <= 64
        BY <4>2, <3>4, ShapeFields DEF AfterVps
      <4>4. Len(context.atlasHLS) \in Nat
        BY <3>1
      <4> DEFINE n == Len(context.atlasHLS)
      <4>5. n <= 64 /\ n \in Nat /\ a \in 1..n
        BY <4>3, <4>4, <3>2
      <4> HIDE DEF n
      <4> QED
        BY <4>5
    <3>6. hls.ad \in PayloadSet /\ hls.videos \in Seq(VideoSet)
      BY <3>2 DEF HLSSet
    <3>7. /\ hls.ad.gof \in {0, CurrentGof} /\ hls.ad.atlas \in {0, a - 1}
          /\ \A k \in 1..Len(hls.videos) :
               hls.videos[k].pay.gof = CurrentGof /\ hls.videos[k].pay.atlas = a - 1
      BY <3>2, <3>4 DEF AfterVps, OwnData
    <3> HIDE DEF hls
    <3>8. {0, CurrentGof} \subseteq 0..MaxGofs /\ {0, a - 1} \subseteq 0..63
      BY <3>4, <3>5, <2>1
    <3>9. \A p \in PayloadSet : p.gof \in 0..MaxGofs /\ p.atlas \in 0..63 => p \in PayloadType
      BY DEF PayloadType, PayloadSet
    <3>10. hls.ad \in PayloadType
      BY <3>6, <3>7, <3>8, <3>9
    <3>11. ASSUME NEW k \in DOMAIN hls.videos PROVE hls.videos[k].pay \in PayloadType
      <4>1. k \in 1..Len(hls.videos) /\ hls.videos[k] \in VideoSet
        BY <3>6, <3>11
      <4>2. hls.videos[k].pay \in PayloadSet
        BY <4>1 DEF VideoSet
      <4> QED
        BY <4>1, <4>2, <3>7, <3>8, <3>9
    <3> QED
      BY <3>10, <3>11 DEF hls
  <2>5. context.activeVPS \in 0..15
    BY <2>1 DEF ContextSet
  <2> QED
    BY <2>2, <2>3, <2>4, <2>5 DEF TypeOK, IInv, Types
<1> QED
  BY <1>1, IInvAlways, PTL

\* For every stream, whatever ids its parameter sets have and whichever video
\* is missing from it, the GOF at hand is checked, transcoded and written with
\* its own parameter set and never with the peeked one.
THEOREM JudgedByOwn == Spec => []JudgedByOwnVps
<1>1. IInv => JudgedByOwnVps
  <2> SUFFICES ASSUME IInv, pc \in {"checkProfile", "transcode", "encode"},
                      context.vpsList # <<>>
               PROVE  getVps(context) = CurrentGof
    BY DEF JudgedByOwnVps
  <2>1. numVPS # 0
    BY DEF IInv, BeforeVps, NewContext
  <2> QED
    BY <2>1, OwnVpsActive
<1> QED
  BY <1>1, IInvAlways, PTL

\* For every stream the bytes of each VPS are counted once, in its own GOF.
THEOREM StatCounts == Spec => []StatCountsOwnVps
<1>1. IInv => StatCountsOwnVps
  BY DEF IInv
<1> QED
  BY <1>1, IInvAlways, PTL

-----------------------------------------------------------------------------
(* The GOFs of a sequence of units, and the transcoded GOFs. *)

\* The equation VpsGofs is defined by, and its type.
LEMMA VpsGofsRecursion ==
  ASSUME NEW s \in Seq(UnitSet)
  PROVE  \E f \in [0..Len(s) -> Seq(Nat)] :
           /\ f[0] = <<>>
           /\ \A k \in 1..Len(s) :
                f[k] = IF s[k].header.type = "VPS" THEN Append(f[k - 1], s[k].pay.gof) ELSE f[k - 1]
           /\ VpsGofs(s) = f[Len(s)]
<1> DEFINE n == Len(s)
           Q == Seq(Nat)
           e(x, k) == IF s[k].header.type = "VPS" THEN Append(x, s[k].pay.gof) ELSE x
           D(f) == [k \in 0..n |-> IF k = 0 THEN <<>>
                                   ELSE IF s[k].header.type = "VPS"
                                          THEN Append(f[k - 1], s[k].pay.gof) ELSE f[k - 1]]
           upTo == CHOOSE f : f = D(f)
           step == [k \in 0..n |-> [x \in Q |-> IF k = 0 THEN x ELSE e(x, k)]]
<1>1. n \in Nat
  OBVIOUS
<1>2. VpsGofs(s) = upTo[n]
  BY DEF VpsGofs
<1>3. ASSUME NEW k \in 1..n, NEW x \in Q PROVE e(x, k) \in Q
  <2>1. s[k] \in UnitSet
    OBVIOUS
  <2>2. s[k].pay.gof \in Nat
    BY <2>1 DEF UnitSet, PayloadSet
  <2> QED
    BY <2>2
<1> HIDE DEF n, e
<1>4. step \in [0..n -> [Q -> Q]] /\ <<>> \in Q
  <2>1. ASSUME NEW k \in 0..n, k # 0 PROVE k \in 1..n
    BY <2>1, <1>1
  <2> HIDE DEF Q
  <2>2. step \in [0..n -> [Q -> Q]]
    BY <2>1, <1>3
  <2> QED
    BY <2>2 DEF Q
<1>5. PICK f \in [0..n -> Q] : IsRecursive(f, 0, n, <<>>, step)
  <2> DEFINE c == <<>>
  <2> HIDE DEF step, Q, c
  <2>1. c \in Q
    BY <1>4 DEF c
  <2>2. \E f \in [0..n -> Q] : IsRecursive(f, 0, n, c, step)
    BY <2>1, <1>1, <1>4, RecursiveFunction
  <2> QED
    BY <2>2 DEF c
<1>6. f = D(f)
  <2>1. f = [k \in 0..n |-> IF k = 0 THEN <<>> ELSE step[k][f[k - 1]]]
    BY <1>5 DEF IsRecursive
  <2>2. ASSUME NEW k \in 0..n, k # 0 PROVE step[k][f[k - 1]] = e(f[k - 1], k)
    <3>1. k - 1 \in 0..n /\ f[k - 1] \in Q
      BY <2>2, <1>1, <1>5
    <3> HIDE DEF Q
    <3> QED
      BY <3>1, <2>2
  <2> HIDE DEF step
  <2>3. f = [k \in 0..n |-> IF k = 0 THEN <<>> ELSE e(f[k - 1], k)]
    BY <2>1, <2>2
  <2> QED
    BY <2>3 DEF e
<1>7. upTo = D(upTo)
  <2> HIDE DEF D
  <2> QED
    BY <1>6
<1> HIDE DEF upTo
<1>8. upTo[0] = <<>> /\ \A k \in 1..n : upTo[k] = e(upTo[k - 1], k)
  <2>1. upTo[0] = <<>>
    BY <1>1, <1>7
  <2>2. ASSUME NEW k \in 1..n PROVE upTo[k] = e(upTo[k - 1], k)
    <3>1. k \in 0..n /\ k # 0
      BY <1>1
    <3> QED
      BY <3>1, <1>7 DEF e
  <2> QED
    BY <2>1, <2>2
<1>9. \A k \in 0..n : upTo[k] \in Q
  <2> DEFINE T == {k \in 0..n : upTo[k] \in Q}
  <2> HIDE DEF Q
  <2>1. 0 \in T
    BY <1>1, <1>4, <1>8
  <2>2. ASSUME NEW k \in 0..n, k \in T, k < n PROVE k + 1 \in T
    <3>1. k + 1 \in 0..n /\ k + 1 \in 1..n /\ (k + 1) - 1 = k
      BY <2>2, <1>1
    <3>2. upTo[k + 1] = e(upTo[k], k + 1)
      BY <3>1, <1>8
    <3> QED
      BY <3>1, <3>2, <2>2, <1>3
  <2> HIDE DEF T
  <2>3. \A k \in 0..n : k \in T
    BY <2>1, <2>2, <1>1, IntervalInduction
  <2> QED
    BY <2>3 DEF T
<1>10. upTo \in [0..n -> Q]
  BY <1>7, <1>9
<1> QED
  BY <1>2, <1>8, <1>10 DEF n, e

\* Appending the units of one GOF.
LEMMA VpsGofsConcat ==
  ASSUME NEW s \in Seq(UnitSet), NEW t \in Seq(UnitSet), t # <<>>,
         t[1].header.type = "VPS", \A k \in 2..Len(t) : t[k].header.type # "VPS"
  PROVE  VpsGofs(s \o t) = Append(VpsGofs(s), t[1].pay.gof)
<1> DEFINE r == s \o t
           n == Len(s)
           m == Len(t)
<1>1. n \in Nat /\ m \in Nat /\ m >= 1
  OBVIOUS
<1>2. /\ r \in Seq(UnitSet) /\ Len(r) = n + m
      /\ \A k \in 1..n + m : r[k] = IF k <= n THEN s[k] ELSE t[k - n]
  BY ConcatProperties
<1>3. PICK f \in [0..n -> Seq(Nat)] :
           /\ f[0] = <<>>
           /\ \A k \in 1..n :
                f[k] = IF s[k].header.type = "VPS" THEN Append(f[k - 1], s[k].pay.gof) ELSE f[k - 1]
           /\ VpsGofs(s) = f[n]
  BY VpsGofsRecursion
<1> HIDE DEF r, n, m
<1>4. PICK g \in [0..(n + m) -> Seq(Nat)] :
           /\ g[0] = <<>>
           /\ \A k \in 1..(n + m) :
                g[k] = IF r[k].header.type = "VPS" THEN Append(g[k - 1], r[k].pay.gof) ELSE g[k - 1]
           /\ VpsGofs(r) = g[n + m]
  <2>1. \E g \in [0..Len(r) -> Seq(Nat)] :
           /\ g[0] = <<>>
           /\ \A k \in 1..Len(r) :
                g[k] = IF r[k].header.type = "VPS" THEN Append(g[k - 1], r[k].pay.gof) ELSE g[k - 1]
           /\ VpsGofs(r) = g[Len(r)]
    BY <1>2, VpsGofsRecursion
  <2> QED
    BY <2>1, <1>2
<1>5. g[n] = f[n]
  <2> DEFINE T == {k \in 0..n : g[k] = f[k]}
  <2>1. 0 \in T
    BY <1>1, <1>3, <1>4
  <2>2. ASSUME NEW k \in 0..n, k \in T, k < n PROVE k + 1 \in T
    <3>1. k + 1 \in 1..n /\ k + 1 \in 1..(n + m) /\ (k + 1) - 1 = k
          /\ k + 1 \in 0..n /\ k + 1 <= n
      BY <2>2, <1>1
    <3>2. r[k + 1] = s[k + 1]
      BY <3>1, <1>1, <1>2
    <3>3. f[k + 1] = IF s[k + 1].header.type = "VPS" THEN Append(f[k], s[k + 1].pay.gof) ELSE f[k]
      BY <3>1, <1>3
    <3>4. g[k + 1] = IF r[k + 1].header.type = "VPS" THEN Append(g[k], r[k + 1].pay.gof) ELSE g[k]
      BY <3>1, <1>4
    <3>5. g[k] = f[k]
      BY <2>2
    <3>6. g[k + 1] = f[k + 1]
      BY <3>2, <3>3, <3>4, <3>5
    <3> QED
      BY <3>1, <3>6
  <2> HIDE DEF T
  <2>3. \A k \in 0..n : k \in T
    BY <2>1, <2>2, <1>1, IntervalInduction
  <2> QED
    BY <2>3, <1>1 DEF T
<1>6. g[n + 1] = Append(f[n], t[1].pay.gof)
  <2>1. n + 1 \in 1..(n + m) /\ (n + 1) - 1 = n /\ (n + 1) - n = 1 /\ ~(n + 1 <= n)
    BY <1>1
  <2>2. r[n + 1] = t[1]
    BY <2>1, <1>2
  <2>3. g[n + 1] = IF r[n + 1].header.type = "VPS" THEN Append(g[n], r[n + 1].pay.gof) ELSE g[n]
    BY <2>1, <1>4
  <2> QED
    BY <2>2, <2>3, <1>5
<1>7. g[n + m] = g[n + 1]
  <2> DEFINE T == {k \in (n + 1)..(n + m) : g[k] = g[n + 1]}
  <2>1. n + 1 \in T /\ n + 1 \in Nat /\ n + m \in Nat
    BY <1>1
  <2>2. ASSUME NEW k \in (n + 1)..(n + m), k \in T, k < n + m PROVE k + 1 \in T
    <3>1. k + 1 \in 1..(n + m) /\ (k + 1) - 1 = k /\ (k + 1) - n \in 2..m
          /\ ~(k + 1 <= n) /\ k + 1 \in (n + 1)..(n + m)
      BY <2>2, <1>1
    <3>2. r[k + 1] = t[(k + 1) - n]
      BY <3>1, <1>2
    <3>3. r[k + 1].header.type # "VPS"
      BY <3>1, <3>2 DEF m
    <3>4. g[k + 1] = g[k]
      BY <3>1, <3>3, <1>4
    <3> QED
      BY <3>1, <3>4, <2>2
  <2> HIDE DEF T
  <2>3. \A k \in (n + 1)..(n + m) : k \in T
    BY <2>1, <2>2, IntervalInduction
  <2>4. n + m \in (n + 1)..(n + m)
    BY <1>1
  <2> QED
    BY <2>3, <2>4 DEF T
<1> QED
  BY <1>3, <1>4, <1>6, <1>7 DEF r

LEMMA TranscodedGofShape ==
  ASSUME gofs \in Seq(GofShapes), NEW i \in 1..Len(gofs)
  PROVE  LET us == TranscodedGof(i) IN
         /\ us \in Seq(UnitSet) /\ us # <<>>
         /\ us[1].header.type = "VPS" /\ us[1].pay.gof = i
         /\ \A k \in 2..Len(us) : us[k].header.type # "VPS"
<1> DEFINE g == gofs[i]
           hs == GofHeaders(g)
           us == TranscodedGof(i)
           n(h) == CASE h.type = "VPS" -> 0
                     [] h.type = "AD"  -> 1
                     [] OTHER -> IF videoType(h, g) \in VideosToTranscode THEN 1 ELSE 0
<1>1. g \in GofShapes /\ i \in Nat
  OBVIOUS
<1>2. /\ hs \in Seq(HeaderSet)
      /\ Len(hs) >= 3
      /\ hs[1] = Header("VPS", 0, 0, FALSE)
      /\ \A k \in 2..Len(hs) : hs[k].type # "VPS"
  BY <1>1, GofHeadersShape
<1>3. g.id \in 0..15
  BY <1>1, ShapeFields
<1>4. us = [k \in 1..Len(hs) |-> Unit(hs[k], g.id, Payload(i, hs[k].atlas, n(hs[k])))]
  BY <1>2 DEF TranscodedGof
<1>5. \A h : n(h) \in Nat
  OBVIOUS
<1> HIDE DEF g, hs, us, n
<1>6. ASSUME NEW k \in 1..Len(hs)
      PROVE  us[k] \in UnitSet /\ us[k].header = hs[k] /\ us[k].pay.gof = i
  <2>1. hs[k] \in HeaderSet
    BY <1>2
  <2>2. us[k] = Unit(hs[k], g.id, Payload(i, hs[k].atlas, n(hs[k])))
    BY <1>4
  <2>3. hs[k].atlas \in Nat
    BY <2>1 DEF HeaderSet
  <2> QED
    BY <2>1, <2>2, <2>3, <1>1, <1>3, <1>5 DEF Unit, Payload, UnitSet, PayloadSet
<1>7. us \in Seq(UnitSet) /\ Len(us) = Len(hs) /\ us # <<>> /\ Len(hs) \in Nat
  <2>1. Len(hs) \in Nat
    BY <1>2
  <2>2. us \in [1..Len(hs) -> UnitSet]
    BY <1>4, <1>6
  <2>3. us \in Seq(UnitSet) /\ Len(us) = Len(hs)
    BY <2>1, <2>2
  <2> QED
    BY <2>1, <2>3, <1>2
<1>8. us[1].header.type = "VPS" /\ us[1].pay.gof = i
  <2>1. 1 \in 1..Len(hs)
    BY <1>2, <1>7
  <2>2. us[1].header = hs[1] /\ us[1].pay.gof = i
    BY <2>1, <1>6
  <2> QED
    BY <2>2, <1>2 DEF Header
<1>9. \A k \in 2..Len(us) : us[k].header.type # "VPS"
  BY <1>2, <1>6, <1>7
<1> QED
  BY <1>7, <1>8, <1>9 DEF us

\* One more GOF of output.
LEMMA OutputStep ==
  ASSUME gofs \in Seq(GofShapes), NEW m \in Nat, m < Len(gofs)
  PROVE  /\ Output(m) \in Seq(UnitSet)
         /\ Output(m + 1) = Output(m) \o TranscodedGof(m + 1)
         /\ VpsGofs(Output(m + 1)) = Append(VpsGofs(Output(m)), m + 1)
<1> DEFINE Q == Seq(UnitSet)
           f == [i \in 1..m |-> TranscodedGof(i)]
           h == [i \in 1..(m + 1) |-> TranscodedGof(i)]
           t == TranscodedGof(m + 1)
<1>1. \A i \in 1..(m + 1) : TranscodedGof(i) \in Q
  <2> SUFFICES ASSUME NEW i \in 1..(m + 1) PROVE TranscodedGof(i) \in Q
    OBVIOUS
  <2>1. i \in 1..Len(gofs)
    OBVIOUS
  <2> QED
    BY <2>1, TranscodedGofShape
<1>2. f \in [1..m -> Q] /\ h \in [1..(m + 1) -> Q]
  BY <1>1
<1>3. (\A i \in 1..m : h[i] = f[i]) /\ h[m + 1] = t
  OBVIOUS
<1> HIDE DEF f, h, Q
<1>4. f \in Seq(Q) /\ Len(f) = m /\ h \in Seq(Q) /\ Len(h) = m + 1
  BY <1>2
<1>5. FlattenSeq(h) = FlattenSeq(f) \o t
  <2>1. f \in Seq(Seq(UnitSet)) /\ h \in Seq(Seq(UnitSet))
    BY <1>4 DEF Q
  <2> QED
    BY <2>1, <1>3, <1>4, FlattenAppend
<1>6. FlattenSeq(f) \in Seq(UnitSet)
  BY <1>4, FlattenType DEF Q
<1>7. /\ t \in Seq(UnitSet) /\ t # <<>>
      /\ t[1].header.type = "VPS" /\ t[1].pay.gof = m + 1
      /\ \A k \in 2..Len(t) : t[k].header.type # "VPS"
  <2>1. m + 1 \in 1..Len(gofs)
    OBVIOUS
  <2> QED
    BY <2>1, TranscodedGofShape
<1> HIDE DEF t
<1>8. VpsGofs(FlattenSeq(f) \o t) = Append(VpsGofs(FlattenSeq(f)), m + 1)
  BY <1>6, <1>7, VpsGofsConcat
<1> QED
  BY <1>5, <1>6, <1>8 DEF Output, f, h, t

LEMMA OutputEmpty == Output(0) = <<>> /\ VpsGofs(<<>>) = <<>>
<1>1. [i \in 1..0 |-> TranscodedGof(i)] = <<>>
  OBVIOUS
<1>2. Output(0) = <<>>
  BY <1>1 DEF Output, FlattenSeq
<1>3. <<>> \in Seq(UnitSet) /\ Len(<<>>) = 0
  OBVIOUS
<1>4. VpsGofs(<<>>) = <<>>
  BY <1>3, VpsGofsRecursion
<1> QED
  BY <1>2, <1>4


\* getVideoBitstream() finds a video of the type it is asked for.
LEMMA FirstVideo ==
  ASSUME NEW c \in ContextSet, c.atlasIndex = 0, Len(c.atlasHLS) = 1,
         NEW t, videosOfType(c, t) # {}
  PROVE  /\ firstVideo(c, t) \in 1..Len(c.atlasHLS[1].videos)
         /\ c.atlasHLS[1].videos[firstVideo(c, t)].type = t
<1> DEFINE vs == c.atlasHLS[1].videos
           P == videosOfType(c, t)
<1>1. c.atlasHLS[1] \in HLSSet
  BY DEF ContextSet
<1>2. vs \in Seq(VideoSet)
  BY <1>1 DEF HLSSet
<1>3. c.atlasIndex + 1 = 1
  OBVIOUS
<1>4. P = {k \in 1..Len(vs) : vs[k].type = t}
  BY <1>2, <1>3 DEF videosOfType
<1>5. P \subseteq Nat /\ P # {}
  BY <1>4
<1> HIDE DEF P, vs
<1>6. \E k \in P : \A j \in P : k <= j
  BY <1>5, LeastElement
<1>7. firstVideo(c, t) = CHOOSE k \in P : \A j \in P : k <= j
  BY DEF firstVideo, P
<1>8. firstVideo(c, t) \in P
  BY <1>6, <1>7
<1> QED
  BY <1>4, <1>8 DEF vs

-----------------------------------------------------------------------------
(* The output. *)

\* What encode writes is the GOF at hand, transcoded.
LEMMA EncodedIsTranscoded ==
  ASSUME IInv, OutInv, encode
  PROVE  EncodedGof(context) = TranscodedGof(CurrentGof)
<1> DEFINE i == CurrentGof
           g == gofs[i]
           hs == GofHeaders(g)
           hls == context.atlasHLS[1]
           vid(h) == hls.videos[firstVideo(context, videoType(h, g))]
           pay(h) == CASE h.type = "VPS" -> Payload(i, 0, 0)
                       [] h.type = "AD"  -> hls.ad
                       [] OTHER -> vid(h).pay
           n(h) == CASE h.type = "VPS" -> 0
                     [] h.type = "AD"  -> 1
                     [] OTHER -> IF videoType(h, g) \in VideosToTranscode THEN 1 ELSE 0
<1>1. pc = "encode" /\ \A t \in EncodedVideos(context) : videosOfType(context, t) # {}
  BY DEF encode
<1>2. numVPS # 0 /\ g.atlases = 1 /\ Len(context.atlasHLS) = 1 /\ Transcoded
  <2>1. Looping /\ numVPS \in 0..2
    BY DEF IInv, Types
  <2> QED
    BY <2>1, <1>1 DEF Looping, OutInv
<1>3. AfterVps /\ Active /\ getVps(context) = i
  BY <1>1, <1>2, OwnVpsActive DEF IInv
<1>4. context \in ContextSet /\ context.atlasIndex \in Nat /\ context.atlasHLS \in Seq(HLSSet)
  BY DEF IInv, Types, ContextSet
<1>5. context.atlasIndex = 0 /\ context.atlasIndex + 1 = 1 /\ hls \in HLSSet
  BY <1>2, <1>3, <1>4 DEF AfterVps
<1>6. hls.ad \in PayloadSet /\ hls.videos \in Seq(VideoSet)
  BY <1>5 DEF HLSSet
<1>7. /\ hls.ad.atlas = 0
      /\ \A k \in 1..Len(hls.videos) : hls.videos[k].pay.gof = i /\ hls.videos[k].pay.atlas = 0
  <2>1. 1 \in 1..Len(context.atlasHLS) /\ 1 - 1 = 0
    BY <1>2
  <2> QED
    BY <2>1, <1>3 DEF AfterVps, OwnData
<1>8. hls.ad.gof = i /\ hls.ad.n = 1
  BY <1>2, <1>3 DEF Active, Transcoded
<1>9. g \in GofShapes /\ i \in Nat
  BY <1>3 DEF IInv, Types, AfterVps
<1>10. /\ hs \in Seq(HeaderSet) /\ Len(hs) \in Nat
       /\ hs[1] = Header("VPS", 0, 0, FALSE)
       /\ \A k \in 2..Len(hs) : hs[k].atlas < g.atlases
  <2>1. /\ hs \in Seq(HeaderSet)
        /\ hs[1] = Header("VPS", 0, 0, FALSE)
        /\ \A k \in 2..Len(hs) : hs[k].type # "VPS" /\ hs[k].atlas < g.atlases
    BY <1>9, GofHeadersShape
  <2> HIDE DEF hs, g
  <2> QED
    BY <2>1
<1>11. EncodedGof(context) = [k \in DOMAIN hs |-> Unit(hs[k], g.id, pay(hs[k]))]
  BY <1>3, <1>5 DEF EncodedGof
<1>12. TranscodedGof(i) = [k \in DOMAIN hs |-> Unit(hs[k], g.id, Payload(i, hs[k].atlas, n(hs[k])))]
  BY DEF TranscodedGof
<1>13. EncodedVideos(context) =
         {videoType(hs[k], g) : k \in {j \in DOMAIN hs : hs[j].type \notin {"VPS", "AD"}}}
  BY <1>3 DEF EncodedVideos
<1> HIDE DEF hs, g, i, hls
<1>14. ASSUME NEW k \in DOMAIN hs
       PROVE  pay(hs[k]) = Payload(i, hs[k].atlas, n(hs[k]))
  <2> DEFINE h == hs[k]
  <2>1. h \in HeaderSet /\ k \in 1..Len(hs)
    BY <1>10
  <2>2. h.atlas = 0
    <3>1. CASE k = 1
      BY <3>1, <1>10 DEF Header
    <3>2. CASE k # 1
      <4>1. k \in 2..Len(hs)
        BY <3>2, <2>1, <1>10
      <4>2. h.atlas < 1 /\ h.atlas \in {0, 1}
        BY <4>1, <2>1, <1>2, <1>10 DEF HeaderSet
      <4> QED
        BY <4>2
    <3> QED
      BY <3>1, <3>2
  <2> HIDE DEF h
  <2>3. CASE h.type = "VPS"
    <3>1. pay(h) = Payload(i, 0, 0) /\ n(h) = 0
      BY <2>3
    <3> QED
      BY <3>1, <2>2 DEF h
  <2>4. CASE h.type = "AD"
    <3>1. hls.ad = [gof |-> i, atlas |-> 0, n |-> 1]
      BY <1>6, <1>7, <1>8 DEF PayloadSet
    <3>2. pay(h) = hls.ad /\ n(h) = 1
      BY <2>4
    <3> QED
      BY <3>1, <3>2, <2>2 DEF Payload, h
  <2>5. CASE h.type \notin {"VPS", "AD"}
    <3> DEFINE t == videoType(h, g)
               f == firstVideo(context, t)
    <3>1. t \in EncodedVideos(context)
      BY <2>5, <1>13 DEF h
    <3>2. t \in VideoTypes
      BY <2>1, VideoTypeType DEF h
    <3>3. videosOfType(context, t) # {}
      BY <3>1, <1>1
    <3>4. f \in 1..Len(hls.videos)
      <4> HIDE DEF t
      <4> QED
        BY <3>3, <1>2, <1>4, <1>5, FirstVideo DEF hls
    <3>5. hls.videos[f].pay.n = IF t \in VideosToTranscode THEN 1 ELSE 0
      <4> HIDE DEF t
      <4> QED
        BY <3>2, <3>3, <1>2 DEF Transcoded, hls
    <3> HIDE DEF t, f
    <3>6. hls.videos[f] \in VideoSet
      BY <3>4, <1>6
    <3>7. hls.videos[f].pay \in PayloadSet
      BY <3>6 DEF VideoSet
    <3> DEFINE nn == IF t \in VideosToTranscode THEN 1 ELSE 0
               p == hls.videos[f].pay
    <3>8. p.gof = i /\ p.atlas = 0 /\ p.n = nn /\ p \in PayloadSet
      BY <3>4, <3>5, <3>7, <1>7
    <3> HIDE DEF nn, p
    <3>9. p = [gof |-> i, atlas |-> 0, n |-> nn]
      BY <3>8 DEF PayloadSet
    <3>10. pay(h) = p /\ n(h) = nn
      BY <2>5 DEF t, f, p, nn
    <3> QED
      BY <3>9, <3>10, <2>2 DEF Payload, h
  <2> QED
    BY <2>3, <2>4, <2>5 DEF h
<1> HIDE DEF pay, n
<1> QED
  BY <1>11, <1>12, <1>14 DEF i

\* Output(m) depends on the input and the parameters only.
LEMMA OutputPrime ==
  ASSUME UNCHANGED <<gofs, params>>, NEW m, Finished' = m
  PROVE  Output(Finished)' = Output(m)
<1>1. Output(Finished)' = FlattenSeq([i \in 1..Finished' |-> TranscodedGof(i)'])
  BY DEF Output
<1>2. \A i : TranscodedGof(i)' = TranscodedGof(i)
  BY DEF TranscodedGof, VideosToTranscode
<1> QED
  BY <1>1, <1>2 DEF Output

\* A step that leaves the output alone.
LEMMA QuietOutput ==
  ASSUME OutInv, UNCHANGED <<gofs, params, CurrentGof, ssvu_out, file>>,
         pc \notin {"write", "done"}, pc' \notin {"write", "done"},
         pc' \in {"transcode", "encode"} => gofs[CurrentGof].atlases = 1,
         pc' \in {"decode", "checkProfile", "transcode"} => Untouched',
         pc' = "encode" => Transcoded'
  PROVE  OutInv'
<1>1. Finished' = Finished
  BY DEF Finished
<1>2. Output(Finished)' = Output(Finished)
  BY <1>1, OutputPrime
<1>3. OutputGofs' = OutputGofs
  BY DEF OutputGofs
<1>4. /\ ssvu_out = Output(Finished)
      /\ OutputGofs = [i \in 1..Finished |-> i]
      /\ file = <<>>
  BY DEF OutInv
<1>5. /\ ssvu_out' = Output(Finished)'
      /\ OutputGofs' = [i \in 1..Finished' |-> i]
      /\ file' = <<>>
  BY <1>1, <1>2, <1>3, <1>4
<1>6. pc' \in {"transcode", "encode"} => gofs'[CurrentGof'].atlases = 1
  OBVIOUS
<1> QED
  BY <1>5, <1>6 DEF OutInv

LEMMA InitOutInv == Init => OutInv
<1> SUFFICES ASSUME Init PROVE OutInv
  OBVIOUS
<1>1. pc = "decode" /\ CurrentGof = 1 /\ ssvu_out = <<>> /\ file = <<>>
  BY DEF Init, CurrentGof
<1>2. Finished = 0
  BY <1>1 DEF Finished
<1>3. ssvu_out = Output(Finished)
  BY <1>1, <1>2, OutputEmpty
<1>4. OutputGofs = [i \in 1..Finished |-> i]
  <2>1. [i \in 1..0 |-> i] = <<>>
    OBVIOUS
  <2> QED
    BY <2>1, <1>1, <1>2, OutputEmpty DEF OutputGofs
<1>5. Untouched
  <2>1. context.atlasHLS = <<>>
    BY DEF Init, NewContext
  <2> QED
    BY <2>1 DEF Untouched
<1> QED
  BY <1>1, <1>3, <1>4, <1>5 DEF OutInv

\* Reading a parameter set keeps the atlases or adds empty ones.
LEMMA DecodeVpsOutInv ==
  ASSUME IInv, OutInv, DecodeFirstVPS \/ DecodeNextVPS
  PROVE  OutInv'
<1> DEFINE u == Head(ssvu_in)
           n == gofs[u.pay.gof].atlases
<1>1. /\ pc = "decode" /\ ssvu_in # <<>> /\ parseVPS(u)
      /\ pc' \in {"decode", "checkProfile"}
      /\ UNCHANGED <<gofs, params, ssvu_out, file>>
      /\ stat' = [stat EXCEPT ![Len(stat)] = @ + u.pay.gof] \/ stat' = stat
  BY DEF DecodeFirstVPS, DecodeNextVPS
<1>2. /\ IsRest(ssvu_in, gofs, Len(gofs)) /\ gofs \in Seq(GofShapes)
      /\ context \in ContextSet /\ stat \in Seq(Nat)
  BY DEF IInv, Types
<1>3. CurrentGof' = CurrentGof
  BY <1>1, <1>2 DEF CurrentGof
<1>4. IsUnit(u, gofs)
  BY <1>1, <1>2, RestTail
<1>5. u.pay.gof \in 1..Len(gofs)
  BY <1>4 DEF IsUnit
<1> HIDE DEF u
<1>6. /\ Len(context'.atlasHLS) = n
      /\ \A k \in 1..n :
           context'.atlasHLS[k] = IF k <= Len(context.atlasHLS) THEN context.atlasHLS[k] ELSE EmptyHLS
  BY <1>1, <1>2, <1>5, ParseVps
<1>7. n \in Nat
  BY <1>1, <1>2, <1>5, ParseVps
<1> HIDE DEF n
<1>8. Untouched
  BY <1>1 DEF OutInv
<1>9. ASSUME NEW a \in 1..n
      PROVE  /\ context'.atlasHLS[a].ad.n = 0
             /\ \A k \in 1..Len(context'.atlasHLS[a].videos) : context'.atlasHLS[a].videos[k].pay.n = 0
  <2>1. CASE a <= Len(context.atlasHLS)
    <3>1. context.atlasHLS \in Seq(HLSSet) /\ a \in Nat /\ 1 <= a
      BY <1>2, <1>7 DEF ContextSet
    <3>2. a \in 1..Len(context.atlasHLS)
      BY <3>1, <2>1
    <3>3. context'.atlasHLS[a] = context.atlasHLS[a]
      BY <2>1, <1>6
    <3> QED
      BY <3>2, <3>3, <1>8 DEF Untouched
  <2>2. CASE ~(a <= Len(context.atlasHLS))
    <3>1. context'.atlasHLS[a] = EmptyHLS
      BY <2>2, <1>6
    <3> QED
      BY <3>1 DEF EmptyHLS, NoAtlasData, Payload
  <2> QED
    BY <2>1, <2>2
<1>10. Untouched'
  BY <1>6, <1>9 DEF Untouched
<1> QED
  BY <1>1, <1>3, <1>10, QuietOutput

\* Atlas data loses its END, and the videos of the input were not transcoded.
LEMMA DecodeDataOutInv ==
  ASSUME IInv, OutInv, DecodeData
  PROVE  OutInv'
<1> DEFINE u == ssvu_in[1]
           a == u.header.atlas + 1
<1>1. /\ pc = "decode" /\ pc' = "decode"
      /\ UNCHANGED <<gofs, params, ssvu_out, file, stat>>
  BY DEF DecodeData
<1>2. u \in UnitSet /\ IsUnit(u, gofs) /\ a \in 1..Len(context.atlasHLS)
  BY DecodeDataStep
<1>3. PICK typ \in VideoTypes :
        LET h == DecodedAtlas(u, context.atlasHLS[a], typ) IN
        /\ Len(context'.atlasHLS) = Len(context.atlasHLS)
        /\ \A k \in 1..Len(context.atlasHLS) :
             context'.atlasHLS[k] = IF k = a THEN h ELSE context.atlasHLS[k]
  BY DecodeDataStep
<1> DEFINE h == DecodedAtlas(u, context.atlasHLS[a], typ)
           hls == context.atlasHLS[a]
<1>4. hls \in HLSSet
  <2>1. context.atlasHLS \in Seq(HLSSet)
    BY DEF IInv, Types, ContextSet
  <2> HIDE DEF a
  <2> QED
    BY <2>1, <1>2
<1>5. u.header.type # "AD" => u.pay.n = 0
  BY <1>2 DEF IsUnit
<1>6. IF u.header.type = "AD"
        THEN h.ad.n = 0 /\ h.videos = hls.videos
        ELSE /\ h.ad = hls.ad
             /\ Len(h.videos) = Len(hls.videos) + 1
             /\ h.videos[Len(hls.videos) + 1].pay = u.pay
             /\ \A k \in 1..Len(hls.videos) : h.videos[k] = hls.videos[k]
  <2> HIDE DEF u, hls
  <2> QED
    BY <1>2, <1>4, DecodedAtlasType DEF hls
<1>7. hls.videos \in Seq(VideoSet) /\ Len(hls.videos) \in Nat
  <2> HIDE DEF hls
  <2> QED
    BY <1>4 DEF HLSSet
<1>8. Untouched
  BY <1>1 DEF OutInv
<1>9. hls.ad.n = 0 /\ \A k \in 1..Len(hls.videos) : hls.videos[k].pay.n = 0
  BY <1>2, <1>8 DEF Untouched
<1>10. \A k \in 1..Len(context.atlasHLS) :
         context'.atlasHLS[k] = IF k = a THEN h ELSE context.atlasHLS[k]
  BY <1>3
<1> HIDE DEF h, hls, u, a
<1>11. h.ad.n = 0 /\ \A k \in 1..Len(h.videos) : h.videos[k].pay.n = 0
  <2>1. CASE u.header.type = "AD"
    BY <2>1, <1>6, <1>9
  <2>2. CASE u.header.type # "AD"
    <3>1. \A k \in 1..(Len(hls.videos) + 1) : k = Len(hls.videos) + 1 \/ k \in 1..Len(hls.videos)
      BY <1>7
    <3> QED
      BY <3>1, <2>2, <1>5, <1>6, <1>9
  <2> QED
    BY <2>1, <2>2
<1>12. Untouched'
  <2>1. ASSUME NEW b \in 1..Len(context.atlasHLS)
        PROVE  /\ context'.atlasHLS[b].ad.n = 0
               /\ \A k \in 1..Len(context'.atlasHLS[b].videos) :
                    context'.atlasHLS[b].videos[k].pay.n = 0
    <3>1. CASE b = a
      BY <3>1, <1>10, <1>11
    <3>2. CASE b # a
      <4>1. context'.atlasHLS[b] = context.atlasHLS[b]
        BY <3>2, <1>10
      <4> QED
        BY <4>1, <1>8 DEF Untouched
    <3> QED
      BY <3>1, <3>2
  <2> QED
    BY <2>1, <1>3 DEF Untouched
<1>13. CurrentGof' = CurrentGof
  BY <1>1 DEF CurrentGof
<1> QED
  BY <1>1, <1>12, <1>13, QuietOutput

\* The end of the units, and the exits.
LEMMA QuietStepsOutInv ==
  ASSUME IInv, OutInv, DecodeEnd \/ ProfileRefused \/ TranscodeExits \/ CodecExits \/ EncodeExits
  PROVE  OutInv'
<1>1. /\ UNCHANGED <<gofs, params, ssvu_out, file, stat, context>>
      /\ pc' = "checkProfile" => pc = "decode"
      /\ pc \notin {"write", "done"}
      /\ pc' \in {"checkProfile", "refused", "exit", "codecExit"}
  BY DEF DecodeEnd, ProfileRefused, TranscodeExits, CodecExits, EncodeExits
<1>2. pc' = "checkProfile" => Untouched'
  BY <1>1 DEF OutInv, Untouched
<1>3. CurrentGof' = CurrentGof
  BY <1>1 DEF CurrentGof
<1> QED
  BY <1>1, <1>2, <1>3, QuietOutput

\* A GOF the profile accepts has one atlas.
LEMMA ProfileAcceptedOutInv ==
  ASSUME AtlasAssumption, IInv, OutInv, ProfileAccepted
  PROVE  OutInv'
<1>1. /\ UNCHANGED <<gofs, params, ssvu_out, file, stat, context>>
      /\ pc = "checkProfile" /\ pc' = "transcode"
      /\ Len(context.atlasHLS) = 1 /\ gofs[getVps(context)].good
  BY DEF ProfileAccepted, checkProfile
<1>2. numVPS # 0
  <2>1. NewContext.atlasHLS = <<>> /\ Len(<<>>) = 0
    BY DEF NewContext
  <2>2. Len(context.atlasHLS) = 1
    BY <1>1
  <2>3. context # NewContext
    BY <2>1, <2>2
  <2> QED
    BY <2>3 DEF IInv, BeforeVps
<1>3. getVps(context) = CurrentGof /\ gofs \in Seq(GofShapes) /\ CurrentGof \in 1..Len(gofs)
  BY <1>1, <1>2, OwnVpsActive DEF IInv, Types, AfterVps
<1>4. gofs[CurrentGof] \in GofShapes
  BY <1>3
<1>5. gofs[CurrentGof].atlases = 1
  BY <1>1, <1>3, <1>4 DEF AtlasAssumption
<1>6. Untouched'
  BY <1>1 DEF OutInv, Untouched
<1>7. CurrentGof' = CurrentGof
  BY <1>1 DEF CurrentGof
<1> QED
  BY <1>1, <1>5, <1>6, <1>7, QuietOutput

\* transcodeData leaves the types of the videos alone.
LEMMA TranscodedTypes ==
  ASSUME IInv, transcode, NEW t
  PROVE  /\ videosOfType(context', t) = videosOfType(context, t)
         /\ firstVideo(context', t) = firstVideo(context, t)
<1> DEFINE vs == context.atlasHLS[1].videos
           ws == context'.atlasHLS[1].videos
           first(k) == \E s \in VideosToTranscode : k = firstVideo(context, s)
<1>1. /\ context.atlasIndex + 1 = 1 /\ context'.atlasIndex + 1 = 1
      /\ context.atlasHLS[1] \in HLSSet /\ context' \in ContextSet /\ Len(context'.atlasHLS) = 1
      /\ Len(ws) = Len(vs)
      /\ \A k \in 1..Len(vs) : ws[k] = IF first(k) THEN [vs[k] EXCEPT !.pay.n = @ + 1] ELSE vs[k]
  BY TranscodeStep, SMTT(30)
<1>2. vs \in Seq(VideoSet)
  BY <1>1 DEF HLSSet
<1>3. ws \in Seq(VideoSet)
  <2>1. context'.atlasHLS[1] \in HLSSet
    BY <1>1 DEF ContextSet
  <2> QED
    BY <2>1 DEF HLSSet
<1>4. videosOfType(context, t) = {k \in DOMAIN vs : vs[k].type = t}
  BY <1>1 DEF videosOfType
<1>5. videosOfType(context', t) = {k \in DOMAIN ws : ws[k].type = t}
  BY <1>1 DEF videosOfType
<1> HIDE DEF vs, ws, first
<1>6. DOMAIN vs = 1..Len(vs) /\ DOMAIN ws = 1..Len(vs)
  BY <1>1, <1>2, <1>3
<1>7. ASSUME NEW k \in 1..Len(vs) PROVE ws[k].type = vs[k].type
  <2>1. vs[k] \in VideoSet
    BY <1>2
  <2>2. ws[k] = [vs[k] EXCEPT !.pay.n = @ + 1] \/ ws[k] = vs[k]
    BY <1>1
  <2> QED
    BY <2>1, <2>2 DEF VideoSet
<1>8. videosOfType(context', t) = videosOfType(context, t)
  BY <1>4, <1>5, <1>6, <1>7
<1> QED
  BY <1>8 DEF firstVideo

LEMMA TranscodeOutInv ==
  ASSUME IInv, OutInv, transcode
  PROVE  OutInv'
<1> DEFINE hls == context.atlasHLS[1]
           h == context'.atlasHLS[1]
<1>1. /\ pc = "transcode" /\ pc' = "encode"
      /\ UNCHANGED <<gofs, params, ssvu_out, file, stat>>
      /\ \A t \in VideosToTranscode : videosOfType(context, t) # {}
  BY DEF transcode
<1>2. /\ context.atlasIndex = 0 /\ Len(context.atlasHLS) = 1 /\ hls \in HLSSet
      /\ h.ad = [hls.ad EXCEPT !.n = @ + 1]
      /\ Len(h.videos) = Len(hls.videos)
      /\ \A k \in 1..Len(hls.videos) :
           h.videos[k] = IF \E t \in VideosToTranscode : k = firstVideo(context, t)
                           THEN [hls.videos[k] EXCEPT !.pay.n = @ + 1] ELSE hls.videos[k]
  BY TranscodeStep
<1>3. hls.ad \in PayloadSet /\ hls.videos \in Seq(VideoSet)
  BY <1>2 DEF HLSSet
<1>4. hls.ad.n = 0 /\ \A k \in 1..Len(hls.videos) : hls.videos[k].pay.n = 0
  <2>1. Untouched /\ 1 \in 1..Len(context.atlasHLS)
    BY <1>1, <1>2 DEF OutInv
  <2> QED
    BY <2>1 DEF Untouched
<1>5. context \in ContextSet
  BY DEF IInv, Types
<1>6. ASSUME NEW t, videosOfType(context, t) # {}
      PROVE  firstVideo(context, t) \in 1..Len(hls.videos) /\ hls.videos[firstVideo(context, t)].type = t
  BY <1>2, <1>5, <1>6, FirstVideo
<1> HIDE DEF hls, h
<1>7. h.ad.n = 1
  BY <1>2, <1>3, <1>4 DEF PayloadSet
<1>8. ASSUME NEW t \in VideoTypes, videosOfType(context', t) # {}
      PROVE  h.videos[firstVideo(context', t)].pay.n = IF t \in VideosToTranscode THEN 1 ELSE 0
  <2> DEFINE f == firstVideo(context, t)
  <2>1. videosOfType(context, t) # {} /\ firstVideo(context', t) = f
    BY <1>8, TranscodedTypes
  <2>2. f \in 1..Len(hls.videos) /\ hls.videos[f].type = t
    BY <2>1, <1>6
  <2>3. hls.videos[f] \in VideoSet /\ hls.videos[f].pay.n = 0
    BY <2>2, <1>3, <1>4
  <2>4. (\E s \in VideosToTranscode : f = firstVideo(context, s)) <=> t \in VideosToTranscode
    <3>1. ASSUME NEW s \in VideosToTranscode, f = firstVideo(context, s) PROVE s = t
      <4>1. hls.videos[firstVideo(context, s)].type = s
        BY <1>1, <1>6
      <4> QED
        BY <4>1, <3>1, <2>2
    <3> QED
      BY <3>1
  <2> HIDE DEF f
  <2>5. h.videos[f] = IF t \in VideosToTranscode
                        THEN [hls.videos[f] EXCEPT !.pay.n = @ + 1] ELSE hls.videos[f]
    BY <2>2, <2>4, <1>2
  <2>6. h.videos[f].pay.n = IF t \in VideosToTranscode THEN 1 ELSE 0
    BY <2>3, <2>5 DEF VideoSet, PayloadSet
  <2> QED
    BY <2>1, <2>6
<1>9. VideosToTranscode' = VideosToTranscode
  BY <1>1 DEF VideosToTranscode
<1>10. Transcoded'
  BY <1>7, <1>8, <1>9 DEF Transcoded, h
<1>11. CurrentGof' = CurrentGof /\ gofs[CurrentGof].atlases = 1
  BY <1>1 DEF CurrentGof, OutInv
<1> QED
  BY <1>1, <1>10, <1>11, QuietOutput

\* encode appends the transcoded GOF, and ends the loop over its one atlas.
LEMMA EncodeStep ==
  ASSUME IInv, OutInv, encode
  PROVE  /\ Finished \in Nat /\ Finished + 1 <= Len(gofs)
         /\ Finished' = Finished + 1
         /\ ssvu_out' = Output(Finished + 1)
         /\ OutputGofs' = Append(OutputGofs, Finished + 1)
         /\ UNCHANGED <<gofs, params, file>>
         /\ pc = "encode"
         /\ \/ pc' = "write"
            \/ pc' = "decode" /\ context' = NewContext
<1> DEFINE i == CurrentGof
           m == Finished
<1>1. /\ pc = "encode" /\ UNCHANGED <<gofs, params, file>>
      /\ ssvu_out' = ssvu_out \o EncodedGof(context)
  BY DEF encode
<1>2. /\ numVPS # 0 /\ atlId < gofs[i].atlases /\ stat \in Seq(Nat)
      /\ gofs \in Seq(GofShapes) /\ atlId \in 0..64
  BY <1>1 DEF IInv, Types, Looping
<1>3. AfterVps /\ getVps(context) = i
  BY <1>1, <1>2, OwnVpsActive DEF IInv
<1>4. gofs[i].atlases = 1 /\ ssvu_out = Output(m) /\ m = i - 1
  BY <1>1 DEF OutInv, Finished
<1>5. i \in 1..Len(gofs) /\ Len(gofs) \in Nat
  BY <1>2, <1>3 DEF AfterVps
<1>6. ~(atlId + 1 < gofs[getVps(context)].atlases)
  <2>1. gofs[getVps(context)].atlases = 1 /\ atlId \in 0..64
    BY <1>2, <1>3, <1>4, Zenon
  <2>2. ~(atlId + 1 < 1)
    BY <2>1
  <2> QED
    BY <2>1, <2>2, Zenon
<1>7. \/ pc' = "write" /\ stat' = stat
      \/ pc' = "decode" /\ context' = NewContext /\ stat' = Append(stat, 0)
  BY <1>6 DEF encode
<1>8. Finished' = i
  <2>1. CASE pc' = "write" /\ stat' = stat
    BY <2>1 DEF Finished, CurrentGof
  <2>2. CASE pc' = "decode" /\ stat' = Append(stat, 0)
    <3>1. Len(stat') = Len(stat) + 1 /\ Len(stat) \in Nat
      BY <2>2, <1>2
    <3> QED
      BY <3>1, <2>2 DEF Finished, CurrentGof
  <2> QED
    BY <2>1, <2>2, <1>7
<1>9. EncodedGof(context) = TranscodedGof(i)
  BY EncodedIsTranscoded
<1> HIDE DEF i, m
<1>10. m \in Nat /\ m + 1 = i /\ m < Len(gofs) /\ m + 1 <= Len(gofs)
  BY <1>4, <1>5
<1>11. /\ Output(m + 1) = Output(m) \o TranscodedGof(m + 1)
       /\ VpsGofs(Output(m + 1)) = Append(VpsGofs(Output(m)), m + 1)
  BY <1>2, <1>10, OutputStep
<1>12. ssvu_out' = Output(m + 1)
  BY <1>1, <1>4, <1>9, <1>10, <1>11
<1>13. OutputGofs' = Append(OutputGofs, m + 1)
  <2>1. OutputGofs' = VpsGofs(ssvu_out') /\ OutputGofs = VpsGofs(Output(m))
    BY <1>4 DEF OutputGofs
  <2> QED
    BY <2>1, <1>11, <1>12
<1> QED
  BY <1>1, <1>7, <1>8, <1>10, <1>12, <1>13 DEF m

LEMMA IotaAppend ==
  ASSUME NEW m \in Nat
  PROVE  Append([i \in 1..m |-> i], m + 1) = [i \in 1..(m + 1) |-> i]
<1> DEFINE s == [i \in 1..m |-> i]
           t == Append(s, m + 1)
           u == [i \in 1..(m + 1) |-> i]
<1>1. s \in [1..m -> Nat] /\ u \in [1..(m + 1) -> Nat]
  OBVIOUS
<1>2. s \in Seq(Nat) /\ Len(s) = m /\ u \in Seq(Nat) /\ Len(u) = m + 1
  BY <1>1
<1>3. (\A k \in 1..m : s[k] = k) /\ (\A k \in 1..(m + 1) : u[k] = k)
  OBVIOUS
<1> HIDE DEF s, u
<1>4. t \in Seq(Nat) /\ Len(t) = m + 1 /\ t[m + 1] = m + 1 /\ \A k \in 1..m : t[k] = s[k]
  BY <1>2
<1> HIDE DEF t
<1>5. \A k \in 1..(m + 1) : t[k] = u[k]
  BY <1>3, <1>4
<1>6. t = u
  BY <1>2, <1>4, <1>5
<1> QED
  BY <1>6 DEF s, t, u

LEMMA EncodeOutInv ==
  ASSUME IInv, OutInv, encode
  PROVE  OutInv'
<1> DEFINE m == Finished
<1>1. /\ m \in Nat /\ Finished' = m + 1 /\ ssvu_out' = Output(m + 1)
      /\ OutputGofs' = Append(OutputGofs, m + 1)
      /\ UNCHANGED <<gofs, params, file>>
      /\ pc = "encode"
      /\ pc' = "write" \/ (pc' = "decode" /\ context' = NewContext)
  BY EncodeStep
<1>2. OutputGofs = [i \in 1..m |-> i] /\ file = <<>>
  BY <1>1 DEF OutInv
<1> HIDE DEF m
<1>3. OutputGofs' = [i \in 1..Finished' |-> i]
  BY <1>1, <1>2, IotaAppend
<1>4. ssvu_out' = Output(Finished)'
  BY <1>1, OutputPrime
<1>5. pc' = "decode" => Untouched'
  <2>1. pc' = "decode" => context'.atlasHLS = <<>>
    BY <1>1 DEF NewContext
  <2> QED
    BY <2>1 DEF Untouched
<1> QED
  BY <1>1, <1>2, <1>3, <1>4, <1>5 DEF OutInv

LEMMA WriteOutInv ==
  ASSUME IInv, OutInv, write
  PROVE  OutInv'
<1>1. /\ pc = "write" /\ pc' = "done" /\ file' = ssvu_out
      /\ UNCHANGED <<gofs, params, ssvu_out, stat>>
  BY DEF write
<1>2. Finished' = Finished /\ OutputGofs' = OutputGofs
  BY <1>1 DEF Finished, CurrentGof, OutputGofs
<1>3. ssvu_out' = Output(Finished)'
  BY <1>1, <1>2, OutputPrime DEF OutInv
<1>4. OutputGofs' = [i \in 1..Finished' |-> i]
  <2>1. OutputGofs = [i \in 1..Finished |-> i]
    BY DEF OutInv
  <2> QED
    BY <2>1, <1>2
<1> QED
  BY <1>1, <1>3, <1>4 DEF OutInv

LEMMA StutterOutInv ==
  ASSUME IInv, OutInv, UNCHANGED vars
  PROVE  OutInv'
<1>1. UNCHANGED <<gofs, params, ssvu_out, file, stat, context, pc>>
  BY DEF vars
<1>2. Finished' = Finished /\ OutputGofs' = OutputGofs /\ VideosToTranscode' = VideosToTranscode
      /\ CurrentGof' = CurrentGof
  BY <1>1 DEF Finished, CurrentGof, OutputGofs, VideosToTranscode
<1>3. ssvu_out' = Output(Finished)'
  BY <1>1, <1>2, OutputPrime DEF OutInv
<1>4. OutputGofs' = [i \in 1..Finished' |-> i]
  <2>1. OutputGofs = [i \in 1..Finished |-> i]
    BY DEF OutInv
  <2> QED
    BY <2>1, <1>2
<1>5. file' = IF pc' = "done" THEN ssvu_out' ELSE <<>>
  BY <1>1 DEF OutInv
<1>6. pc' \in {"transcode", "encode"} => gofs'[CurrentGof'].atlases = 1
  BY <1>1, <1>2 DEF OutInv
<1>7. /\ pc' \in {"decode", "checkProfile", "transcode"} => Untouched'
      /\ pc' = "encode" => Transcoded'
  BY <1>1, <1>2 DEF OutInv, Untouched, Transcoded
<1> QED
  BY <1>3, <1>4, <1>5, <1>6, <1>7 DEF OutInv

LEMMA NextOutInv ==
  ASSUME AtlasAssumption, IInv, OutInv, [Next]_vars
  PROVE  OutInv'
BY DecodeVpsOutInv, DecodeDataOutInv, QuietStepsOutInv, ProfileAcceptedOutInv, TranscodeOutInv,
   EncodeOutInv, WriteOutInv, StutterOutInv
DEF Next

LEMMA OutInvAlways ==
  ASSUME AtlasAssumption
  PROVE  Spec => [](IInv /\ OutInv)
<1>1. Init => IInv /\ OutInv
  BY InitIInv, InitOutInv
<1>2. IInv /\ OutInv /\ [Next]_vars => IInv' /\ OutInv'
  BY NextIInv, NextOutInv
<1> QED
  BY <1>1, <1>2, PTL DEF Spec

\* For every stream whose GOFs have at most one attribute (GofAssumption) and of
\* which the profile accepts no GOF of several atlases:
\* ssvu_out is at all times made of whole GOFs, the first ones of the input in
\* order and each once, with one END per tile and no video transcoded twice;
\* and the file, once written, is all of them.
THEOREM OutputAlwaysInOrder ==
  ASSUME AtlasAssumption
  PROVE  Spec => []OutputInOrder
<1>1. ASSUME IInv, OutInv PROVE OutputInOrder
  <2>1. stat \in Seq(Nat) /\ stat # <<>> /\ gofs \in Seq(GofShapes)
    BY <1>1 DEF IInv, Types
  <2>2. CurrentGof \in Nat /\ CurrentGof >= 1
    BY <2>1 DEF CurrentGof
  <2>3. Finished \in Nat
    BY <2>2 DEF Finished
  <2>4. Len([i \in 1..Finished |-> i]) = Finished
    BY <2>3
  <2>5. ssvu_out = Output(Len(OutputGofs))
    BY <2>4, <1>1 DEF OutInv
  <2>6. pc = "done" => ssvu_out = FlattenSeq([i \in DOMAIN gofs |-> TranscodedGof(i)])
    <3> SUFFICES ASSUME pc = "done" PROVE ssvu_out = FlattenSeq([i \in DOMAIN gofs |-> TranscodedGof(i)])
      OBVIOUS
    <3>1. numVPS = 1 /\ ssvu_in = <<>>
      BY <1>1 DEF IInv, Looping
    <3>2. CurrentGof = Len(gofs)
      BY <3>1, <1>1 DEF IInv, AfterVps, OwnVps
    <3>3. DOMAIN gofs = 1..Finished
      BY <3>2, <2>1 DEF Finished
    <3> QED
      BY <3>3, <1>1 DEF OutInv, Output
  <2> QED
    BY <2>5, <2>6, <1>1 DEF OutInv, Output, OutputInOrder
<1> QED
  BY <1>1, OutInvAlways, PTL

-----------------------------------------------------------------------------
(* decompressVideo implements StreamTranscoding. *)

\* The refinement mapping: the GOFs that are not finished, in order.
Todo(m, n) == [k \in 1..(n - m) |-> m + k]

Status ==
  CASE pc = "done" -> "published"
    [] pc \in {"refused", "exit", "codecExit"} -> "failed"
    [] OTHER -> "running"

LEMMA TodoSequence ==
  ASSUME NEW m \in Nat, NEW n \in Nat, m < n
  PROVE  Todo(m, n) # <<>> /\ Head(Todo(m, n)) = m + 1 /\ Tail(Todo(m, n)) = Todo(m + 1, n)
<1> DEFINE s == Todo(m, n)
           t == Todo(m + 1, n)
<1>1. s \in [1..(n - m) -> Nat] /\ t \in [1..(n - (m + 1)) -> Nat] /\ n - m \in Nat /\ n - (m + 1) \in Nat
  BY DEF Todo
<1>2. s \in Seq(Nat) /\ Len(s) = n - m /\ t \in Seq(Nat) /\ Len(t) = n - (m + 1)
  <2>1. ASSUME NEW p \in Nat, NEW f \in [1..p -> Nat] PROVE f \in Seq(Nat) /\ Len(f) = p
    OBVIOUS
  <2> HIDE DEF s, t
  <2>2. s \in Seq(Nat) /\ Len(s) = n - m
    BY <1>1, <2>1
  <2>3. t \in Seq(Nat) /\ Len(t) = n - (m + 1)
    BY <1>1, <2>1
  <2> QED
    BY <2>2, <2>3
<1>3. (\A k \in 1..(n - m) : s[k] = m + k) /\ (\A k \in 1..(n - (m + 1)) : t[k] = (m + 1) + k)
  BY DEF Todo
<1> HIDE DEF s, t
<1>4. s # <<>> /\ Len(s) >= 1 /\ Head(s) = m + 1
  BY <1>2, <1>3
<1>5. /\ Tail(s) \in Seq(Nat) /\ Len(Tail(s)) = Len(s) - 1
      /\ \A k \in 1..(Len(s) - 1) : Tail(s)[k] = s[k + 1]
  BY <1>2, <1>4
<1>6. Tail(s) = t
  <2>1. Len(Tail(s)) = Len(t)
    BY <1>2, <1>5
  <2>2. ASSUME NEW k \in 1..Len(t) PROVE Tail(s)[k] = t[k]
    <3>1. k \in 1..(n - (m + 1)) /\ k \in 1..(Len(s) - 1) /\ k + 1 \in 1..(n - m)
      BY <1>2
    <3> QED
      BY <3>1, <1>3, <1>5
  <2> DEFINE u == Tail(s)
  <2>3. u \in Seq(Nat) /\ t \in Seq(Nat) /\ Len(u) = Len(t) /\ \A k \in 1..Len(t) : u[k] = t[k]
    BY <2>1, <2>2, <1>2, <1>5
  <2> HIDE DEF u
  <2>4. u = t
    BY <2>3
  <2> QED
    BY <2>4 DEF u
<1> QED
  BY <1>4, <1>6 DEF s, t

\* Where the mapping stands: Finished counts the GOFs of the output.
LEMMA Mapping ==
  ASSUME IInv, OutInv
  PROVE  /\ Finished \in Nat /\ Len(gofs) \in Nat /\ Len(gofs) <= MaxGofs
         /\ Len(OutputGofs) = Finished
         /\ pc \in {"write", "done"} => Finished = Len(gofs)
<1>1. stat \in Seq(Nat) /\ stat # <<>> /\ gofs \in Seq(GofShapes) /\ Len(gofs) \in 0..MaxGofs
  BY DEF IInv, Types
<1>2. Len(gofs) \in Nat /\ Len(gofs) <= MaxGofs
  BY <1>1, GofAssumption
<1>3. CurrentGof \in Nat /\ CurrentGof >= 1
  BY <1>1 DEF CurrentGof
<1>4. Finished \in Nat
  BY <1>3 DEF Finished
<1>5. Len([i \in 1..Finished |-> i]) = Finished
  BY <1>4
<1>6. Len(OutputGofs) = Finished
  BY <1>5 DEF OutInv
<1>7. pc \in {"write", "done"} => Finished = Len(gofs)
  <2> SUFFICES ASSUME pc \in {"write", "done"} PROVE Finished = Len(gofs)
    OBVIOUS
  <2>1. numVPS = 1 /\ ssvu_in = <<>>
    BY DEF IInv, Looping
  <2>2. CurrentGof = Len(gofs)
    BY <2>1 DEF IInv, AfterVps, OwnVps
  <2> QED
    BY <2>2 DEF Finished
<1> QED
  BY <1>2, <1>4, <1>6, <1>7

\* Every step of decompressVideo is one of StreamTranscoding, or none.
LEMMA StreamStep ==
  ASSUME AtlasAssumption, IInv, OutInv, [Next]_vars
  PROVE  [Stream!Next]_(Stream!svars)
<1> DEFINE m == Finished
           n == Len(gofs)
           T == [k \in 1..(Len(gofs) - Len(OutputGofs)) |-> Len(OutputGofs) + k]
           S == Status
<1>1. /\ m \in Nat /\ n \in Nat /\ Len(OutputGofs) = m
      /\ pc \in {"write", "done"} => m = n
  BY Mapping
<1>2. T = Todo(m, n)
  BY <1>1 DEF Todo
<1>3. CASE encode
  <2>1. /\ m + 1 <= n /\ m' = m + 1 /\ OutputGofs' = Append(OutputGofs, m + 1)
        /\ UNCHANGED gofs /\ pc = "encode" /\ pc' \in {"write", "decode"}
    BY <1>3, EncodeStep
  <2>2. Len(OutputGofs') = m + 1
    <3>1. OutputGofs = [i \in 1..m |-> i]
      BY DEF OutInv
    <3> HIDE DEF m
    <3>2. [i \in 1..m |-> i] \in [1..m -> Nat]
      OBVIOUS
    <3>3. OutputGofs \in Seq(Nat)
      BY <3>1, <3>2, <1>1
    <3> QED
      BY <3>3, <2>1, <1>1
  <2>3. T' = Todo(m + 1, n)
    BY <2>1, <2>2 DEF Todo
  <2>4. T # <<>> /\ Head(T) = m + 1 /\ T' = Tail(T)
    <3> HIDE DEF m, n, T
    <3>1. m < n
      BY <1>1, <2>1
    <3>2. Todo(m, n) # <<>> /\ Head(Todo(m, n)) = m + 1 /\ Tail(Todo(m, n)) = Todo(m + 1, n)
      BY <1>1, <3>1, TodoSequence
    <3> QED
      BY <1>2, <2>3, <3>2
  <2>5. S = "running" /\ S' = "running"
    BY <2>1 DEF Status
  <2>6. OutputGofs' = Append(OutputGofs, Head(T))
    BY <2>1, <2>4
  <2>7. Stream!TranscodeGof
    BY <2>4, <2>5, <2>6 DEF Stream!TranscodeGof, Status
  <2> QED
    BY <2>7 DEF Stream!Next
<1>4. CASE write
  <2>1. pc = "write" /\ pc' = "done" /\ UNCHANGED <<gofs, ssvu_out>>
    BY <1>4 DEF write
  <2>2. OutputGofs' = OutputGofs
    BY <2>1 DEF OutputGofs
  <2>3. T' = T
    BY <2>1, <2>2
  <2>4. T = <<>>
    <3>1. Todo(n, n) = <<>>
      BY <1>1 DEF Todo
    <3> QED
      BY <3>1, <1>1, <1>2, <2>1
  <2>5. S = "running" /\ S' = "published"
    BY <2>1 DEF Status
  <2>6. Stream!Publish
    BY <2>2, <2>3, <2>4, <2>5 DEF Stream!Publish, Status
  <2> QED
    BY <2>6 DEF Stream!Next
<1>5. CASE ProfileRefused \/ TranscodeExits \/ CodecExits \/ EncodeExits
  <2>1. /\ pc \in {"checkProfile", "transcode", "encode"} /\ pc' \in {"refused", "exit", "codecExit"}
        /\ UNCHANGED <<gofs, ssvu_out>>
    BY <1>5 DEF ProfileRefused, TranscodeExits, CodecExits, EncodeExits
  <2>2. OutputGofs' = OutputGofs
    BY <2>1 DEF OutputGofs
  <2>3. T' = T
    BY <2>1, <2>2
  <2>4. S = "running" /\ S' = "failed"
    BY <2>1 DEF Status
  <2>5. Stream!Fail
    BY <2>2, <2>3, <2>4 DEF Stream!Fail, Status
  <2> QED
    BY <2>5 DEF Stream!Next
<1>6. CASE \/ DecodeFirstVPS \/ DecodeNextVPS \/ DecodeData \/ DecodeEnd
           \/ ProfileAccepted \/ transcode \/ UNCHANGED vars
  <2>1. /\ UNCHANGED <<gofs, ssvu_out>>
        /\ \/ /\ pc \in {"decode", "checkProfile", "transcode"}
              /\ pc' \in {"decode", "checkProfile", "transcode", "encode"}
           \/ UNCHANGED pc
    BY <1>6 DEF DecodeFirstVPS, DecodeNextVPS, DecodeData, DecodeEnd, ProfileAccepted, transcode, vars
  <2>2. OutputGofs' = OutputGofs
    BY <2>1 DEF OutputGofs
  <2>3. T' = T
    BY <2>1, <2>2
  <2>4. S' = S
    BY <2>1 DEF Status
  <2> QED
    BY <2>2, <2>3, <2>4 DEF Stream!svars, Status
<1> QED
  BY <1>3, <1>4, <1>5, <1>6 DEF Next

LEMMA StreamInit == Init => Stream!Init
<1> SUFFICES ASSUME Init PROVE Stream!Init
  OBVIOUS
<1>1. OutputGofs = <<>>
  BY OutputEmpty DEF Init, OutputGofs
<1>2. Len(gofs) \in 0..MaxGofs
  BY InitIInv DEF IInv, Types
<1>3. Len(OutputGofs) = 0 /\ Len(gofs) \in Nat
  BY <1>1, <1>2, GofAssumption
<1>4. pc = "decode"
  BY DEF Init
<1> DEFINE n == Len(gofs)
           T == [k \in 1..(Len(gofs) - Len(OutputGofs)) |-> Len(OutputGofs) + k]
<1>5. T = [i \in 1..(n + 1 - 1) |-> 1 + i - 1]
  <2>1. 1..(Len(gofs) - Len(OutputGofs)) = 1..(n + 1 - 1)
    BY <1>3
  <2>2. \A k \in 1..(n + 1 - 1) : Len(OutputGofs) + k = 1 + k - 1
    BY <1>3
  <2> HIDE DEF n
  <2> QED
    BY <2>1, <2>2
<1>6. \E j \in 0..MaxGofs : T = Stream!Gofs(1, j)
  BY <1>2, <1>5 DEF Stream!Gofs
<1> QED
  BY <1>1, <1>4, <1>6 DEF Stream!Init

\* Under the same assumption decompressVideo implements StreamTranscoding: the
\* GOFs are transcoded in order and each once, and the file appears only when
\* all of them are in it.
THEOREM ImplementsStreamTranscoding ==
  ASSUME AtlasAssumption
  PROVE  Spec => ImplementsStream
<1>1. Init => Stream!Init
  BY StreamInit
<1>2. IInv /\ OutInv /\ [Next]_vars => [Stream!Next]_(Stream!svars)
  BY StreamStep
<1>3. Spec => [](IInv /\ OutInv)
  BY OutInvAlways
<1> QED
  BY <1>1, <1>2, <1>3, PTL DEF Spec, ImplementsStream, Stream!Spec
=============================================================================
