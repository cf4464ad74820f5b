--------------------------------- MODULE FlvFile ---------------------------------
(***************************************************************************)
(* FLV files (go-flv): FlvWriter makes tags of frames, other programs may  *)
(* have put tags of their own between them, and FlvReader is given the     *)
(* bytes in pieces cut anywhere.                                           *)
(*                                                                         *)
(* A NAL unit is [t, len, first, v]; v tells one parameter set from the    *)
(* one that takes its place.  The file is a sequence of tags; of the bytes *)
(* the reader holds, how many is all that matters.                         *)
(***************************************************************************)
EXTENDS Integers, Sequences, FiniteSets, SequencesExt

CONSTANTS
    M24,       \* 2^24
    M8,        \* 2^8, so that a time has 32 bits
    Units,     \* what a Write is given: [cid, nals, delays]
    Foreign,   \* tags FlvWriter does not write, see Kinds
    Steps,     \* ms from one dts to the next
    Starts,    \* dts of the first frame
    Pieces,    \* how many bytes an Input is given that is not given all
    MaxWrites, \* bound: frames written
    MaxForeign \* bound: tags of others

FlvAssumption ==
    /\ {M24, M8} \subseteq Nat \ {0} /\ M24 % 2 = 0
    /\ {MaxWrites, MaxForeign} \subseteq Nat /\ Pieces \subseteq Nat \ {0}

VARIABLES
    mux,   \* the FlvMuxer and its codec muxers
    wire,  \* the tags of the file
    dem,   \* the FlvReader
    given, \* track -> what Write was given
    got    \* track -> what OnFrame was given

vars == <<mux, wire, dem, given, got>>

Vcl == {"slice", "idr"}
Params == {"vps", "sps", "pps"}
ParamsOf(cid) == CASE cid = "h264" -> {"sps", "pps"} [] cid = "h265" -> Params [] OTHER -> {}
IsVideo(cid) == cid \in {"h264", "h265"}
TrackOf(cid) == IF IsVideo(cid) THEN 1 ELSE 2
TypesOf(nals) == {nals[k].t : k \in DOMAIN nals}

FileHead == 9
TagSize == 4
TagHead == 11 \* FLVTAG_SIZE

NoSets == [t \in Params |-> 0]
NewVideo == [sets |-> NoSets, cache |-> <<>>, first |-> TRUE]

\* CreateFlvWriter, CreateFlvReader
Init ==
    /\ mux = [cids |-> <<"none", "none">>, video |-> NewVideo, asc |-> FALSE, foreign |-> 0, state |-> "open"]
    /\ wire = <<>>
    /\ dem = [state |-> "file_head", have |-> 0, sent |-> 0, tag |-> 0, err |-> FALSE, skipped |-> {},
              video |-> "none", audio |-> "none", sets |-> NoSets, asc |-> "none"]
    /\ given = [s \in 1..2 |-> <<>>] /\ got = [s \in 1..2 |-> <<>>]

--------------------------------------------------------------------------------
(* Tags                                                                    *)

\* FlvTag: 24 bits of the time and 8 more.
Stamp(dts) == [low |-> dts % M24, high |-> (dts \div M24) % M8]
TimeOf(stamp) == stamp.high * M24 + stamp.low
Wrap32(x) == x % (M24 * M8)

\* PutUint24, GetInt24
PutTime(x) == x % M24
\* Mutant: no sign.
GetUnsigned(x) == x
GetTime(x) == IF x >= M24 \div 2 THEN x - M24 ELSE x

\* WriteVideoTag: HEVC has the longer, enhanced header.
VideoHead(cid, seq) == IF cid = "h264" THEN 5 ELSE IF seq THEN 5 ELSE 8
VideoTag(cid, seq, body, dts, cts) ==
    [kind |-> "video", cid |-> cid, seq |-> seq, size |-> VideoHead(cid, seq) + body, at |-> Stamp(dts),
     cts |-> PutTime(Wrap32(cts)), nals |-> <<>>, sets |-> NoSets]
\* WriteAudioTag
AudioTag(cid, seq, body, dts) ==
    [kind |-> "audio", cid |-> cid, seq |-> seq, size |-> (IF cid = "aac" THEN 2 ELSE 1) + body, at |-> Stamp(dts),
     cts |-> 0, nals |-> <<>>, sets |-> NoSets]

SumLen(nals) == FoldLeft(LAMBDA a, u : a + u.len, 0, nals)

--------------------------------------------------------------------------------
(* The muxers of the codecs: what each makes of a frame                    *)

\* HevcMuxer.Write, its turn for a NAL unit
TakeHevc(v, u) ==
    [v EXCEPT !.cache = Append(@, u), !.sets = IF u.t \in Params THEN [@ EXCEPT ![u.t] = u.v] ELSE @]
\* Mutant: a parameter set is known by its type alone, whatever it says.
TakeAvcOnce(v, u) == IF u.t \in Params /\ v.sets[u.t] # 0 THEN v ELSE TakeHevc(v, u)
\* AVCMuxer.Write: a parameter set that has not changed is left out.
TakeAvc(v, u) == IF u.t \in Params /\ v.sets[u.t] = u.v THEN v ELSE TakeHevc(v, u)

\* The configuration goes ahead of the first frame that has one.
Configured(cid, v) ==
    IF cid = "h264" THEN v.sets["sps"] # 0 /\ v.sets["pps"] # 0 ELSE \E t \in Params : v.sets[t] # 0
\* A tag is made of what was collected once a slice is in it; of HEVC, when the last
\* NAL unit but for parameter sets was one.
HasVcl(cid, nals) ==
    LET units == SelectSeq(nals, LAMBDA u : u.t \notin Params)
    IN  IF cid = "h264" THEN TypesOf(nals) \cap Vcl # {} ELSE units # <<>> /\ Last(units).t \in Vcl

\* What Write of a video muxer leaves and returns
WriteVideo(cid, video, nals, pts, dts) ==
    LET v == FoldLeft(LAMBDA x, u : IF cid = "h264" THEN TakeAvc(x, u) ELSE TakeHevc(x, u), video, nals)
        head == v.first /\ Configured(cid, v)
        config == [VideoTag(cid, TRUE, 10, dts, 0) EXCEPT !.sets = v.sets]
        frame == [VideoTag(cid, FALSE, SumLen(v.cache), dts, pts - dts) EXCEPT !.nals = v.cache]
        out == HasVcl(cid, nals)
    IN  [video |-> [v EXCEPT !.first = @ /\ ~head, !.cache = IF out THEN <<>> ELSE @],
         tags |-> (IF head THEN <<config>> ELSE <<>>) \o (IF out THEN <<frame>> ELSE <<>>)]

\* AACMuxer.Write, G711AMuxer.Write, G711UMuxer.Write, Mp3Muxer.Write
WriteAudio(cid, asc, nals, dts) ==
    LET frame(u) == [AudioTag(cid, FALSE, IF cid = "aac" THEN u.len - 7 ELSE u.len, dts) EXCEPT !.nals = <<u>>]
        frames == [k \in DOMAIN nals |-> frame(nals[k])]
    IN  (IF cid = "aac" /\ ~asc THEN <<AudioTag(cid, TRUE, 2, dts)>> ELSE <<>>) \o frames

--------------------------------------------------------------------------------
(* FlvWriter                                                               *)

NextDts(s) == IF given[s] = <<>> THEN Starts ELSE {Last(given[s]).dts + step : step \in Steps}
Numbered(s, nals) == [k \in DOMAIN nals |-> nals[k] @@ [ref |-> <<Len(given[s]) + 1, k>>]]

\* WriteH264, WriteH265, WriteAAC, WriteG711A, WriteMp3: the first one decides on the
\* codec, one of another codec is refused.
Write(au, dts, delay) ==
    LET s == TrackOf(au.cid)
        nals == Numbered(s, au.nals)
        w == WriteVideo(au.cid, mux.video, nals, dts + delay, dts)
    IN  /\ mux.state = "open" /\ Len(given[1]) + Len(given[2]) < MaxWrites
        /\ mux.cids[s] \in {"none", au.cid}
        /\ mux' = [mux EXCEPT !.cids[s] = au.cid, !.video = IF s = 1 THEN w.video ELSE @, !.asc = @ \/ au.cid = "aac"]
        /\ wire' = wire \o (IF s = 1 THEN w.tags ELSE WriteAudio(au.cid, mux.asc, nals, dts))
        /\ given' = [given EXCEPT ![s] = Append(@, [cid |-> au.cid, nals |-> nals, pts |-> dts + delay, dts |-> dts])]
        /\ UNCHANGED <<dem, got>>

\* A tag of another program: script data, a codec the reader does not know, or a
\* frame whose NAL units do not fill it.
PutForeign(tag) ==
    /\ mux.state = "open" /\ mux.foreign < MaxForeign
    /\ IsVideo(tag.cid) => tag.cid = mux.cids[1]
    /\ wire' = Append(wire, tag) /\ mux' = [mux EXCEPT !.foreign = @ + 1]
    /\ UNCHANGED <<dem, given, got>>

Close == mux.state = "open" /\ mux' = [mux EXCEPT !.state = "closed"] /\ UNCHANGED <<wire, dem, given, got>>

--------------------------------------------------------------------------------
(* FlvReader: r is the reader and what it gave                             *)

Cur(r) == wire[r.d.tag]
Take(r, n, state) == [r EXCEPT !.d.have = @ - n, !.d.state = state]
Failed(r) == [r EXCEPT !.d.err = TRUE, !.d.skipped = @ \cup {r.d.tag}]

\* The tag has a FourCC: HEVC as this package writes it, and what it does not know.
Enhanced(tag) == tag.kind = "video" /\ tag.cid \in {"h265", "vp9"}

\* skipTag: if the tag is not all there, it is thrown away when it is.
SkipTag(r) ==
    IF Cur(r).size <= r.d.have THEN Failed(Take(r, Cur(r).size, "tag_size"))
    ELSE Failed([r EXCEPT !.d.state = "script_tag"])

TurnFlvTag(r) ==
    LET tag == wire[r.d.tag + 1]
        state == CASE tag.kind = "video" -> IF r.d.video = "none" THEN "detect_video" ELSE "video_tag"
                   [] tag.kind = "audio" -> IF r.d.audio = "none" THEN "detect_audio" ELSE "audio_tag"
                   [] OTHER -> "script_tag"
    IN  IF r.d.have < TagHead THEN r ELSE [Take(r, TagHead, state) EXCEPT !.d.tag = @ + 1]

\* The codec is told from the first byte, or from five.
TurnDetectVideo(r) ==
    LET need == IF Enhanced(Cur(r)) THEN 5 ELSE 1
    IN  IF Cur(r).size < 1 THEN Failed([r EXCEPT !.d.state = "tag_size"])
        ELSE IF Cur(r).size < need THEN SkipTag(r)
        ELSE IF r.d.have < need THEN r
        ELSE IF ~IsVideo(Cur(r).cid) THEN SkipTag(r)
        ELSE [r EXCEPT !.d.video = Cur(r).cid, !.d.state = "video_tag"]
TurnDetectAudio(r) ==
    IF Cur(r).size < 1 THEN Failed([r EXCEPT !.d.state = "tag_size"])
    ELSE IF Cur(r).cid \notin {"aac", "g711"} THEN SkipTag(r)
    ELSE [r EXCEPT !.d.audio = Cur(r).cid, !.d.state = "audio_tag"]

\* OnFrame, with the time of the tag
Give(r, s, nals, front) ==
    LET dts == TimeOf(Cur(r).at)
    IN  [r EXCEPT !.g[s] = Append(@, [nals |-> nals, front |-> front, dts |-> dts,
                                      pts |-> IF s = 1 THEN Wrap32(dts + GetTime(Cur(r).cts)) ELSE dts])]

\* AVCTagDemuxer.Decode, HevcTagDemuxer.Decode: a key frame that has not all
\* parameter sets gets those of the configuration in front.
DecodeVideo(r) ==
    LET tag == Cur(r)
        bare == "idr" \in TypesOf(tag.nals) /\ ~(ParamsOf(r.d.video) \subseteq TypesOf(tag.nals))
    IN  IF tag.seq THEN [r EXCEPT !.d.sets = IF r.d.video = "h264" THEN [t \in Params |-> IF tag.sets[t] # 0 THEN tag.sets[t] ELSE @[t]]
                                             ELSE tag.sets]
        ELSE IF tag.size = 0 \/ tag.cid # r.d.video THEN Failed(r)
        ELSE IF tag.nals = <<>> THEN Failed(r)
        ELSE Give(r, 1, tag.nals, IF bare THEN r.d.sets ELSE NoSets)

\* AACTagDemuxer.Decode, which takes a tag of another codec for a configuration;
\* G711Demuxer.Decode
DecodeAudio(r) ==
    LET tag == Cur(r)
    IN  IF tag.size = 0 THEN Failed(r)
        ELSE IF r.d.audio = "aac" /\ (tag.seq \/ tag.cid # "aac") THEN [r EXCEPT !.d.asc = tag.cid]
        ELSE IF r.d.audio = "aac" /\ r.d.asc = "none" THEN Failed(r)
        ELSE Give(r, 2, tag.nals, NoSets)

\* A turn of the loop of Input; one for which there are not enough bytes changes
\* nothing.
Turn(r) ==
    LET st == r.d.state
        body == Cur(r).size <= r.d.have
    IN  CASE st = "file_head"    -> IF r.d.have < FileHead THEN r ELSE Take(r, FileHead, "tag_size")
          [] st = "tag_size"     -> IF r.d.have < TagSize THEN r ELSE Take(r, TagSize, "flv_tag")
          [] st = "flv_tag"      -> TurnFlvTag(r)
          [] st = "detect_video" -> TurnDetectVideo(r)
          [] st = "detect_audio" -> TurnDetectAudio(r)
          [] st = "video_tag"    -> IF body THEN DecodeVideo(Take(r, Cur(r).size, "tag_size")) ELSE r
          [] st = "audio_tag"    -> IF body THEN DecodeAudio(Take(r, Cur(r).size, "tag_size")) ELSE r
          [] OTHER               -> IF body THEN Take(r, Cur(r).size, "tag_size") ELSE r

FileSize == FileHead + TagSize + FoldLeft(LAMBDA a, t : a + TagHead + t.size + TagSize, 0, wire)
RECURSIVE Loop(_)
Again(r, q) == IF q = r THEN r ELSE Loop(q)
Loop(r) == IF r.d.err \/ r.d.have = 0 THEN r ELSE Again(r, Turn(r))

\* Input, of the next n bytes
Input(n) ==
    /\ mux.state = "closed" /\ n <= FileSize - dem.sent
    /\ n = 0 => dem.err
    /\ \E r \in {Loop([d |-> [dem EXCEPT !.have = @ + n, !.sent = @ + n, !.err = FALSE], g |-> got])} :
          dem' = r.d /\ got' = r.g
    /\ UNCHANGED <<mux, wire, given>>

Next ==
    \/ \E au \in Units : \E dts \in NextDts(TrackOf(au.cid)), delay \in au.delays : Write(au, dts, delay)
    \/ \E tag \in Foreign : PutForeign(tag)
    \/ Close
    \/ \E n \in Pieces \cup {0} : Input(n)
    \/ Input(FileSize - dem.sent)

Spec == Init /\ [][Next]_vars

--------------------------------------------------------------------------------
(* Properties                                                              *)

\* The reader is where it thinks: what it has handed on, what it holds and what is
\* still to come is the file.
TypeOK ==
    LET behind == FoldLeft(LAMBDA a, k : a + TagHead + wire[k].size + TagSize, FileHead, [k \in 1..dem.tag |-> k])
        done == CASE dem.state = "file_head" -> 0
                  [] dem.state = "tag_size"  -> behind
                  [] dem.state = "flv_tag"   -> behind + TagSize
                  [] OTHER                   -> behind - wire[dem.tag].size
    IN  dem.sent <= FileSize /\ done + dem.have = dem.sent

Flat(s) == FlattenSeq([n \in DOMAIN given[s] |-> given[s][n].nals])
GotFlat(s) == FlattenSeq([i \in DOMAIN got[s] |-> got[s][i].nals])
Media(nals) == SelectSeq(nals, LAMBDA u : u.t \notin Params)
\* What the muxer of the track still has
Held(s) == IF s = 1 THEN Media(mux.video.cache) ELSE <<>>

\* Tags of others cost only themselves, wherever the bytes are cut: what was written
\* is read, whole, in order and at its time, but for what the muxer still holds.
GivenAsTaken ==
    \A s \in 1..2 :
       /\ IsPrefix(Media(GotFlat(s)), Media(Flat(s)))
       /\ dem.sent = FileSize /\ ~dem.err => Media(GotFlat(s)) \o Held(s) = Media(Flat(s))
       /\ \A i \in DOMAIN got[s] : LET n == Last(got[s][i].nals).ref[1] IN
             /\ got[s][i].dts = Wrap32(given[s][n].dts)
             /\ got[s][i].pts = Wrap32(given[s][n].pts)

KeysGiven == {i \in DOMAIN got[1] : "idr" \in TypesOf(got[1][i].nals)}
KeyRef(p) == SelectSeq(p.nals, LAMBDA u : u.t = "idr")[1].ref
Ahead(nals, ref) == SelectSeq(nals, LAMBDA u : u.ref[1] < ref[1] \/ (u.ref[1] = ref[1] /\ u.ref[2] < ref[2]))
\* The version of the last set of type t in nals, 0 if there is none
LastSet(nals, t) == LET sets == SelectSeq(nals, LAMBDA u : u.t = t) IN IF sets = <<>> THEN 0 ELSE Last(sets).v
\* The version that what was written has at ref, and the one a decoder has that
\* begins with the frame p
InForce(ref, t) == LastSet(Ahead(Flat(1), ref), t)
InFront(p, t) == LET own == LastSet(Ahead(p.nals, KeyRef(p)), t) IN IF own # 0 THEN own ELSE p.front[t]
\* The version in the sequence header, of which the muxer writes one
Header(t) == LET heads == SelectSeq(wire, LAMBDA tag : tag.seq /\ tag.kind = "video") IN IF heads = <<>> THEN 0 ELSE heads[1].sets[t]
Written(p) == \A t \in ParamsOf(mux.cids[1]) : InForce(KeyRef(p), t) # 0

\* A key frame for which every type of parameter set was written has in front of it,
\* in the version its slices were coded with, each set that is the one of the sequence
\* header or that changed with the frame itself.  A set that changed before the frame
\* is not covered: KeysCurrent.
KeysDecodable ==
    \A i \in KeysGiven : LET p == got[1][i] IN
       Written(p) => \A t \in ParamsOf(mux.cids[1]) :
          LET needed == InForce(KeyRef(p), t) IN
          needed = Header(t) \/ needed # InForce(<<KeyRef(p)[1], 1>>, t) => InFront(p, t) = needed

\* The same of every set, as the tests of AVCMuxer and AVCTagDemuxer have it: what the
\* muxer leaves out as unchanged the demuxer puts in front of a key frame again.
KeysCurrent ==
    \A i \in KeysGiven : LET p == got[1][i] IN
       Written(p) => \A t \in ParamsOf(mux.cids[1]) : InFront(p, t) = InForce(KeyRef(p), t)

================================================================================
