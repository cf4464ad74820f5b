--------------------------------- MODULE MkvFile ---------------------------------
(***************************************************************************)
(* Matroska files (go-mkv): Muxer holds frames back until it can describe  *)
(* every track, puts them in clusters and, if it can seek, comes back to   *)
(* finish the head; it may stop at any time, and another program may have  *)
(* written the file again in its own way.  Demuxer reads forward only, and *)
(* derives the decode times, which Matroska does not store.                *)
(*                                                                         *)
(* A file is a sequence of elements [id, head, n, size, v]: the id and the *)
(* size take head bytes, the size n of them.  What a Segment or a Cluster  *)
(* holds comes behind it.                                                  *)
(***************************************************************************)
EXTENDS Integers, Sequences, SequencesExt, FiniteSets, FiniteSetsExt

CONSTANTS
    Units,           \* what a Write is given: [cid, nals, delays, paddings]
    TrackSets,       \* the codecs of the tracks, in order
    Steps,           \* codec -> ms from one Write to the next
    RelMax,          \* math.MaxInt16
    ClusterDuration, \* WithClusterDuration
    MaxClusterBytes,
    MaxPending,      \* maxPendingFrames
    FrameTime,       \* how long an AAC or Opus frame lasts, in ms
    PcmBlock,        \* samples of a G.711 block; a sample lasts 1 ms
    Window,          \* reorderWindow
    OffsetWait,      \* maxOffsetWait
    Styles,          \* how others write: [unknown, group, lacing]
    MaxWrites        \* bound: frames written

MkvAssumption ==
    /\ {RelMax, ClusterDuration, MaxClusterBytes, MaxPending, FrameTime, PcmBlock, Window, OffsetWait} \subseteq Nat \ {0}
    /\ MaxWrites \in Nat

VARIABLES
    mux,   \* the Muxer
    wire,  \* the file
    dem,   \* the Demuxer
    given, \* track -> what Write was given
    got    \* track -> the packets ReadPacket gave

vars == <<mux, wire, dem, given, got>>

Vcl == {"slice", "idr"}
Params == {"vps", "sps", "pps"}
ParamsOf(cid) == CASE cid = "h264" -> {"sps", "pps"} [] cid = "h265" -> Params [] OTHER -> {}
IsVideo(cid) == cid \in {"h264", "h265", "vp8"}
TypesOf(nals) == {nals[k].t : k \in DOMAIN nals}
NoSets == [t \in Params |-> 0]
SumLen(nals) == FoldLeft(LAMBDA a, u : a + u.len, 0, nals)
Least(a, b) == IF a < b THEN a ELSE b
Most(a, b) == IF a < b THEN b ELSE a

--------------------------------------------------------------------------------
(* EBML                                                                    *)

\* Mutant: the value of all ones is used as a size.
SizeLenOver(v) == CASE v < 128 -> 1 [] v < 16384 -> 2 [] OTHER -> 3
\* sizeLen: all ones means an unknown size.
SizeLen(v) == CASE v < 127 -> 1 [] v < 16383 -> 2 [] OTHER -> 3
Unknown == -1
Total(idLen, size) == idLen + SizeLen(size) + size
\* element, master
Element(id, idLen, size, v) == [id |-> id, head |-> idLen + SizeLen(size), n |-> SizeLen(size), size |-> size, v |-> v]
\* uintElement: as many bytes as the value needs
UintLen(v) == CASE v < 256 -> 1 [] v < 65536 -> 2 [] OTHER -> 3
UintElement(id, idLen, v) == Element(id, idLen, UintLen(v), <<v>>)
\* voidElement, whose own length never depends on rounding
Void(total) == LET n == IF total - 2 < 127 THEN 1 ELSE 8
               IN  [id |-> "void", head |-> 1 + n, n |-> n, size |-> total - 1 - n, v |-> <<>>]
\* readVint, elementHeader
UnknownSize(e) == e.size = Unknown \/ (e.n < 4 /\ e.size = 128 ^ e.n - 1)
End(pos, e) == IF UnknownSize(e) THEN Unknown ELSE pos + e.head + e.size

Bytes(e) == e.head + (IF e.id \in {"segment", "cluster"} THEN 0 ELSE e.size)
Length(els) == FoldLeft(LAMBDA a, e : a + Bytes(e), 0, els)

--------------------------------------------------------------------------------
(* The tracks of the Muxer                                                 *)

\* addTrack, init: G.711 says all there is to say.
NewTrack(cid) ==
    [cid |-> cid, ready |-> cid = "g711", omitted |-> FALSE, sets |-> NoSets, end |-> 0,
     hasPts |-> FALSE, lastPts |-> 0, maxPts |-> 0, gap |-> 0, pcm |-> <<>>, base |-> 0, done |-> 0]

Block(s, nals, pts, key) == [track |-> s, nals |-> nals, pts |-> pts, key |-> key, padding |-> 0]

\* scanParamSets, addH264ParamSet, updateH264: the last of each id, until the header
\* is written.
Scanned(t, nals) ==
    LET sets == [p \in Params |-> LET all == SelectSeq(nals, LAMBDA u : u.t = p)
                                  IN  IF all = <<>> THEN t.sets[p] ELSE Last(all).v]
    IN  [t EXCEPT !.sets = sets, !.ready = @ \/ \A p \in ParamsOf(t.cid) : sets[p] # 0]

\* pcmTime
PcmTime(t, n) == t.base + n
\* flushPCM
FlushPcm(s, t) ==
    [t |-> [t EXCEPT !.done = @ + Len(t.pcm), !.pcm = <<>>],
     blocks |-> IF t.pcm = <<>> THEN <<>> ELSE <<Block(s, t.pcm, PcmTime(t, t.done), TRUE)>>]
\* The blocks that are full
PcmBlocks(s, t, all, n) ==
    [t |-> [t EXCEPT !.pcm = SubSeq(all, n * PcmBlock + 1, Len(all)), !.done = @ + n * PcmBlock],
     blocks |-> [k \in 1..n |-> Block(s, SubSeq(all, (k - 1) * PcmBlock + 1, k * PcmBlock),
                                      PcmTime(t, t.done + (k - 1) * PcmBlock), TRUE)]]
AddPcm(s, t, nals) == PcmBlocks(s, t, t.pcm \o nals, Len(t.pcm \o nals) \div PcmBlock)
Behind(blocks, x) == [x EXCEPT !.blocks = blocks \o @]
\* Mutant: a write that does not continue the one before is put behind it.
RegroupPcmOn(s, t, nals, pts) ==
    AddPcm(s, IF t.pcm = <<>> /\ t.done = 0 THEN [t EXCEPT !.base = pts] ELSE t, nals)
\* regroupPCM: what does not follow on the samples before starts a new run.
RegroupPcm(s, t, nals, pts) ==
    LET expect == PcmTime(t, t.done + Len(t.pcm))
        fresh(x) == [x EXCEPT !.base = pts, !.done = 0]
    IN  CASE t.pcm # <<>> /\ (pts > expect + 1 \/ pts + 1 < expect) ->
                 Behind(FlushPcm(s, t).blocks, AddPcm(s, fresh(FlushPcm(s, t).t), nals))
          [] t.pcm = <<>> /\ (t.done = 0 \/ pts # expect) -> AddPcm(s, fresh(t), nals)
          [] OTHER -> AddPcm(s, t, nals)

\* toBlocks: of H.264 and H.265 all parameter sets stay behind.
Coded(m, s, t, nals, body, pts) ==
    [t |-> IF m.header THEN t ELSE Scanned(t, nals),
     blocks |-> IF body = <<>> THEN <<>> ELSE <<Block(s, body, pts, "idr" \in TypesOf(body))>>]
ToBlocks(m, s, nals, pts) ==
    LET t == m.tracks[s]
        ready(x) == [t EXCEPT !.ready = @ \/ x]
        key == "idr" \in TypesOf(nals)
    IN  CASE t.cid \in {"h264", "h265"} ->
                 Coded(m, s, t, nals, SelectSeq(nals, LAMBDA u : u.t \notin Params \cup {"aud"}), pts)
          [] t.cid = "vp8"  -> [t |-> ready(key), blocks |-> <<Block(s, nals, pts, key)>>]
          [] t.cid = "aac"  -> [t |-> ready(TRUE),
                                blocks |-> [k \in DOMAIN nals |-> Block(s, <<nals[k]>>, pts + (k - 1) * FrameTime, TRUE)]]
          [] t.cid = "g711" -> RegroupPcm(s, t, nals, pts)
          [] OTHER          -> [t |-> ready(TRUE), blocks |-> <<Block(s, nals, pts, TRUE)>>]

--------------------------------------------------------------------------------
(* Writing: r is the Muxer and the file                                    *)

\* flushCluster
FlushCluster(r) ==
    IF ~r.m.open THEN r
    ELSE [r EXCEPT !.m.open = FALSE, !.w = @ \o <<Element("cluster", 4, Length(r.m.cluster), <<>>)>> \o r.m.cluster]

\* NAL units go behind their length; of an ADTS frame the header stays behind.
DataLen(cid, nals) ==
    CASE cid \in {"h264", "h265"} -> SumLen(nals) + 4 * Len(nals) [] cid = "aac" -> SumLen(nals) - 7 [] OTHER -> SumLen(nals)
BlockHead == 4
FrameDuration(cid, nals) == CASE cid \in {"aac", "opus"} -> FrameTime [] cid = "g711" -> Len(nals) [] OTHER -> 0

\* The Block of a BlockGroup says nothing of key frames.
Stored(cid, b, rel) ==
    LET len == BlockHead + DataLen(cid, b.nals)
        v == [track |-> b.track, rel |-> rel, key |-> b.key, simple |-> b.padding = 0, ref |-> FALSE,
              padding |-> b.padding, lacing |-> "none", codes |-> <<>>, frames |-> <<b.nals>>]
    IN  IF b.padding = 0 THEN Element("block", 1, len, <<v>>)
        ELSE Element("block", 1, Total(1, len) + Total(2, UintLen(2 * b.padding)), <<v>>)

\* Where a track ends
Ended(t, b) ==
    IF ~IsVideo(t.cid) THEN [t EXCEPT !.end = Most(@, b.pts + FrameDuration(t.cid, b.nals))]
    ELSE LET gap == IF b.pts > t.lastPts THEN b.pts - t.lastPts ELSE t.lastPts - b.pts
             least == IF t.hasPts /\ gap > 0 /\ (t.gap = 0 \/ gap < t.gap) THEN gap ELSE t.gap
             most == Most(t.maxPts, b.pts)
         IN  [t EXCEPT !.hasPts = TRUE, !.lastPts = b.pts, !.maxPts = most, !.gap = least, !.end = most + least]

DataAt(els) == Length(SubSeq(els, 1, 2))
HasVideo(m) == \E s \in DOMAIN m.tracks : IsVideo(m.tracks[s].cid)

Cue(m, b) == b.key /\ (IsVideo(m.tracks[b.track].cid) \/ ~HasVideo(m))
Begin(r, b, at) ==
    [r EXCEPT !.m.open = TRUE, !.m.ts = b.pts, !.m.cluster = <<UintElement("timestamp", 1, b.pts)>>,
              !.m.cues = IF Cue(r.m, b) THEN Append(@, [time |-> b.pts, track |-> b.track, at |-> at]) ELSE @]
\* Mutant: the position is that before the cluster is flushed.
OpenClusterEarly(r, b) == Begin(FlushCluster(r), b, Length(r.w) - DataAt(r.w))
\* The next cluster; a cue points to it if it can be played from there.
BeginHere(q, b) == Begin(q, b, Length(q.w) - DataAt(q.w))
OpenCluster(r, b) == BeginHere(FlushCluster(r), b)

\* writeBlock: a key frame of a video track opens a cluster, as does a block too far
\* from the time of the cluster.
ClusterDue(m, b) ==
    \/ ~m.open
    \/ b.pts - m.ts < -RelMax - 1 \/ b.pts - m.ts > RelMax
    \/ b.pts >= m.ts + ClusterDuration
    \/ Length(m.cluster) >= MaxClusterBytes
    \/ IsVideo(m.tracks[b.track].cid) /\ b.key
PutBlock(r, b) ==
    [r EXCEPT !.m.cluster = Append(@, Stored(r.m.tracks[b.track].cid, b, b.pts - r.m.ts)),
              !.m.tracks[b.track] = Ended(@, b)]
WriteBlock(r, b) == PutBlock(IF ClusterDue(r.m, b) THEN OpenCluster(r, b) ELSE r, b)

\* entry, with what the demuxer takes of it
Described(m) == SelectSeq([s \in DOMAIN m.tracks |-> [track |-> s, cid |-> m.tracks[s].cid, sets |-> m.tracks[s].sets,
                                                       omitted |-> m.tracks[s].omitted]], LAMBDA e : ~e.omitted)
EntryLen(cid) == Total(1, CASE cid = "h264" -> 75 [] cid = "h265" -> 140 [] cid = "vp8" -> 42 [] cid = "opus" -> 82
                            [] cid = "g711" -> 74 [] OTHER -> 46)
SeekHeadReserve == 96

\* writeHeader
WriteHeader(r) ==
    LET entries == Described(r.m)
        tracks == FoldLeft(LAMBDA a, e : a + EntryLen(e.cid), 0, entries)
    IN  [r EXCEPT !.m.header = TRUE,
           !.w = <<Element("ebml", 4, 35, <<>>),
                   [id |-> "segment", head |-> 12, n |-> 8, size |-> Unknown, v |-> <<>>]>>
                 \o (IF r.m.seekable THEN <<Void(SeekHeadReserve)>> ELSE <<>>)
                 \o <<Element("info", 4, IF r.m.seekable THEN 48 ELSE 37, <<0>>), Element("tracks", 4, tracks, entries)>>]

\* flushPending
FlushPending(r) ==
    [FoldLeft(WriteBlock, WriteHeader(r), r.m.pending) EXCEPT !.m.pending = <<>>]

\* startWithReadyTracks: a track without a frame is left out, one with frames that
\* cannot be described is an error.
Used(m, s) == \E k \in DOMAIN m.pending : m.pending[k].track = s
Start(r, idle) ==
    LET left(s) == s \in idle /\ \A p \in idle : p <= s => ~Used(r.m, p)
        failed == \E s \in idle : Used(r.m, s)
        q == [r EXCEPT !.m.err = failed,
                       !.m.tracks = [s \in DOMAIN @ |-> IF left(s) THEN [@[s] EXCEPT !.omitted = TRUE] ELSE @[s]]]
    IN  IF failed THEN q ELSE FlushPending(q)
StartWithReadyTracks(r) == Start(r, {s \in DOMAIN r.m.tracks : ~r.m.tracks[s].ready})

\* The blocks of a call are written, or wait until every track is ready or too many
\* do.
Hold(r) ==
    IF \A s \in DOMAIN r.m.tracks : r.m.tracks[s].ready THEN FlushPending(r)
    ELSE IF Len(r.m.pending) < MaxPending THEN r
    ELSE StartWithReadyTracks(r)
PutBlocks(r, blocks) ==
    IF r.m.header THEN FoldLeft(WriteBlock, r, blocks) ELSE Hold([r EXCEPT !.m.pending = @ \o blocks])

NewReorder == [pending |-> <<>>, heap |-> <<>>, emitted |-> 0, measured |-> FALSE, delay |-> 0, step |-> 0,
               least |-> 0, started |-> FALSE, last |-> 0]

\* NewMuxer, AddVideoTrack, AddAudioTrack, NewDemuxer
Init ==
    /\ \E cids \in TrackSets, seekable \in BOOLEAN :
          mux = [tracks |-> [s \in DOMAIN cids |-> NewTrack(cids[s])], seekable |-> seekable, header |-> FALSE,
                 pending |-> <<>>, cluster |-> <<>>, open |-> FALSE, ts |-> 0, cues |-> <<>>, err |-> FALSE,
                 state |-> "open"]
    /\ wire = <<>>
    /\ dem = [i |-> 0, pos |-> 0, tracks |-> <<>>, segment |-> FALSE, segmentEnd |-> Unknown, cluster |-> FALSE,
              clusterEnd |-> Unknown, ts |-> 0, frames |-> <<>>, out |-> 0, reorder |-> <<NewReorder, NewReorder>>,
              offset |-> 0, settled |-> FALSE, head |-> FALSE, eof |-> FALSE, result |-> "none"]
    /\ given = [s \in 1..2 |-> <<>>] /\ got = [s \in 1..2 |-> <<>>]

--------------------------------------------------------------------------------
(* Calls on the Muxer                                                      *)

Opened(cid) == {s \in DOMAIN mux.tracks : mux.tracks[s].cid = cid}
NextDts(s) == IF given[s] = <<>> THEN {0} ELSE {Last(given[s]).dts + step : step \in Steps[mux.tracks[s].cid]}
Numbered(s, nals) == [k \in DOMAIN nals |-> nals[k] @@ [ref |-> <<Len(given[s]) + 1, k>>]]

\* Write, WritePadded: a track that was left out takes nothing more.  No two pictures
\* are shown at the same time.
Become(r) == mux' = r.m /\ wire' = r.w
Padded(blocks, padding) ==
    IF padding = 0 \/ blocks = <<>> THEN blocks ELSE [blocks EXCEPT ![Len(blocks)].padding = padding]
Write(au, s, dts, delay, padding) ==
    /\ mux.state = "open" /\ ~mux.tracks[s].omitted
    /\ Len(given[1]) + Len(given[2]) < MaxWrites
    /\ IsVideo(au.cid) => dts + delay \notin {given[s][n].pts : n \in DOMAIN given[s]}
    /\ \E nals \in {Numbered(s, au.nals)} :
          /\ \E b \in {ToBlocks(mux, s, nals, dts + delay)} :
                Become(PutBlocks([m |-> [mux EXCEPT !.tracks[s] = b.t], w |-> wire], Padded(b.blocks, padding)))
          /\ given' = [given EXCEPT ![s] = Append(@, [nals |-> nals, pts |-> dts + delay, dts |-> dts, padding |-> padding])]
    /\ UNCHANGED <<dem, got>>

\* The samples that fill no block
FlushTrack(r, s, f) ==
    LET p == [r EXCEPT !.m.tracks[s] = f.t]
    IN  IF p.m.header THEN FoldLeft(WriteBlock, p, f.blocks) ELSE [p EXCEPT !.m.pending = @ \o f.blocks]
FlushTracks(r) ==
    FoldLeft(LAMBDA q, s : FlushTrack(q, s, FlushPcm(s, q.m.tracks[s])), r, [s \in DOMAIN r.m.tracks |-> s])

\* seekEntry
SeekEntry == Total(2, Total(2, 4) + Total(2, 8))
\* The cues, behind the last cluster
CuePointLen(c) == Total(1, Total(1, UintLen(c.time)) + Total(1, Total(1, 1) + Total(1, UintLen(c.at))))
Cues(cues) ==
    IF cues = <<>> THEN <<>>
    ELSE <<Element("cues", 4, FoldLeft(LAMBDA a, c : a + CuePointLen(c), 0, cues), cues)>>

\* Where an element of the head is, counted from the begin of the Segment
PositionOf(els, id) ==
    LET k == CHOOSE k \in DOMAIN els : els[k].id = id
    IN  Length(SubSeq(els, 1, k - 1)) - DataAt(els)

\* The first n of the three patches: the size of the Segment, the SeekHead in the
\* room that was kept for it, the duration.
Seeks(m, w) ==
    <<[id |-> "info", at |-> PositionOf(w, "info")], [id |-> "tracks", at |-> PositionOf(w, "tracks")]>>
    \o (IF m.cues = <<>> THEN <<>> ELSE <<[id |-> "cues", at |-> PositionOf(w, "cues")]>>)
SeekHead(seeks) == Element("seekhead", 4, Len(seeks) * SeekEntry, seeks)
Patch(m, w, seekHead, n) ==
    LET end == Max({m.tracks[s].end : s \in DOMAIN m.tracks})
        patched(k) == CASE k = 2 /\ n >= 1 -> [w[k] EXCEPT !.size = Length(w) - DataAt(w)]
                        [] k = 4 /\ n >= 3 -> [w[k] EXCEPT !.v = <<end>>]
                        [] OTHER           -> w[k]
        whole == [k \in DOMAIN w |-> patched(k)]
    IN  IF n < 2 THEN whole
        ELSE SubSeq(whole, 1, 2) \o <<seekHead, Void(SeekHeadReserve - Bytes(seekHead))>> \o SubSeq(whole, 4, Len(whole))
Patched(m, w, n) == Patch(m, w, SeekHead(Seeks(m, w)), n)

\* WriteTrailer, of which the first n patches are done: the process may stop between
\* them.
Finish(r, n) ==
    [m |-> [r.m EXCEPT !.state = IF n = 3 THEN "finished" ELSE "stopped", !.cluster = <<>>],
     w |-> IF r.m.seekable THEN Patched(r.m, r.w \o Cues(r.m.cues), n) ELSE r.w]
Started(r) == IF r.m.header THEN r ELSE StartWithReadyTracks(r)
WriteTrailer(n) ==
    /\ mux.state = "open" /\ (mux.seekable \/ n = 3)
    /\ \E q \in {Started(FlushTracks([m |-> mux, w |-> wire]))} :
          \/ q.m.header /\ Become(Finish(FlushCluster(q), n))
          \/ ~q.m.header /\ n = 3 /\ ~mux.err /\ Become(q)
    /\ UNCHANGED <<dem, given, got>>

Torn == [id |-> "torn", head |-> 0, n |-> 1, size |-> 0, v |-> <<>>]
LastCluster == IF \E k \in DOMAIN wire : wire[k].id = "cluster" THEN Max({k \in DOMAIN wire : wire[k].id = "cluster"})
               ELSE Len(wire)
\* The process stops while it writes: the last cluster is there up to an element, or
\* within one.
Crash(k, torn) ==
    /\ mux.state = "open" /\ mux.header
    /\ mux' = [mux EXCEPT !.state = "stopped", !.cluster = <<>>]
    /\ wire' = SubSeq(wire, 1, k) \o (IF torn THEN <<Torn>> ELSE <<>>)
    /\ UNCHANGED <<dem, given, got>>

--------------------------------------------------------------------------------
(* How others write what is in the file (RFC 9559)                         *)

\* The sizes of all frames of a lace but the last
CodesOf(lacing, lens) ==
    CASE lacing = "xiph" -> [k \in 1..Len(lens) - 1 |-> <<lens[k] \div 255, lens[k] % 255>>]
      [] lacing = "ebml" -> [k \in 1..Len(lens) - 1 |-> IF k = 1 THEN lens[1] ELSE lens[k] - lens[k - 1]]
      [] OTHER           -> <<>>
LensOf(b) == [k \in DOMAIN b.frames |-> DataLen(mux.tracks[b.track].cid, b.frames[k])]
TimeOfFrame(b, k) ==
    b.rel + FoldLeft(LAMBDA a, f : a + FrameDuration(mux.tracks[b.track].cid, f), 0, SubSeq(b.frames, 1, k - 1))

\* A frame that follows on the one before it goes into the same block.
Lace(lacing, b, lens, padding) == [b EXCEPT !.lacing = lacing, !.padding = padding, !.codes = CodesOf(lacing, lens)]
Follows(lacing, a, b, both) ==
    /\ a.track = b.track /\ ~IsVideo(mux.tracks[b.track].cid) /\ a.padding = 0
    /\ b.rel = TimeOfFrame(both, Len(a.frames) + 1)
    /\ lacing = "fixed" => Cardinality(ToSet(LensOf(both))) = 1
Joined(a, b) == [a EXCEPT !.frames = @ \o b.frames]
Laced(lacing, blocks, b) ==
    IF blocks # <<>> /\ lacing # "none" /\ Follows(lacing, Last(blocks), b, Joined(Last(blocks), b))
    THEN Append(Front(blocks), Lace(lacing, Joined(Last(blocks), b), LensOf(Joined(Last(blocks), b)), b.padding))
    ELSE Append(blocks, b)

RewrittenBlock(style, b) ==
    Element("block", 1, 6 + FoldLeft(LAMBDA a, n : a + n, 0, LensOf(b)),
            <<[b EXCEPT !.simple = ~style.group /\ b.padding = 0, !.ref = ~b.key]>>)
InCluster(style, body) ==
    LET head == Element("cluster", 4, Length(body), <<>>)
    IN  <<IF style.unknown THEN [head EXCEPT !.n = 8, !.head = 12, !.size = Unknown] ELSE head>> \o body
RewrittenBody(style, stamp, blocks) ==
    <<stamp, Element("position", 1, 1, <<>>)>> \o [k \in DOMAIN blocks |-> RewrittenBlock(style, blocks[k])]
Rewritten(style, inner) ==
    InCluster(style, RewrittenBody(style, inner[1],
                                   FoldLeft(LAMBDA a, e : Laced(style.lacing, a, e.v[1]), <<>>, Tail(inner))))

\* Each with what it holds
Clusters ==
    FoldLeft(LAMBDA a, e : CASE e.id = "cluster" -> Append(a, <<>>)
                             [] e.id \in {"timestamp", "block"} -> Append(Front(a), Append(Last(a), e))
                             [] OTHER -> a, <<>>, wire)

\* Another program passes the file on as a stream.
Passed(style, clusters) ==
    <<wire[1], [wire[2] EXCEPT !.size = Unknown]>>
    \o SelectSeq(wire, LAMBDA e : e.id \in {"info", "tracks"})
    \o FlattenSeq([k \in DOMAIN clusters |-> Rewritten(style, clusters[k])])
    \o <<Element("tags", 4, 20, <<>>)>>
Rewrite(style) ==
    /\ mux.state = "finished" /\ dem.i = 0
    /\ mux' = [mux EXCEPT !.state = "rewritten"]
    /\ wire' = Passed(style, Clusters)
    /\ UNCHANGED <<dem, given, got>>

--------------------------------------------------------------------------------
(* dtsReorder: d.frames holds the frames, q a dtsReorder of one track      *)

Shown(d, q) == [k \in DOMAIN q.pending |-> d.frames[q.pending[k]].pts]

Noted(q, pts) == [q EXCEPT !.measured = TRUE, !.least = Min(ToSet(pts))]
\* Mutant: how far frames are moved is not looked at.
MeasureFlat(d, q) == IF q.measured \/ q.pending = <<>> THEN q ELSE Noted(q, Shown(d, q))
\* measure: a frame decoded behind its place in the order of presentation needs that
\* many frames of head start.
HeadStart(q, pts) ==
    LET n == Len(pts)
        rank(k) == Cardinality({j \in 1..n : pts[j] < pts[k] \/ (pts[j] = pts[k] /\ j < k)})
    IN  [q EXCEPT !.delay = Max({0} \cup {k - 1 - rank(k) : k \in 1..n}),
                  !.step = IF n > 1 THEN (Max(ToSet(pts)) - Min(ToSet(pts))) \div (n - 1) ELSE 0]
Measure(d, q) == IF q.measured \/ q.pending = <<>> THEN q ELSE HeadStart(Noted(q, Shown(d, q)), Shown(d, q))

\* shift
Shift(q) == IF q.measured THEN Most(q.delay * q.step - q.least, 0) ELSE 0

\* resolveOldest, of track s
Resolve(d, s, q, dts, early) ==
    [d EXCEPT !.frames[q.pending[1]].dts = dts, !.frames[q.pending[1]].resolved = TRUE,
       !.reorder[s] = [q EXCEPT !.pending = Tail(@), !.heap = IF early THEN @ ELSE Remove(@, Min(ToSet(@))),
                                !.emitted = @ + 1, !.started = TRUE, !.last = dts]]
Monotone(q, at, pts) == IF q.started /\ at <= q.last THEN Most(Least(q.last + 1, pts), q.last) ELSE at
Oldest(d, s, q, pts, early) ==
    Resolve(d, s, q,
            Monotone(q, Least(Min(ToSet(q.heap)) - (IF early THEN (q.delay - q.emitted) * q.step ELSE 0), pts), pts), early)
Decided(d, s, q) == Oldest(d, s, q, d.frames[q.pending[1]].pts, q.emitted < q.delay)
ResolveOldest(d, s) == Decided(d, s, Measure(d, d.reorder[s]))

\* flush
FlushReorder(d, s) == FoldLeft(LAMBDA x, k : ResolveOldest(x, s), d, d.reorder[s].pending)

\* push, of the last frame
Push(d, s) ==
    LET x == [d EXCEPT !.reorder[s].pending = Append(@, Len(d.frames)),
                       !.reorder[s].heap = Append(@, Last(d.frames).pts)]
    IN  IF Len(x.reorder[s].pending) >= Window THEN ResolveOldest(x, s) ELSE x

--------------------------------------------------------------------------------
(* The Demuxer                                                             *)

\* The tracks that derive decode times
Reordered(d) == {e.track : e \in {x \in ToSet(d.tracks) : x.cid \in {"h264", "h265"}}}

\* settleOffset, as the loop of ReadPacket calls it
Settle(d, reorder) ==
    [d EXCEPT !.settled = TRUE, !.reorder = reorder, !.offset = Max({0} \cup {Shift(reorder[s]) : s \in Reordered(d)})]
Settled(d) ==
    IF d.settled \/ ~(d.eof \/ Len(d.frames) - d.out >= OffsetWait \/ \A s \in Reordered(d) : d.reorder[s].measured) THEN d
    ELSE Settle(d, [s \in 1..2 |-> IF s \in Reordered(d) THEN Measure(d, d.reorder[s]) ELSE d.reorder[s]])

\* splitLaces: how long each frame of a block is
SumOf(f) == FoldLeft(LAMBDA a, x : a + x, 0, f)
LacedSizes(b) == CASE b.lacing = "xiph" -> [k \in DOMAIN b.codes |-> 255 * b.codes[k][1] + b.codes[k][2]]
               [] b.lacing = "ebml" -> [k \in DOMAIN b.codes |-> SumOf(SubSeq(b.codes, 1, k))]
               [] OTHER             -> <<>>
WithLast(total, sizes) == Append(sizes, total - SumOf(sizes))
SplitLaces(b, total) ==
    IF b.lacing = "fixed" THEN [k \in DOMAIN b.frames |-> total \div Len(b.frames)] ELSE WithLast(total, LacedSizes(b))

\* hasParamSets; output puts the sets of the track in front of a key frame that lacks
\* one of them.
Fronted(e, nals, key) ==
    IF key /\ ParamsOf(e.cid) # {} /\ ~(ParamsOf(e.cid) \subseteq TypesOf(nals)) THEN e.sets ELSE NoSets

\* readBlock, parseBlock: the frames of a block follow on one another; without the flag
\* of a SimpleBlock the slices tell a key frame.
KeyOf(b, nals) == (IF b.simple THEN b.key ELSE ~b.ref) \/ (~b.simple /\ "idr" \in TypesOf(nals))
FrameOf(d, e, b, k, nals, key, pts) ==
    [track |-> b.track, nals |-> nals, key |-> key, front |-> Fronted(e, nals, key), pts |-> pts, dts |-> pts,
     padding |-> IF k = Len(b.frames) THEN b.padding ELSE 0, resolved |-> b.track \notin Reordered(d)]
Take(d, e, b, k, nals) ==
    LET y == [d EXCEPT !.frames = Append(@, FrameOf(d, e, b, k, nals, KeyOf(b, nals), Most(d.ts + TimeOfFrame(b, k), 0)))]
    IN  IF b.track \in Reordered(d) THEN Push(y, b.track) ELSE y
\* What a frame is whose size is not told right is unknown.
TakeFrames(d, e, b, lens, split) ==
    FoldLeft(LAMBDA x, k : Take(x, e, b, k, IF split[k] = lens[k] THEN b.frames[k] ELSE <<>>), d, [k \in DOMAIN b.frames |-> k])
ParseBlock(d, b) ==
    IF b.track \notin {e.track : e \in ToSet(d.tracks)} THEN d
    ELSE TakeFrames(d, CHOOSE e \in ToSet(d.tracks) : e.track = b.track, b, LensOf(b), SplitLaces(b, SumOf(LensOf(b))))

\* A Segment or a Cluster whose size is known ends where it says.
Leave(d) ==
    LET out == d.segment /\ d.segmentEnd # Unknown /\ d.pos >= d.segmentEnd
    IN  [d EXCEPT !.cluster = @ /\ ~(d.clusterEnd # Unknown /\ d.pos >= d.clusterEnd) /\ ~out, !.segment = @ /\ ~out]

\* endsCluster
EndsCluster(e) == e.id \in {"cluster", "cues", "tags", "seekhead", "info", "tracks", "ebml", "segment"}

\* The end of the stream, at which ReadHead must have found tracks
AtEnd(d) ==
    IF d.tracks = <<>> THEN [d EXCEPT !.result = "err"]
    ELSE FoldLeft(FlushReorder, [d EXCEPT !.eof = TRUE, !.head = TRUE], SetToSeq(Reordered(d)))

\* next: a turn for each element
TakeElement(d, x, e) ==
    CASE e.id = "torn" -> [x EXCEPT !.result = "err"]
      [] e.id = "segment" -> [x EXCEPT !.segment = TRUE, !.segmentEnd = End(d.pos, e)]
      [] e.id # "segment" /\ e.id # "cluster" /\ UnknownSize(e) -> [x EXCEPT !.result = "err"]
      [] e.id = "cluster" /\ ~x.cluster ->
             IF ~x.segment THEN [x EXCEPT !.result = "err"]
             ELSE [x EXCEPT !.cluster = TRUE, !.clusterEnd = End(d.pos, e), !.ts = 0]
      [] e.id = "tracks" /\ ~x.cluster -> [x EXCEPT !.tracks = e.v]
      [] e.id = "timestamp" /\ x.cluster -> [x EXCEPT !.ts = e.v[1]]
      [] e.id = "block" /\ x.cluster ->
             IF x.tracks = <<>> THEN [x EXCEPT !.result = "err"] ELSE ParseBlock([x EXCEPT !.head = TRUE], e.v[1])
      [] OTHER -> x
Step(d, e) ==
    TakeElement(d, [d EXCEPT !.i = @ + 1, !.pos = @ + Bytes(e), !.cluster = @ /\ ~(d.clusterEnd = Unknown /\ EndsCluster(e))], e)
TurnElement(d) == IF d.i = Len(wire) THEN AtEnd(d) ELSE Step(d, wire[d.i + 1])

\* A turn of the loop of ReadPacket
Turned(d) ==
    IF d.settled /\ d.out < Len(d.frames) /\ d.frames[d.out + 1].resolved
    THEN [d EXCEPT !.out = @ + 1, !.result = "packet"]
    ELSE IF d.eof THEN [d EXCEPT !.result = IF d.out = Len(d.frames) THEN "eof" ELSE "err"]
    ELSE TurnElement(Leave(d))
RECURSIVE Turns(_)
Turns(d) == IF d.result # "none" THEN d ELSE Turns(Turned(Settled(d)))

\* ReadPacket: the offset moves all times of the file.
Given(f, offset) ==
    [nals |-> f.nals, key |-> f.key, front |-> f.front, padding |-> f.padding, pts |-> f.pts + offset, dts |-> Most(f.dts + offset, 0)]
ReadPacket ==
    /\ mux.state # "open" /\ dem.result # "eof"
    /\ \E d \in {Turns([dem EXCEPT !.result = "none"])} :
          /\ dem' = d
          /\ got' = IF d.result # "packet" THEN got
                    ELSE [got EXCEPT ![d.frames[d.out].track] = Append(@, Given(d.frames[d.out], d.offset))]
    /\ UNCHANGED <<mux, wire, given>>

Next ==
    \/ \E au \in Units, s \in DOMAIN mux.tracks : /\ s \in Opened(au.cid)
                                                  /\ \E dts \in NextDts(s), delay \in au.delays, padding \in au.paddings :
                                                        Write(au, s, dts, delay, padding)
    \/ \E n \in 0..3 : WriteTrailer(n)
    \/ \E k \in LastCluster..Len(wire), torn \in BOOLEAN : Crash(k, torn)
    \/ \E style \in Styles : Rewrite(style)
    \/ ReadPacket

Spec == Init /\ [][Next]_vars

--------------------------------------------------------------------------------
(* Properties                                                              *)

\* The Demuxer is where it thinks it is, and holds no more frames than it may: those
\* it cannot yet give a time, and before that those it waits for.
TypeOK ==
    /\ dem.pos = Length(SubSeq(wire, 1, dem.i))
    /\ \A s \in 1..2 : Len(dem.reorder[s].pending) < Window /\ Len(mux.tracks) >= s => Len(mux.tracks[s].pcm) < PcmBlock
    /\ mux.header \/ Len(mux.pending) < MaxPending \/ mux.err

Flat(s) == FlattenSeq([n \in DOMAIN given[s] |-> given[s][n].nals])
GotFlat(s) == FlattenSeq([i \in DOMAIN got[s] |-> got[s][i].nals])
Media(nals) == SelectSeq(nals, LAMBDA u : u.t \notin Params)
AllRead == mux.state \in {"finished", "rewritten"} /\ dem.result = "eof"

\* When a frame was to be shown
TimeOf(s, u) ==
    given[s][u.ref[1]].pts + (CASE mux.tracks[s].cid = "aac" -> (u.ref[2] - 1) * FrameTime
                                [] mux.tracks[s].cid = "g711" -> u.ref[2] - 1 [] OTHER -> 0)

\* All that was written is read, in order and at its time, of G.711 to a millisecond,
\* whoever wrote the blocks.
GivenAsTaken ==
    \A s \in DOMAIN mux.tracks :
       /\ IsPrefix(Media(GotFlat(s)), Media(Flat(s)))
       /\ AllRead => Media(GotFlat(s)) = Media(Flat(s))
       /\ \A i \in DOMAIN got[s] : LET p == got[s][i] IN
             /\ p.nals # <<>> /\ p.key = (mux.tracks[s].cid # "h264" \/ "idr" \in TypesOf(p.nals))
             /\ p.pts - dem.offset - TimeOf(s, p.nals[1]) \in (IF mux.tracks[s].cid = "g711" THEN -1..1 ELSE {0})
             /\ p.padding = given[s][Last(p.nals).ref[1]].padding

\* How many frames ahead of its place in the order of presentation a frame comes.
Depth(pts) ==
    Max({0} \cup {k - 1 - Cardinality({j \in DOMAIN pts : pts[j] < pts[k]}) : k \in DOMAIN pts})
Shows(s) == LET full == SelectSeq(given[s], LAMBDA w : Media(w.nals) # <<>>) IN [n \in DOMAIN full |-> full[n].pts]
\* The first frames of a track tell its depth, and are looked at in time.
Foreseeable(s) ==
    /\ Depth(Shows(s)) <= Depth(SubSeq(Shows(s), 1, Least(Window, Len(Shows(s)))))
    /\ \A t \in DOMAIN mux.tracks \ {s} : Len(Flat(t)) + Window <= OffsetWait

\* Decode times, though no one wrote them, never go back and never pass the
\* presentation time; they rise from frame to frame when the depth of the reordering
\* shows in the first frames.
DecodeTimes ==
    \A s \in DOMAIN mux.tracks : \A i \in DOMAIN got[s] :
       /\ got[s][i].dts <= got[s][i].pts
       /\ i > 1 => /\ got[s][i - 1].dts <= got[s][i].dts
                   /\ got[s][i - 1].dts = got[s][i].dts => got[s][i].dts = 0 \/ ~Foreseeable(s)

\* An index, once it is there, points at what it names: the cues at clusters that begin
\* with the key frame of that time, the SeekHead at its elements, the size at the end,
\* the duration past the last frame.
IndexHonest ==
    mux.state = "finished" /\ mux.seekable =>
       LET at(pos) == CHOOSE k \in 0..Len(wire) : Length(SubSeq(wire, 1, k)) = DataAt(wire) + pos
           exists(pos) == \E k \in 0..Len(wire) - 1 : Length(SubSeq(wire, 1, k)) = DataAt(wire) + pos
           seekHead == wire[3]
           duration == SelectSeq(wire, LAMBDA e : e.id = "info")[1].v[1]
           blocks == SelectSeq(wire, LAMBDA e : e.id = "block")
       IN  /\ wire[2].size = Length(wire) - DataAt(wire)
           /\ \A k \in DOMAIN seekHead.v : exists(seekHead.v[k].at) /\ wire[at(seekHead.v[k].at) + 1].id = seekHead.v[k].id
           /\ \A k \in DOMAIN mux.cues : LET c == mux.cues[k] IN
                 /\ exists(c.at) /\ wire[at(c.at) + 1].id = "cluster"
                 /\ wire[at(c.at) + 2].v = <<c.time>>
                 /\ LET b == wire[at(c.at) + 3].v[1] IN b.track = c.track /\ b.rel = 0 /\ b.key
           /\ HasVideo(mux) => Len(mux.cues) = Len(SelectSeq(blocks, LAMBDA e : e.v[1].key /\ IsVideo(mux.tracks[e.v[1].track].cid)))
           /\ \A s \in DOMAIN mux.tracks : \A n \in DOMAIN given[s] :
                 (\E k \in DOMAIN blocks : blocks[k].v[1].track = s) /\ Media(given[s][n].nals) # <<>> => duration >= TimeOf(s, Last(Media(given[s][n].nals)))

\* A file that was cut off gives what is whole in it, if the reader goes on after the
\* error.
CutKeepsWhole ==
    mux.state = "stopped" /\ dem.result = "eof" =>
       \A s \in DOMAIN mux.tracks :
          GotFlat(s) = FlattenSeq([k \in DOMAIN wire |-> IF wire[k].id = "block" /\ wire[k].v[1].track = s
                                                         THEN wire[k].v[1].frames[1] ELSE <<>>])

\* A key frame is given with all the parameter sets of the CodecPrivate, in the version
\* the Muxer had when it wrote the head; one that changed later is not in the file.
KeysDecodable ==
    \A s \in DOMAIN mux.tracks : \A i \in DOMAIN got[s] :
       got[s][i].key => \A t \in ParamsOf(mux.tracks[s].cid) : got[s][i].front[t] = mux.tracks[s].sets[t] /\ mux.tracks[s].sets[t] # 0

================================================================================
