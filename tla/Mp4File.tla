--------------------------------- MODULE Mp4File ---------------------------------
(***************************************************************************)
(* MP4 files (go-mp4): Movmuxer writes a plain file, a fragmented file or  *)
(* DASH segments, its caller may stop at any time, MovDemuxer reads the    *)
(* samples back, seeking or not.                                           *)
(*                                                                         *)
(* A file is a sequence of boxes, each at an offset; the samples of an     *)
(* mdat box are [at, size, nals], where <<n, k>> is the k-th NAL unit, or  *)
(* the k-th audio frame, of the n-th Write of the track.                   *)
(***************************************************************************)
EXTENDS Mp4Boxes, FiniteSetsExt

CONSTANTS
    Modes,        \* of "plain", "frag", "dash"
    FragDuration, \* WithFragmentDuration
    SidxReserve,  \* WithSidxReserve
    FrameTime,    \* how long an AAC frame lasts, in ms
    Units,        \* what a Write is given: [cid, nals, delays], the last pts - dts
    TrackSets,    \* the codecs of the tracks, in order
    Steps,        \* ms from one dts to the next
    SeekTimes,    \* arguments of SeekTime
    MaxWrites,    \* bound: frames written
    MaxFlushes    \* bound: calls of FlushFragment

Mp4Assumption ==
    /\ Modes \subseteq {"plain", "frag", "dash"}
    /\ {FragDuration, SidxReserve, FrameTime, MaxWrites, MaxFlushes} \subseteq Nat
    /\ SidxReserve > 0 /\ Steps \subseteq Nat /\ SeekTimes \subseteq Nat

VARIABLES
    mux,   \* the Movmuxer
    wire,  \* the file
    dem,   \* the MovDemuxer
    given, \* track -> what Write was given
    got    \* track -> the packets ReadPacket gave

vars == <<mux, wire, dem, given, got>>

Ids == 1..2
Vcl == {"slice", "idr"}
Params == {"vps", "sps", "pps"}
ParamsOf(cid) == CASE cid = "h264" -> {"sps", "pps"} [] cid = "h265" -> Params [] OTHER -> {}

\* newmp4track
NewTrack(cid) ==
    [cid |-> cid, list |-> <<>>, extra |-> {}, buf |-> <<>>, fragments |-> <<>>, duration |-> 0,
     last |-> [pts |-> 0, dts |-> 0, vcl |-> FALSE, key |-> FALSE, nals |-> <<>>, size |-> 0],
     start |-> [pts |-> 0, dts |-> 0], default |-> 0, runDuration |-> 0, total |-> 0]

Box(kind, at, size) == [kind |-> kind, at |-> at, size |-> size]
FileEnd(boxes) == IF boxes = <<>> THEN 0 ELSE Last(boxes).at + Last(boxes).size
Put(boxes, kind, size) == Append(boxes, Box(kind, FileEnd(boxes), size))

\* CreateMp4Muxer and addTrack: a plain file begins with ftyp, free and an mdat
\* that grows.
Init ==
    /\ \E mode \in Modes, cids \in TrackSets :
          /\ mux = [mode |-> mode, tracks |-> [i \in DOMAIN cids |-> NewTrack(cids[i])], count |-> 0,
                    head |-> [moov |-> FALSE, fragments |-> <<>>], sidx |-> <<>>, mehd |-> 0,
                    reports |-> <<>>, flushes |-> 0, state |-> "open"]
          /\ wire = [boxes |-> IF mode = "plain" THEN Put(Put(Put(<<>>, "ftyp", Ftyp(4)), "free", Free(0)), "mdat", Basic)
                               ELSE <<>>,
                     data |-> {}, moov |-> <<>>, cut |-> 0]
    /\ dem = [state |-> "none", tracks |-> <<>>, sought |-> -1]
    /\ given = [s \in Ids |-> <<>>] /\ got = [s \in Ids |-> <<>>]

Fragmented == mux.mode # "plain"
HasVideo(tracks) == \E i \in DOMAIN tracks : IsVideo(tracks[i].cid)

--------------------------------------------------------------------------------
(* A track takes samples.  x is the track and the samples written out.     *)

\* addSampleEntry: the duration runs from the first sample of the run.
AddSample(t, s) ==
    [t EXCEPT !.list = Append(@, s),
       !.duration = IF t.list = <<>> THEN 0
                    ELSE @ + (IF s.dts < Last(t.list).dts THEN 1 ELSE s.dts - Last(t.list).dts)]

\* A sample goes to the file, or to the buffer of the fragment; at is where that ends.
PutSample(x, s) ==
    [x EXCEPT !.t = AddSample(@, [pts |-> s.pts, dts |-> s.dts, offset |-> x.at, size |-> s.size, key |-> s.key]),
              !.at = @ + s.size, !.out = Append(@, [at |-> x.at, size |-> s.size, nals |-> s.nals])]

\* isH264NewAccessUnit, isH265NewAccessUnit
NewAccessUnit(u) == u.t \in Params \cup {"aud", "sei"} \/ (u.t \in Vcl /\ u.first)

\* The frame that was collected becomes a sample.
PutLast(x) ==
    [PutSample(x, x.t.last) EXCEPT !.t.last.nals = <<>>, !.t.last.size = 0, !.t.last.vcl = FALSE]

\* A NAL unit behind what was collected
Collect(t, u, ref, pts, dts) ==
    LET timed == [t.last EXCEPT !.pts = pts, !.dts = dts, !.vcl = TRUE, !.key = (u.t = "idr")]
        last == IF u.t \in Vcl THEN timed ELSE t.last
    IN  [t EXCEPT !.extra = @ \cup ({u.t} \cap Params),
           !.last = [last EXCEPT !.nals = Append(@, [ref |-> ref, t |-> u.t]), !.size = @ + u.len]]

\* Mutant: every slice begins a picture.
TakeNalEach(x, u, ref, pts, dts) ==
    LET y == IF x.t.last.vcl /\ (NewAccessUnit(u) \/ u.t \in Vcl) THEN PutLast(x) ELSE x
    IN  [y EXCEPT !.t = Collect(@, u, ref, pts, dts)]

\* writeH264, writeH265: a turn for each NAL unit.  The first parameter sets are
\* kept as the configuration of the track; another one of that id is left out of
\* H.264, whatever it says.
TakeNal(x, u, ref, pts, dts) ==
    LET y == IF x.t.last.vcl /\ NewAccessUnit(u) THEN PutLast(x) ELSE x
    IN  IF x.t.cid = "h264" /\ u.t \in Params \cap x.t.extra THEN x
        ELSE [y EXCEPT !.t = Collect(@, u, ref, pts, dts)]

\* writeAAC, writeG711: a sample for each frame, whose time goes on with it; the
\* first frame is the configuration.  AAC goes without its header of 7 bytes.
TakeFrame(x, u, k, ref, pts, dts) ==
    LET aac == x.t.cid = "aac"
        y == IF aac THEN [x EXCEPT !.t.extra = {"asc"}] ELSE x
    IN  PutSample(y, [pts |-> pts + (k - 1) * FrameTime, dts |-> dts + (k - 1) * FrameTime, key |-> FALSE,
                      size |-> IF aac THEN u.len - 7 ELSE u.len, nals |-> <<[ref |-> ref, t |-> "raw"]>>])

\* writeSample
WriteSample(x, nals, n, pts, dts) ==
    FoldLeft(LAMBDA y, k : IF IsVideo(x.t.cid) THEN TakeNal(y, nals[k], <<n, k>>, pts, dts)
                           ELSE TakeFrame(y, nals[k], k, <<n, k>>, pts, dts),
             x, [k \in DOMAIN nals |-> k])

\* mp4track.flush
FlushTrack(x) ==
    IF x.t.last.nals = <<>> THEN x
    ELSE [PutLast(x) EXCEPT !.t.last.key = FALSE, !.t.last.pts = 0, !.t.last.dts = 0]

\* Where a track writes: a plain file's mdat grows, a fragment has a buffer.
BufSize(t) == SumOf([i \in DOMAIN t.buf |-> t.buf[i].size])
Open(m, w, i) == [t |-> m.tracks[i], out |-> <<>>, at |-> IF m.mode = "plain" THEN FileEnd(w.boxes) ELSE BufSize(m.tracks[i])]
Placed(buf, i, at) == {[s |-> i, at |-> at + d.at, size |-> d.size, nals |-> d.nals] : d \in ToSet(buf)}

\* z is the muxer and the file
Done(z, i, x) ==
    IF z.m.mode = "plain"
    THEN [z EXCEPT !.m.tracks[i] = x.t, !.w.data = @ \cup Placed(x.out, i, 0),
                   !.w.boxes[Len(z.w.boxes)].size = @ + SumOf([k \in DOMAIN x.out |-> x.out[k].size])]
    ELSE [z EXCEPT !.m.tracks[i] = [x.t EXCEPT !.buf = @ \o x.out]]
FlushTracks(z) ==
    FoldLeft(LAMBDA y, i : Done(y, i, FlushTrack(Open(y.m, y.w, i))), z, [i \in DOMAIN z.m.tracks |-> i])

--------------------------------------------------------------------------------
(* Fragments                                                               *)

\* makeMoov fails while a track has no configuration.
Described(t) == ParamsOf(t.cid) \subseteq t.extra /\ (t.cid = "aac" => t.extra # {})
\* makeMoov: the tables of a fragmented file are empty, a track of a plain file without
\* samples has none.
TablesOf(t) == IF Fragmented THEN Tables(t.cid, EmptyTables)
               ELSE IF t.list = <<>> THEN 0 ELSE Tables(t.cid, StblTable(t.cid, t.list))
MoovSize(tracks) ==
    LET edts(t) == IF Fragmented \/ t.list = <<>> THEN 0 ELSE Edts
    IN  Basic + Mvhd + SumOf([i \in DOMAIN tracks |-> Trak(tracks[i].cid, edts(tracks[i]), TablesOf(tracks[i]))])
        + (IF Fragmented THEN Mvex(Len(tracks), mux.mode = "frag") ELSE 0)

\* writeFileHeader: ftyp, moov and room for the sidx.
FileHeader(z) ==
    LET typed == [z EXCEPT !.w.boxes = Put(@, "ftyp", Ftyp(3))]
        moov == Put(typed.w.boxes, "moov", MoovSize(z.m.tracks))
    IN  IF \E i \in DOMAIN z.m.tracks : ~Described(z.m.tracks[i]) THEN typed
        ELSE [typed EXCEPT !.w.boxes = Put(moov, "free", Sidx(SidxReserve)),
                           !.w.moov = [i \in DOMAIN z.m.tracks |->
                                         [id |-> i, cid |-> z.m.tracks[i].cid, tables |-> EmptyTables]],
                           !.m.head.moov = TRUE]

\* indexTrack
IndexTrack(tracks) ==
    LET videos == {i \in DOMAIN tracks : IsVideo(tracks[i].cid)} IN IF videos = {} THEN 1 ELSE Min(videos)

\* What is in front of each track's samples in the mdat box, and all of them.
Skips(tracks) == [i \in 1..Len(tracks) + 1 |-> SumOf([k \in 1..i - 1 |-> BufSize(tracks[k])])]

\* makeTraf of track t, whose samples begin at skip in the mdat box; the offset
\* counts from the end of the moof box.
TrafOf(t, i, skip, size, default) ==
    [track |-> i, defaultDuration |-> default, defaultSize |-> size,
     start |-> IF t.list = <<>> THEN 0 ELSE t.list[1].dts, offset |-> Basic + skip,
     entries |-> TrunOf(t.list, t.last.dts, default), fields |-> TrunFields(t.list, t.last.dts, default, size)]
Trafs(tracks, skips) ==
    [i \in DOMAIN tracks |->
       LET t == tracks[i]
       IN  TrafOf(t, i, skips[i], IF t.list = <<>> THEN 0 ELSE t.list[1].size,
                  DefaultDuration(t.list, t.last.dts, t.fragments, t.default))]
TrafSize(t, run) ==
    Basic + Tfhd(t.list) + Tfdt(t.list)
    + Trun(t.list, run.fields, IsVideo(t.cid) /\ t.list # <<>> /\ t.list[1].key)
MoofSize(tracks, runs) == Basic + Mfhd + SumOf([i \in DOMAIN tracks |-> TrafSize(tracks[i], runs[i])])

\* clearSamples and what else a track remembers of a fragment it has written.
RunTime(run) == SumOf([k \in DOMAIN run.entries |-> run.entries[k].duration])
Cleared(t, run, lasts, at) ==
    [t EXCEPT !.list = <<>>, !.buf = <<>>, !.default = run.defaultDuration, !.runDuration = lasts, !.total = @ + lasts,
       !.start = IF t.list = <<>> THEN @ ELSE [pts |-> t.list[1].pts, dts |-> t.list[1].dts],
       !.fragments = IF t.list = <<>> THEN @
                     ELSE Append(@, [offset |-> at, firstPts |-> t.list[1].pts, lastDts |-> Last(t.list).dts])]

\* A DASH segment begins with a styp and a sidx for each track.
SegmentHead(m, boxes) ==
    IF m.mode = "dash" THEN FoldLeft(LAMBDA b, i : Put(b, "sidx", Sidx(1)), Put(boxes, "styp", Styp), [i \in DOMAIN m.tracks |-> i])
    ELSE boxes

\* moof and mdat: the boxes, the samples in them, and what the muxer remembers.
PutBoxes(head, moof, runs, size) ==
    Put(Append(head, [kind |-> "moof", at |-> FileEnd(head), size |-> moof,
                      runs |-> [i \in DOMAIN runs |-> [runs[i] EXCEPT !.offset = @ + moof]]]),
        "mdat", Basic + size)
PutData(tracks, skips, body) == UNION {Placed(tracks[i].buf, i, body + skips[i]) : i \in DOMAIN tracks}
Remember(m, runs, at) ==
    [m EXCEPT !.count = @ + 1, !.tracks = [i \in DOMAIN runs |-> Cleared(@[i], runs[i], RunTime(runs[i]), at)],
       !.head.fragments = IF m.head.moov
                          THEN Append(@, [offset |-> at, duration |-> RunTime(runs[IndexTrack(m.tracks)])]) ELSE @]
PutFragment(z, head, skips, runs, moof) ==
    [m |-> Remember(z.m, runs, FileEnd(z.w.boxes)),
     w |-> [z.w EXCEPT !.boxes = PutBoxes(head, moof, runs, Last(skips)),
                       !.data = @ \cup PutData(z.m.tracks, skips, FileEnd(head) + moof + Basic)]]
PutRuns(z, skips, runs) ==
    PutFragment(z, SegmentHead(z.m, z.w.boxes), skips, runs, MoofSize(z.m.tracks, runs))
PutTracks(z, skips) == PutRuns(z, skips, Trafs(z.m.tracks, skips))

\* flushFragment: moof and mdat, of whatever samples there are.
PutSamples(z) == IF z.m.mode = "frag" /\ ~z.m.head.moov THEN z ELSE PutTracks(z, Skips(z.m.tracks))
FlushFragment(z) == PutSamples(IF z.m.mode = "frag" /\ z.m.count = 0 THEN FileHeader(z) ELSE z)

\* onNewFragment
Report(z, i) ==
    [z EXCEPT !.m.reports = Append(@, [track |-> i, start |-> z.m.tracks[i].start, duration |-> z.m.tracks[i].duration])]
ReportAll(z) ==
    FoldLeft(LAMBDA y, i : IF HasVideo(z.m.tracks) /\ ~IsVideo(z.m.tracks[i].cid) THEN y ELSE Report(y, i),
             z, [i \in DOMAIN z.m.tracks |-> i])

\* Where a fragment ends: in front of a video frame that can be decoded alone, or,
\* without video, once it is long enough.
CutDue(m, i) ==
    IF IsVideo(m.tracks[i].cid) THEN m.tracks[i].last.key /\ m.tracks[i].duration > 0
    ELSE ~HasVideo(m.tracks) /\ FragDuration > 0 /\ m.tracks[i].duration >= FragDuration

--------------------------------------------------------------------------------
(* The calls of the muxer                                                  *)

Become(z) == mux' = z.m /\ wire' = z.w

WriteCount == Len(given[1]) + Len(given[2])

\* Write
Write(s, au, dts, delay) ==
    /\ mux.state = "open" /\ WriteCount < MaxWrites
    /\ s \in DOMAIN mux.tracks /\ au.cid = mux.tracks[s].cid
    /\ given' = [given EXCEPT ![s] = Append(@, [nals |-> au.nals, pts |-> dts + delay, dts |-> dts])]
    /\ \E taken \in {Done([m |-> mux, w |-> wire], s,
                          WriteSample(Open(mux, wire, s), au.nals, Len(given[s]) + 1, dts + delay, dts))} :
          IF Fragmented /\ CutDue(taken.m, s)
          THEN \E flushed \in {FlushFragment(taken)} :
                  Become(IF flushed.m.count > mux.count THEN Report(flushed, s) ELSE flushed)
          ELSE Become(taken)
    /\ UNCHANGED <<dem, got>>

\* FlushFragment, the exported one
CallFlush ==
    /\ mux.state = "open" /\ Fragmented /\ mux.flushes < MaxFlushes
    /\ \E z \in {FlushTracks([m |-> mux, w |-> wire])} : \E flushed \in {FlushFragment(z)} :
          LET had == \E i \in DOMAIN z.m.tracks : z.m.tracks[i].list # <<>>
          IN  Become([(IF had /\ flushed.m.count > mux.count THEN ReportAll(flushed) ELSE flushed)
                        EXCEPT !.m.flushes = @ + 1])
    /\ UNCHANGED <<dem, given, got>>

\* Mutant: a group of fragments is as long as its first.
GlobalSidxFirst(m, end) ==
    LET fs == m.head.fragments
        group == (Len(fs) + SidxReserve - 1) \div SidxReserve
        refs == (Len(fs) + group - 1) \div group
        from(r) == (r - 1) * group + 1
        next(r) == IF r * group < Len(fs) THEN fs[r * group + 1].offset ELSE end
    IN  IF fs = <<>> THEN <<>>
        ELSE [r \in 1..refs |-> [size |-> next(r) - fs[from(r)].offset, duration |-> fs[from(r)].duration]]

\* makeGlobalSidx: an entry for each fragment, or for several when there is not the
\* room.
GlobalSidx(m, end) ==
    LET fs == m.head.fragments
        group == (Len(fs) + SidxReserve - 1) \div SidxReserve
        refs == (Len(fs) + group - 1) \div group
        from(r) == (r - 1) * group + 1
        next(r) == IF r * group < Len(fs) THEN fs[r * group + 1].offset ELSE end
        lasts(r) == SumOf([k \in DOMAIN fs |-> IF (k - 1) \div group = r - 1 THEN fs[k].duration ELSE 0])
    IN  IF fs = <<>> THEN <<>>
        ELSE [r \in 1..refs |-> [size |-> next(r) - fs[from(r)].offset, duration |-> lasts(r)]]

\* finishFileHeader and writeMfra: the index goes into the room that was left.
Room(boxes) == CHOOSE k \in DOMAIN boxes : boxes[k].kind = "free"
IndexBoxes(here, size, rest) ==
    <<Box("sidx", here, size)>> \o (IF rest > 0 THEN <<Box("free", here + size, rest)>> ELSE <<>>)
Indexed(boxes, room, sidx) ==
    SubSeq(boxes, 1, room - 1)
    \o (IF sidx = <<>> THEN <<boxes[room]>>
        ELSE IndexBoxes(boxes[room].at, Sidx(Len(sidx)), Sidx(SidxReserve) - Sidx(Len(sidx))))
    \o SubSeq(boxes, room + 1, Len(boxes))
Mfra(tracks) == Basic + SumOf([i \in DOMAIN tracks |-> Tfra(Len(tracks[i].fragments))]) + Mfro
Finished(z, sidx) ==
    [z EXCEPT !.m.mehd = Max({z.m.tracks[i].total : i \in DOMAIN z.m.tracks}), !.m.sidx = sidx,
              !.w.boxes = Put(Indexed(@, Room(@), sidx), "mfra", Mfra(z.m.tracks))]
FinishFragmented(z) == Finished(z, GlobalSidx(z.m, FileEnd(z.w.boxes)))

\* Mutant: the free box stays.
MdatSizedOver(boxes) ==
    LET mdat == boxes[3]
    IN  IF mdat.size > U32 THEN <<boxes[1], boxes[2], Box("mdat", mdat.at, mdat.size + Basic)>> ELSE boxes

\* reWriteMdatSize: more than 32 bits of mdat take the free box for the longer header.
MdatSized(boxes) ==
    LET mdat == boxes[3]
    IN  IF mdat.size > U32 THEN <<boxes[1], Box("mdat", mdat.at - Basic, mdat.size + Basic)>> ELSE boxes

\* writeMoov
FinishPlain(z) ==
    LET boxes == MdatSized(z.w.boxes)
        trak(i) == [id |-> i, cid |-> z.m.tracks[i].cid,
                    tables |-> StblTable(z.m.tracks[i].cid, z.m.tracks[i].list)]
    IN  IF \E i \in DOMAIN z.m.tracks : ~Described(z.m.tracks[i]) THEN [z EXCEPT !.w.boxes = boxes]
        ELSE [z EXCEPT !.w.boxes = Put(boxes, "moov", MoovSize(z.m.tracks)), !.w.moov = [i \in DOMAIN z.m.tracks |-> trak(i)]]

\* WriteTrailer
FinishFlushed(z) == IF z.m.count > mux.count THEN FinishFragmented(ReportAll(z)) ELSE z
Finish(z) ==
    CASE mux.mode = "plain" -> FinishPlain(z)
      [] mux.mode = "dash"  -> z
      [] OTHER -> FinishFlushed(FlushFragment(z))
WriteTrailer ==
    /\ mux.state = "open"
    /\ \E z \in {Finish(FlushTracks([m |-> mux, w |-> wire]))} :
          Become([z EXCEPT !.m.state = "closed", !.w.cut = FileEnd(z.w.boxes)])
    /\ UNCHANGED <<dem, given, got>>

\* The writer stops without a trailer, and the last of the file may be missing.
Crash ==
    /\ mux.state = "open" /\ Fragmented /\ wire.boxes # <<>>
    /\ \E cut \in {FileEnd(wire.boxes)} \cup {Last(wire.boxes).at + Basic} \cup {d.at : d \in wire.data} :
          wire' = [wire EXCEPT !.cut = cut]
    /\ mux' = [mux EXCEPT !.state = "crashed"]
    /\ UNCHANGED <<dem, given, got>>

--------------------------------------------------------------------------------
(* The demuxer                                                             *)

\* A DASH reader has the init segment, which WriteInitSegment makes, in front.
Moov == IF mux.mode = "dash" /\ \A i \in DOMAIN mux.tracks : Described(mux.tracks[i])
        THEN [i \in DOMAIN mux.tracks |-> [id |-> i, cid |-> mux.tracks[i].cid, tables |-> EmptyTables]]
        ELSE wire.moov

\* Mutant: a fragment counts once its mdat is whole.
FragmentSamplesWhole(id) ==
    FlattenSeq([b \in DOMAIN wire.boxes |->
        IF wire.boxes[b].kind # "moof" \/ FileEnd(SubSeq(wire.boxes, 1, Min({b + 1, Len(wire.boxes)}))) > wire.cut THEN <<>>
        ELSE FlattenSeq([i \in DOMAIN wire.boxes[b].runs |->
                 IF wire.boxes[b].runs[i].track = id THEN TrunSamples(wire.boxes[b].runs[i], wire.boxes[b].at)
                 ELSE <<>>])])

\* The samples of the fragments whose moof is in the file.
FragmentSamples(id) ==
    FlattenSeq([b \in DOMAIN wire.boxes |->
        IF wire.boxes[b].kind # "moof" \/ FileEnd(SubSeq(wire.boxes, 1, b)) > wire.cut THEN <<>>
        ELSE FlattenSeq([i \in DOMAIN wire.boxes[b].runs |->
                 IF wire.boxes[b].runs[i].track = id THEN TrunSamples(wire.boxes[b].runs[i], wire.boxes[b].at)
                 ELSE <<>>])])

\* A box that ends behind the end of the file is an error, unless it is an mdat.
Torn == \E b \in DOMAIN wire.boxes : LET x == wire.boxes[b]
                                     IN  x.kind # "mdat" /\ x.at < wire.cut /\ wire.cut < x.at + x.size
\* Nor can samples be read whose track is not described.
Orphaned == Moov = <<>> /\ wire.data # {} /\ Fragmented

\* ReadHead
ReadHead ==
    /\ mux.state # "open" /\ dem.state = "none"
    /\ dem' = IF Torn \/ Orphaned THEN [dem EXCEPT !.state = "failed"]
              ELSE [dem EXCEPT !.state = "reading",
                      !.tracks = [i \in DOMAIN Moov |->
                         [id |-> Moov[i].id, cid |-> Moov[i].cid, idx |-> 1, cache |-> <<>>,
                          stss |-> Moov[i].tables.stss,
                          list |-> IF Fragmented THEN FragmentSamples(Moov[i].id)
                                   ELSE BuildSampleList(Moov[i].tables)]]]
    /\ UNCHANGED <<mux, wire, given, got>>

TypesOf(nals) == {nals[k].t : k \in DOMAIN nals}

\* processH264, processH265: x is the track, the NAL units and the parameter sets
\* that go in front.
Process(t, nals) ==
    LET sets == TypesOf(nals) \cap Params # {}
        vcl == TypesOf(nals) \cap Vcl # {}
    IN  IF ~IsVideo(t.cid) THEN [t |-> t, nals |-> nals, front |-> {}]
        ELSE IF ~vcl THEN IF sets THEN [t |-> [t EXCEPT !.cache = @ \o nals], nals |-> <<>>, front |-> {}]
                          ELSE [t |-> t, nals |-> nals, front |-> {}]
        ELSE IF sets THEN [t |-> [t EXCEPT !.cache = <<>>], nals |-> nals, front |-> {}]
        ELSE IF "idr" \notin TypesOf(nals) THEN [t |-> t, nals |-> nals, front |-> {}]
        ELSE IF t.cache # <<>> THEN [t |-> [t EXCEPT !.cache = <<>>], nals |-> nals, front |-> TypesOf(t.cache)]
        ELSE [t |-> t, nals |-> nals, front |-> ParamsOf(t.cid)]

Left(t) == t.idx <= Len(t.list)

\* A turn of ReadPacket: the sample with the lowest dts, of the first such track;
\* "garbled" says that other bytes than a sample are there.
DtsNow(i) == dem.tracks[i].list[dem.tracks[i].idx].dts
Give(which, s, p) ==
    /\ dem' = [dem EXCEPT !.tracks[which] = [p.t EXCEPT !.idx = @ + 1]]
    /\ got' = IF p.nals = <<>> THEN got
              ELSE [got EXCEPT ![which] = Append(@, [nals |-> p.nals, front |-> p.front, pts |-> s.pts, dts |-> s.dts])]
ReadSample(which, s) ==
    LET there == {d \in wire.data : d.at = s.offset /\ d.size = s.size}
    IN  IF s.offset + s.size <= wire.cut /\ there # {} THEN \E d \in there : Give(which, s, Process(dem.tracks[which], d.nals))
        ELSE /\ dem' = [dem EXCEPT !.state = IF s.offset + s.size > wire.cut THEN "failed" ELSE "garbled"]
             /\ UNCHANGED got
ReadPacket ==
    /\ dem.state = "reading"
    /\ LET left == {i \in DOMAIN dem.tracks : Left(dem.tracks[i])} IN
       IF left = {} THEN dem' = [dem EXCEPT !.state = "ended"] /\ UNCHANGED got
       ELSE \E which \in left :
               /\ \A j \in left : DtsNow(which) < DtsNow(j) \/ (DtsNow(which) = DtsNow(j) /\ which <= j)
               /\ ReadSample(which, dem.tracks[which].list[dem.tracks[which].idx])
    /\ UNCHANGED <<mux, wire, given>>

\* Mutant: no rewinding.
SyncNowhere(t, idx) == idx

\* syncSampleAtOrBefore
SyncAtOrBefore(t, idx) ==
    LET at == {k \in ToSet(t.stss) : k <= idx} IN IF at = {} THEN idx ELSE Max(at)

\* SeekTime
SeekTime(time) ==
    LET late(t) == {k \in DOMAIN t.list : t.list[k].dts >= time}
        first(t) == IF late(t) = {} THEN Len(t.list) + 1 ELSE Min(late(t))
        moved(t) == [t EXCEPT !.cache = <<>>, !.idx = IF IsVideo(t.cid) THEN SyncAtOrBefore(t, first(t)) ELSE first(t)]
    IN  /\ dem.state \in {"reading", "ended"} /\ dem.sought = -1
        /\ dem' = [dem EXCEPT !.sought = time, !.state = "reading",
                     !.tracks = [i \in DOMAIN dem.tracks |-> moved(dem.tracks[i])]]
        /\ got' = [s \in Ids |-> <<>>]
        /\ UNCHANGED <<mux, wire, given>>

LastDts(s) == IF given[s] = <<>> THEN 0 ELSE Last(given[s]).dts

Next ==
    \/ \E s \in Ids, au \in Units, step \in Steps : \E delay \in au.delays : Write(s, au, LastDts(s) + step, delay)
    \/ CallFlush
    \/ WriteTrailer
    \/ Crash
    \/ ReadHead
    \/ ReadPacket
    \/ \E time \in SeekTimes : SeekTime(time)

Spec == Init /\ [][Next]_vars

--------------------------------------------------------------------------------
(* Properties                                                              *)

Tracks == DOMAIN mux.tracks

\* Boxes follow each other without a gap, every sample lies in an mdat box, no two
\* samples share a byte, and the reader is inside its tables and finds samples where
\* they say.
TypeOK ==
    /\ \A b \in DOMAIN wire.boxes : b > 1 => wire.boxes[b].at = wire.boxes[b - 1].at + wire.boxes[b - 1].size
    /\ \A d \in wire.data :
          /\ \E b \in DOMAIN wire.boxes : LET x == wire.boxes[b] IN
                x.kind = "mdat" /\ x.at + (IF mux.state = "closed" /\ ~Fragmented THEN HeaderLen(x.size) ELSE Basic) <= d.at /\ d.at + d.size <= x.at + x.size
          /\ \A e \in wire.data : e = d \/ d.at + d.size <= e.at \/ e.at + e.size <= d.at
    /\ dem.state # "garbled"
    /\ \A i \in DOMAIN dem.tracks : dem.tracks[i].idx \in 1..Len(dem.tracks[i].list) + 1

\* Every NAL unit and audio frame of a track with its place in what was written.
Flat(s) ==
    FlattenSeq([n \in DOMAIN given[s] |-> [k \in DOMAIN given[s][n].nals |-> [ref |-> <<n, k>>, t |-> given[s][n].nals[k].t]]])
Media(nals) == SelectSeq(nals, LAMBDA u : u.t \notin Params)
GotFlat(s) == FlattenSeq([i \in DOMAIN got[s] |-> got[s][i].nals])

\* The frame or slice that a packet is about; none if it has only other units.
Leads(nals) == SelectSeq(nals, LAMBDA u : u.t \in Vcl \cup {"raw"})
\* When it was said to be decoded.
DtsOf(s, ref) ==
    given[s][ref[1]].dts + (IF IsVideo(mux.tracks[s].cid) THEN 0 ELSE (ref[2] - 1) * FrameTime)
DelayOf(s, ref) == given[s][ref[1]].pts - given[s][ref[1]].dts

Firsts(s) == Leads(Flat(s))
\* A plain file begins at 0 with the first sample of each track.
Origin(s) == IF Fragmented THEN 0 ELSE DtsOf(s, Firsts(s)[1].ref)
\* No two frames share a dts, which a fragment cannot tell apart from no duration.
Ticking(s) == \A n \in DOMAIN given[s] : n > 1 => given[s][n].dts > given[s][n - 1].dts

\* What is read from a finished file is what was written, in order: all slices,
\* delimiters and frames, a picture per packet, each at its time.  Of DASH segments
\* the caller flushes the last one himself.
GivenAsTaken ==
    (mux.state = "closed" /\ dem.state \in {"reading", "ended"} /\ dem.sought = -1 /\ dem.tracks # <<>>) =>
    \A s \in Tracks :
       /\ IsPrefix(Media(GotFlat(s)), Media(Flat(s)))
       /\ dem.state = "ended" /\ (mux.mode = "dash" => mux.tracks[s].list = <<>>) =>
             Len(Media(GotFlat(s))) = Len(Media(Flat(s)))
       /\ \A i \in DOMAIN got[s] : LET leads == Leads(got[s][i].nals) IN
          leads # <<>> =>
          /\ Cardinality({k \in DOMAIN leads : given[s][leads[k].ref[1]].nals[leads[k].ref[2]].first}) <= 1
          /\ (Ticking(s) \/ ~Fragmented) =>
                /\ got[s][i].dts = DtsOf(s, Last(leads).ref) - Origin(s)
                /\ got[s][i].pts - got[s][i].dts = DelayOf(s, Last(leads).ref)

Complete(p, cid) == ParamsOf(cid) \subseteq TypesOf(p.nals) \cup p.front
IsKey(p) == "idr" \in TypesOf(p.nals)

\* After SeekTime video begins with a frame that can be decoded, parameter sets in
\* front, and no frame from the time asked for is left out.
SeekDecodable ==
    (dem.sought >= 0 /\ mux.state = "closed") =>
    \A s \in Tracks \cap DOMAIN dem.tracks :
       /\ got[s] # <<>> /\ dem.tracks[s].list # <<>> =>
             /\ IsVideo(mux.tracks[s].cid) /\ Firsts(s)[1].t = "idr" => IsKey(got[s][1]) /\ Complete(got[s][1], mux.tracks[s].cid)
             /\ \A k \in DOMAIN dem.tracks[s].list :
                   dem.tracks[s].list[k].dts >= dem.sought /\ k < dem.tracks[s].idx =>
                   \E i \in DOMAIN got[s] : got[s][i].dts = dem.tracks[s].list[k].dts
SeekDecodablePlain == mux.mode = "plain" => SeekDecodable

MoofAt(at) == {b \in DOMAIN wire.boxes : wire.boxes[b].kind = "moof" /\ wire.boxes[b].at = at}
RunOf(b, i) == wire.boxes[b].runs[i]

\* The index of a finished fragmented file is true: each entry of the sidx begins
\* where one before it ended, at a moof, and lasts as long as the fragments up to
\* the next entry; a tfra entry points at a moof that has the track's samples; mehd
\* covers the track of the index.
IndexHonest ==
    (mux.mode = "frag" /\ mux.state = "closed" /\ mux.head.moov) =>
    LET ref == IndexTrack(mux.tracks)
        room == CHOOSE b \in DOMAIN wire.boxes : wire.boxes[b].kind = "moov"
        behind == wire.boxes[room].at + wire.boxes[room].size + Sidx(SidxReserve)
        from(r) == behind + SumOf([k \in 1..r - 1 |-> mux.sidx[k].size])
        inside(r) == {b \in DOMAIN wire.boxes : /\ wire.boxes[b].kind = "moof" /\ from(r) <= wire.boxes[b].at
                                                /\ wire.boxes[b].at < from(r + 1)}
    IN  /\ \A r \in DOMAIN mux.sidx :
              /\ MoofAt(from(r)) # {}
              /\ mux.sidx[r].duration = MapThenSumSet(LAMBDA b : RunTime(RunOf(b, ref)), inside(r))
        /\ mux.sidx # <<>> => from(Len(mux.sidx) + 1) = Last(wire.boxes).at
        /\ Len(mux.sidx) <= SidxReserve
        /\ \A i \in Tracks : \A k \in DOMAIN mux.tracks[i].fragments :
              \E b \in MoofAt(mux.tracks[i].fragments[k].offset) : RunOf(b, i).entries # <<>>
        /\ Ticking(ref) /\ Firsts(ref) # <<>> =>
              mux.mehd >= DtsOf(ref, Last(Firsts(ref)).ref) - DtsOf(ref, Firsts(ref)[1].ref)

\* Of a fragmented file whose writer stopped, whatever was written up to the cut is
\* read, unless the cut is in a box that describes samples; what is missing of the
\* last mdat ends the reading there.
CutKeepsWhole ==
    (mux.state = "crashed" /\ ~Torn /\ ~Orphaned /\ dem.state \in {"ended", "failed"} /\ dem.sought = -1) =>
    LET described(d) == \E b \in DOMAIN wire.boxes : /\ wire.boxes[b].kind = "mdat" /\ wire.boxes[b].at <= wire.cut
                                                     /\ wire.boxes[b].at <= d.at /\ d.at < FileEnd(SubSeq(wire.boxes, 1, b))
        there == {d \in wire.data : described(d)}
        missing == {d \in there : d.at + d.size > wire.cut}
        media(d) == {u \in ToSet(d.nals) : u.t \notin Params}
        before(d) == \A m \in missing : media(d) = {} \/ Leads(m.nals) = <<>> \/ Leads(d.nals) = <<>>
                        \/ DtsOf(d.s, Leads(d.nals)[1].ref) < DtsOf(m.s, Leads(m.nals)[1].ref)
    IN  /\ (dem.state = "ended") = (missing = {})
        /\ \A d \in there : before(d) /\ (\A s \in Tracks : Ticking(s)) => media(d) \subseteq ToSet(GotFlat(d.s))
================================================================================
