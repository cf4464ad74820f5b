---------------------------------- MODULE Ogg ----------------------------------
(***************************************************************************)
(* Ogg Opus files (go-ogg): a Muxer that cuts the packets of several       *)
(* streams into pages, the disk it writes to, which may refuse one write,  *)
(* the pages on their way, which may be lost, and a Demuxer that is given  *)
(* the file in buffers cut anywhere.                                       *)
(*                                                                         *)
(* A packet is a sequence of cells <<n, k>>, the k-th part of the n-th     *)
(* packet of its stream; n is 0 in the two headers.  SegMax cells fill a   *)
(* segment, as 255 bytes do, and a page takes PageSegs segments.  Times    *)
(* count samples.                                                          *)
(***************************************************************************)
EXTENDS Integers, Sequences, FiniteSets, SequencesExt

CONSTANTS
    SegMax,        \* 255, the size of a full segment
    PageSegs,      \* 255, the segments of a full page
    TargetBytes,   \* pageTargetBytes
    TargetSamples, \* pageTargetSamples
    PendingMax,    \* maxPendingPackets
    PreSkip,       \* the pre-skip of an OpusHead that is given
    Lens,          \* lengths of packets, in cells
    Dur,           \* samples in a packet
    Starts,        \* timestamps of the first packet of a stream
    Paddings,      \* discardPadding, in samples
    MaxStreams,    \* bound: streams added
    MaxPackets,    \* bound: packets written
    MaxLost,       \* bound: pages lost
    MaxCut,        \* bound: cells of a payload in a buffer that ends inside it
    FailAts        \* how many pages are written before a write fails

OggAssumption ==
    /\ {SegMax, PageSegs, PendingMax, Dur} \subseteq Nat \ {0}
    /\ {TargetBytes, TargetSamples, PreSkip} \subseteq Nat
    /\ {MaxStreams, MaxPackets, MaxLost, MaxCut} \subseteq Nat
    /\ Lens \subseteq Nat \ {0} /\ Starts \subseteq Nat /\ Paddings \subseteq Nat
    /\ FailAts \subseteq Nat

VARIABLES
    streams,  \* the muxer's streams, in the order they were added
    started,  \* Muxer.started
    finished, \* Muxer.finished
    pending,  \* packets held back until every stream is ready
    failed,   \* Muxer.writeErr # nil
    failAt,   \* the page whose write fails
    writes,   \* pages given to the writer
    file,     \* the pages on the disk
    written,  \* stream -> the packets Write took
    rd,       \* the page the demuxer reads
    inHead,   \* DEMUX_PAGE_HEAD, else DEMUX_PAGE_PAYLOAD
    cached,   \* what of the page's header (0 or 1) or payload is cached
    dem,      \* stream -> the demuxer's oggStream and its opusDemuxer
    derr,     \* whether Input returned an error
    out,      \* stream -> what OnFrame was given
    lostPages \* pages lost

muxer   == <<streams, started, finished, pending, failed, failAt, writes, file, written>>
demuxer == <<rd, inHead, cached, dem, derr, out>>
vars    == <<muxer, demuxer, lostPages>>

NoGranule == -1   \* noGranule
NoTime    == -1   \* ^uint64(0) in opusDemuxer.lastpts
HeadCell  == <<0, 1>>
TagsCell  == <<0, 2>>
Ids == 1..MaxStreams
Cells(n, len) == [k \in 1..len |-> <<n, k>>]
SizeOf(segs) == FoldLeft(LAMBDA a, b : a + b, 0, segs)

NewStream(hasHead) ==
    [seq |-> 0, ready |-> hasHead, skip |-> IF hasHead THEN PreSkip ELSE 0, started |-> FALSE,
     granule |-> 0, padding |-> 0, lastDur |-> 0, ended |-> FALSE, body |-> <<>>,
     segments |-> <<>>, pageGranule |-> NoGranule, pageStart |-> 0, continued |-> FALSE,
     flushDue |-> FALSE]
NewDemux ==
    [seen |-> FALSE, seq |-> 0, lost |-> FALSE, cache |-> <<>>, known |-> FALSE,
     lastpts |-> NoTime, granule |-> 0]

Init ==
    /\ streams = <<>> /\ started = FALSE /\ finished = FALSE /\ pending = <<>> /\ failed = FALSE
    /\ failAt \in FailAts /\ writes = 0 /\ file = <<>> /\ written = [s \in Ids |-> <<>>]
    /\ rd = 1 /\ inHead = TRUE /\ cached = 0 /\ dem = [s \in Ids |-> NewDemux] /\ derr = FALSE
    /\ out = [s \in Ids |-> <<>>] /\ lostPages = 0

--------------------------------------------------------------------------------
(* The muxer. m is the muxer while a call works on it: its streams, the    *)
(* file, and whether a write of this call failed.                          *)

M == [streams |-> streams, file |-> file, writes |-> writes, failed |-> failed, err |-> FALSE]

\* Mutant: no segment says that a packet of full segments ends.
AddSegmentsOpen(st, packet) ==
    LET n == Len(packet) IN
    [st EXCEPT !.body = @ \o packet,
               !.segments = @ \o [i \in 1..(n \div SegMax) |-> SegMax]
                              \o IF n % SegMax = 0 THEN <<>> ELSE <<n % SegMax>>]

AddSegments(st, packet) ==
    LET n == Len(packet) IN
    [st EXCEPT !.body = @ \o packet,
               !.segments = @ \o [i \in 1..(n \div SegMax) |-> SegMax] \o <<n % SegMax>>]

FlushPage(m, s, flags) ==
    LET st == m.streams[s]
        page == [s |-> s, seq |-> st.seq, granule |-> st.pageGranule,
                 flags |-> flags \cup IF st.continued THEN {"continued"} ELSE {},
                 segments |-> st.segments, body |-> st.body]
        fails == m.writes = failAt
    IN  [m EXCEPT !.streams[s] = [st EXCEPT !.seq = @ + 1, !.body = <<>>, !.segments = <<>>,
                                            !.continued = FALSE, !.pageGranule = NoGranule,
                                            !.pageStart = st.granule],
                  !.file = IF fails THEN @ ELSE Append(@, page),
                  !.writes = @ + 1, !.failed = @ \/ fails, !.err = fails]

\* Mutant: the segment that ends a packet is not counted.
FitsLate(st, rest) == Len(rest) \div SegMax <= PageSegs - Len(st.segments)
\* Whether the rest of a packet fits on the open page.
Fits(st, rest) == Len(rest) \div SegMax + 1 <= PageSegs - Len(st.segments)

\* A turn of addPacket's loop for a packet that does not fit on the open page;
\* x.rest is what is left of the packet.
Spill(x, s) ==
    LET st == x.m.streams[s]
        room == PageSegs - Len(st.segments)
        full == [st EXCEPT !.body = @ \o SubSeq(x.rest, 1, room * SegMax),
                           !.segments = @ \o [i \in 1..room |-> SegMax]]
        m == FlushPage([x.m EXCEPT !.streams[s] = full], s, {})
    IN  IF x.m.err \/ Fits(st, x.rest) THEN x
        ELSE [m |-> IF m.err THEN m ELSE [m EXCEPT !.streams[s].continued = TRUE],
              rest |-> SubSeq(x.rest, room * SegMax + 1, Len(x.rest))]

Due(st) == Len(st.body) >= TargetBytes \/ st.granule - st.pageStart >= TargetSamples

\* Begins the stream at its first packet, and writes the open page if it is due.
Open(m, p) ==
    LET st == m.streams[p.s]
        begun == [m EXCEPT !.streams[p.s] = [st EXCEPT
                    !.started = TRUE, !.flushDue = FALSE,
                    !.granule = IF st.started THEN @ ELSE p.at,
                    !.pageStart = IF st.started THEN @ ELSE p.at]]
    IN  IF st.flushDue THEN FlushPage(begun, p.s, {}) ELSE begun

FinishPacket(x, s) ==
    LET st == [AddSegments(x.m.streams[s], x.rest) EXCEPT !.pageGranule = x.m.streams[s].granule]
    IN  IF x.m.err THEN x.m ELSE [x.m EXCEPT !.streams[s] = [st EXCEPT !.flushDue = Due(st)]]

AddPacket(m, p) ==
    LET opened == Open(m, p)
        timed == [opened EXCEPT !.streams[p.s] = [@ EXCEPT
                    !.granule = @ + Dur, !.lastDur = Dur, !.padding = p.pad]]
        turns == [i \in 1..p.len |-> p.s]
    IN  IF m.err THEN m
        ELSE IF opened.err THEN opened
        ELSE FinishPacket(FoldLeft(Spill, [m |-> timed, rest |-> Cells(p.n, p.len)], turns), p.s)

\* Mutant: the granule of a header page is not set.
HeaderPageUntimed(m, s, cell, flags) ==
    IF m.err THEN m
    ELSE FlushPage([m EXCEPT !.streams[s] = AddSegments(@, <<cell>>)], s, flags)

HeaderPage(m, s, cell, flags) ==
    IF m.err THEN m
    ELSE FlushPage([m EXCEPT !.streams[s] = [AddSegments(@, <<cell>>) EXCEPT !.pageGranule = 0]],
                   s, flags)

Headers(m) ==
    LET left == [m EXCEPT !.streams = [s \in DOMAIN @ |-> [@[s] EXCEPT !.ended = ~m.streams[s].ready]]]
        ready == SelectSeq([s \in DOMAIN m.streams |-> s], LAMBDA s : m.streams[s].ready)
        heads == FoldLeft(LAMBDA x, s : HeaderPage(x, s, HeadCell, {"bos"}), left, ready)
    IN  FoldLeft(LAMBDA x, s : HeaderPage(x, s, TagsCell, {}), heads, ready)

\* start, given the packets held back
StartFile(m, held) == FoldLeft(AddPacket, Headers(m), held)

Commit(m) ==
    /\ streams' = m.streams /\ file' = m.file /\ writes' = m.writes /\ failed' = m.failed

AddOpusStream(hasHead) ==
    /\ ~started /\ ~finished /\ Len(streams) < MaxStreams
    /\ streams' = Append(streams, NewStream(hasHead))
    /\ UNCHANGED <<started, finished, pending, failed, failAt, writes, file, written, demuxer, lostPages>>

Packets == FoldLeft(LAMBDA a, s : a + Len(written[s]), 0, [s \in Ids |-> s])

\* WritePadded; a packet for a stream that was left out is refused.
Write(s, len, at, pad) ==
    LET p == [s |-> s, n |-> Len(written[s]) + 1, len |-> len, at |-> at, pad |-> pad]
        known == [M EXCEPT !.streams[s].ready = TRUE]
        held == Append(pending, p)
        waits == \E t \in DOMAIN streams : ~known.streams[t].ready /\ Len(held) < PendingMax
    IN  /\ ~finished /\ ~failed /\ ~streams[s].ended /\ Packets < MaxPackets
        /\ written[s] # <<>> => at = 0
        /\ written' = [written EXCEPT ![s] = Append(@, [len |-> len, at |-> at])]
        /\ \/ /\ started
              /\ Commit(AddPacket(known, p))
              /\ UNCHANGED <<started, pending>>
           \/ /\ ~started /\ waits
              /\ Commit(known) /\ pending' = held
              /\ UNCHANGED started
           \/ /\ ~started /\ ~waits
              /\ Commit(StartFile(known, held))
              /\ started' = TRUE
              /\ pending' = IF Headers(known).err THEN held ELSE <<>>
        /\ UNCHANGED <<finished, failAt, demuxer, lostPages>>

\* The last page of a stream.
EndStream(m, s) ==
    LET st == m.streams[s]
        trim == IF st.padding > 0 /\ st.padding <= st.lastDur THEN st.padding ELSE 0
    IN  IF m.err \/ st.ended THEN m
        ELSE FlushPage([m EXCEPT !.streams[s] = [st EXCEPT
                          !.ended = TRUE, !.pageGranule = st.granule - trim]], s, {"eos"})

WriteTrailer ==
    LET m == IF started THEN M ELSE StartFile(M, pending)
    IN  /\ ~finished
        /\ started' = TRUE
        /\ pending' = IF started \/ Headers(M).err THEN pending ELSE <<>>
        /\ finished' = ~m.err
        /\ Commit(IF m.err THEN m ELSE FoldLeft(EndStream, m, [s \in DOMAIN streams |-> s]))
        /\ UNCHANGED <<failAt, written, demuxer, lostPages>>

--------------------------------------------------------------------------------
(* The demuxer.  The file is read once the muxer is done with it.          *)

Readable == (finished \/ failed) /\ ~derr /\ rd <= Len(file)
currentPage == file[rd]

\* Mutant: the part of a packet before a lost page is kept.
ReadHeadKeeps(d) ==
    LET gap == d.seen /\ d.seq + 1 # currentPage.seq
    IN  [d EXCEPT !.seen = TRUE, !.seq = currentPage.seq, !.lost = gap]

\* The header of the page is complete.
ReadHead(d) ==
    LET gap == d.seen /\ d.seq + 1 # currentPage.seq
    IN  [d EXCEPT !.seen = TRUE, !.seq = currentPage.seq, !.lost = gap,
                  !.cache = IF gap THEN <<>> ELSE @]

\* Where the packets that begin on the page begin: the segment, the packet
\* completed before it if any, and what is left of the cache.
Entry(d) ==
    LET segs == currentPage.segments
        full  == {j \in DOMAIN segs : segs[j] = SegMax}
        short == DOMAIN segs \ full
        end == Min(short)
        upto(j) == SubSeq(currentPage.body, 1, SizeOf(SubSeq(segs, 1, j)))
        skipped == [idx |-> Len(segs) + 1, packets |-> <<>>, cache |-> d.cache]
    IN  IF "continued" \notin currentPage.flags THEN [skipped EXCEPT !.idx = 1]
        ELSE IF d.lost THEN IF full = {} THEN skipped ELSE [skipped EXCEPT !.idx = Min(full)]
        ELSE IF short = {} THEN [skipped EXCEPT !.cache = @ \o currentPage.body]
        ELSE [idx |-> end + 1, packets |-> <<d.cache \o upto(end)>>, cache |-> <<>>]

\* The cells of segments i to j.
Part(i, j) ==
    SubSeq(currentPage.body, SizeOf(SubSeq(currentPage.segments, 1, i - 1)) + 1, SizeOf(SubSeq(currentPage.segments, 1, j)))

Split(d) ==
    LET e == Entry(d)
        ends == SetToSortSeq({j \in e.idx..Len(currentPage.segments) : currentPage.segments[j] < SegMax}, <)
        begin(i) == IF i = 1 THEN e.idx ELSE ends[i - 1] + 1
    IN  [packets |-> e.packets \o [i \in DOMAIN ends |-> Part(begin(i), ends[i])],
         cache |-> e.cache \o Part(begin(Len(ends) + 1), Len(currentPage.segments))]

\* The samples of a packet by its first byte; g when that is not the first
\* byte of a packet.
DurOf(packet, g) == IF packet = <<>> THEN 0 ELSE IF packet[1][2] = 1 THEN Dur ELSE g

\* opusDemuxer.packet, for a page without loss before it
Timed(d, packets, packet, g, skip) ==
    LET fresh == d.granule # currentPage.granule /\ "eos" \notin currentPage.flags
        granule == IF fresh THEN currentPage.granule ELSE d.granule
        pts == IF d.lastpts = NoTime THEN 0 ELSE d.lastpts
        duration == FoldLeft(LAMBDA a, p : a + DurOf(p, g), 0, packets)
        base == IF ~fresh /\ pts # 0 THEN pts
                ELSE IF granule > duration + skip THEN granule - duration - skip ELSE 0
    IN  [d |-> [d EXCEPT !.granule = granule, !.lastpts = base + DurOf(packet, g)], pts |-> pts]

\* readPacket; x holds the stream, the frames and whether an error came up.
ReadPacket(x, packet, packets, g) ==
    LET d == [x.d EXCEPT !.known = @ \/ ("bos" \in currentPage.flags /\ packet = <<HeadCell>>)]
        t == Timed(d, packets, packet, g, streams[currentPage.s].skip)
        frame(pts) == [cells |-> packet, pts |-> pts, lost |-> d.lost]
        header == ("bos" \in currentPage.flags \/ currentPage.granule = 0)
                  /\ packet \in {<<HeadCell>>, <<TagsCell>>}
    IN  IF x.err THEN x
        ELSE IF ~d.known \/ packet = <<>> THEN [x EXCEPT !.err = TRUE]
        ELSE IF header THEN [x EXCEPT !.d = d]
        ELSE IF d.lost THEN [x EXCEPT !.d = d, !.frames = Append(@, frame(d.lastpts))]
        ELSE [x EXCEPT !.d = t.d, !.frames = Append(@, frame(t.pts))]

ReadPayload(d, g) ==
    LET split == Split(d)
        x == FoldLeft(LAMBDA a, p : ReadPacket(a, p, split.packets, g),
                      [d |-> d, frames |-> <<>>, err |-> FALSE], split.packets)
    IN  [x EXCEPT !.d.cache = split.cache]

\* A buffer that ends inside the header of the currentPage.
InputInsideHead ==
    /\ Readable /\ inHead /\ cached = 0
    /\ cached' = 1
    /\ UNCHANGED <<muxer, rd, inHead, dem, derr, out, lostPages>>

\* A buffer that brings the page up to the k-th cell of its payload.
Input(k, g) ==
    LET s == currentPage.s
        d == IF inHead THEN ReadHead(dem[s]) ELSE dem[s]
        x == ReadPayload(d, g)
    IN  /\ Readable /\ k \in (0..MaxCut \cap 0..Len(currentPage.body)) \cup {Len(currentPage.body)}
        /\ (inHead \/ k > cached)
        /\ \/ /\ k < Len(currentPage.body)
              /\ cached' = k /\ inHead' = FALSE
              /\ dem' = [dem EXCEPT ![s] = d]
              /\ UNCHANGED <<rd, derr, out>>
           \/ /\ k = Len(currentPage.body)
              /\ dem' = [dem EXCEPT ![s] = x.d] /\ derr' = x.err
              /\ out' = [out EXCEPT ![s] = @ \o x.frames]
              /\ cached' = 0 /\ inHead' = TRUE /\ rd' = rd + 1
        /\ UNCHANGED <<muxer, lostPages>>

\* A page is lost on its way to the demuxer.
Lose ==
    /\ Readable /\ inHead /\ cached = 0 /\ lostPages < MaxLost
    /\ rd' = rd + 1 /\ lostPages' = lostPages + 1
    /\ UNCHANGED <<muxer, inHead, cached, dem, derr, out>>

Next ==
    \/ \E hasHead \in BOOLEAN : AddOpusStream(hasHead)
    \/ \E s \in DOMAIN streams, len \in Lens, at \in Starts, pad \in Paddings : Write(s, len, at, pad)
    \/ WriteTrailer
    \/ InputInsideHead
    \/ rd <= Len(file) /\ \E k \in 0..Len(currentPage.body), g \in {0, Dur} : Input(k, g)
    \/ Lose

Spec == Init /\ [][Next]_vars

--------------------------------------------------------------------------------
(* Properties                                                              *)

Flags == {"continued", "bos", "eos"}
Pages == [s : Ids, seq : Nat, granule : Nat \cup {NoGranule}, flags : SUBSET Flags,
          segments : Seq(0..SegMax), body : Seq(Nat \X Nat)]

\* The open page of a stream has room and its segments are its body; what the
\* demuxer caches is less than a page; packets are held back only before the
\* file begins.
TypeOK ==
    /\ \A s \in DOMAIN streams :
          /\ Len(streams[s].segments) <= PageSegs
          /\ SizeOf(streams[s].segments) = Len(streams[s].body)
          /\ {streams[s].seq, streams[s].granule, streams[s].padding} \subseteq Nat
    /\ {started, finished, failed, inHead, derr} \subseteq BOOLEAN
    /\ Len(pending) <= PendingMax
    /\ pending # <<>> => failed \/ (~started /\ Len(pending) < PendingMax)
    /\ \A i \in DOMAIN file : /\ file[i] \in Pages /\ Len(file[i].segments) <= PageSegs
                             /\ SizeOf(file[i].segments) = Len(file[i].body)
    /\ rd \in 1..Len(file) + 1 /\ (rd <= Len(file) => cached \in 0..Len(currentPage.body) + 1)
    /\ \A s \in Ids : dem[s].lastpts \in Nat \cup {NoTime} /\ dem[s].granule \in Nat

ReadOut == finished /\ rd > Len(file)

\* What Write took is what OnFrame gives, packet for packet, whole and in order,
\* however packets are cut into pages and the file into buffers, as long as no
\* page is lost and no write fails.  A stream that begins at 0 has each packet
\* at its time, up to the pre-skip.
GivenAsTaken ==
    lostPages = 0 /\ ~failed =>
    /\ ~derr
    /\ \A s \in Ids :
       /\ Len(out[s]) <= Len(written[s]) /\ (ReadOut => Len(out[s]) = Len(written[s]))
       /\ \A i \in DOMAIN out[s] :
          /\ out[s][i].cells = Cells(i, written[s][i].len) /\ ~out[s][i].lost
          /\ written[s][1].at = 0 =>
               /\ out[s][i].pts <= (i - 1) * Dur
               /\ out[s][i].pts + streams[s].skip >= (i - 1) * Dur

\* Whatever pages are lost and whichever write fails, a frame is a packet that
\* was written or the end of one: never cells of two packets, never a packet
\* without its end, none twice and none before an earlier one.
NeverSpliced ==
    \A s \in Ids : \A i \in DOMAIN out[s] :
        LET cells == out[s][i].cells
            n == cells[1][1]
        IN  /\ n \in DOMAIN written[s]
            /\ IsSuffix(cells, Cells(n, written[s][n].len))
            /\ i > 1 => out[s][i - 1].cells[1][1] < n

\* The pages of a stream.
PagesOf(s) == SelectSeq(file, LAMBDA p : p.s = s)
PacketEnds(p) == \E j \in DOMAIN p.segments : p.segments[j] < SegMax

\* The file keeps the rules of its format: pages that begin streams come before
\* all others and the header of every stream before its packets; the pages of a
\* stream are numbered, the last one, with the end of its last packet, is marked
\* and none follows; a granule says that a packet ends, and none goes back; what
\* a page does not finish goes on on the next, which says so.
PagesInOrder ==
    ~failed =>
    /\ \A i, j \in DOMAIN file :
          i < j /\ "bos" \in file[j].flags => file[i].flags = {"bos"}
    /\ \A s \in DOMAIN streams : LET ps == PagesOf(s) IN
       /\ finished /\ ps # <<>> => "eos" \in ps[Len(ps)].flags
       /\ \A i \in DOMAIN ps :
          /\ ps[i].seq = i - 1
          /\ i <= 2 <=> ps[i].body \in {<<HeadCell>>, <<TagsCell>>}
          /\ "bos" \in ps[i].flags <=> i = 1
          /\ "eos" \in ps[i].flags =>
                i = Len(ps) /\ (written[s] # <<>> => PacketEnds(ps[i]))
          /\ ps[i].granule = NoGranule <=> ~PacketEnds(ps[i]) /\ "eos" \notin ps[i].flags
          /\ \A j \in 1..i - 1 : "eos" \notin ps[i].flags =>
                ps[i].granule = NoGranule \/ ps[j].granule <= ps[i].granule
          /\ i < Len(ps) /\ ps[i].segments[Len(ps[i].segments)] = SegMax =>
                "continued" \in ps[i + 1].flags
================================================================================
