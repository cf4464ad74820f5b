-------------------------------- MODULE PsStream --------------------------------
(***************************************************************************)
(* MPEG program streams (go-mpeg2): PSMuxer writes every frame as a pack   *)
(* of PES packets, the way to the reader loses packets, damages their      *)
(* heads and cuts the bytes into buffers anywhere, PSDemuxer gives the NAL *)
(* units of video and the frames of audio.                                 *)
(*                                                                         *)
(* Sizes are those of the code; the bytes of a frame are runs (AnnexB).    *)
(***************************************************************************)
EXTENDS AnnexB, FiniteSets

CONSTANTS
    PesMax,     \* 65535, the longest PES_packet_length
    Clock,      \* 90, ticks in a millisecond
    Lead,       \* 3600, how far the system clock is behind a dts
    TimeMod,    \* 2^33, the ticks a timestamp can tell apart
    Units,      \* frames that are written
    Starts,     \* dts of the first frame, in ms
    Steps,      \* ms from one dts to the next
    Delay,      \* pts - dts
    MaxStreams, \* bound: streams added
    MaxFrames,  \* bound: frames written
    MaxLost     \* bound: packets lost or damaged

PsAssumption ==
    /\ {PesMax, Clock, TimeMod} \subseteq Nat \ {0}
    /\ {Lead, Delay, MaxStreams, MaxFrames, MaxLost} \subseteq Nat
    /\ Starts \subseteq Nat /\ Steps \subseteq Nat \ {0}

VARIABLES
    mux,   \* the PSMuxer, and whether its caller is done with it
    wire,  \* the packets, the place of the reader, which packets are lost or damaged,
           \* and which undamaged ones Input passed over behind one of them
    dem,   \* the PSDemuxer
    given, \* stream -> the frames Write took
    got    \* stream -> what OnFrame was given

vars == <<mux, wire, dem, given, got>>

Ids == 1..MaxStreams
None == [none |-> TRUE]

Init ==
    /\ mux = [streams |-> <<>>, firstframe |-> TRUE, dts |-> 0, closed |-> FALSE]
    /\ wire = [pkts |-> <<>>, rd |-> 1, lost |-> {}, skipped |-> {}]
    /\ dem = [cached |-> FALSE, header |-> FALSE, streams |-> [s \in Ids |-> None], done |-> FALSE]
    /\ given = [s \in Ids |-> <<>>] /\ got = [s \in Ids |-> <<>>]

--------------------------------------------------------------------------------
(* The muxer                                                               *)

\* AddStream
AddStream(cid) ==
    /\ ~mux.closed /\ Len(mux.streams) < MaxStreams
    /\ mux' = [mux EXCEPT !.streams = Append(@, cid)]
    /\ UNCHANGED <<wire, dem, given, got>>

\* The sizes of PSPackHeader, System_header and Program_stream_map.
Pack(clock) == [kind |-> "pack", size |-> 14, clock |-> clock]
System(streams) == [kind |-> "system", size |-> 12 + 3 * Len(streams)]
Psm(streams) == [kind |-> "psm", size |-> 16 + 4 * Len(streams), streams |-> streams]

IsVideo(cid) == cid \in H26x

\* The delimiter goes in front of a frame that has a slice and none of its own.
Es(au) ==
    IF IsVideo(au.cid) /\ ~WithAud(au) /\ \E k \in DOMAIN au.nals : au.nals[k].t \in Vcl
    THEN [au EXCEPT !.nals = <<AudNal(au.cid)>> \o @] ELSE au
Added(au) == SizeOfUnit(Es(au)) - SizeOfUnit(au)

\* The first slice of the frame, if no delimiter comes before it, is one that
\* can be decoded alone.
IdrFlag(au) == IsVideo(au.cid) /\ ~WithAud(au) /\ IsIdr(au)

\* A turn of Write's loop over what is left of the frame.
PesTurn(x) ==
    LET first == x.pkts = <<>>
        peshdrlen == 13 + (IF first THEN Added(x.au) ELSE 0)
        left == SizeOfUnit(x.au) - x.out
        full == peshdrlen + left >= PesMax
        sent == IF full THEN PesMax - peshdrlen ELSE left
        from == IF first THEN 0 ELSE Added(x.au) + x.out
        pkt == [kind |-> "pes", s |-> x.s, length |-> IF full THEN PesMax ELSE peshdrlen + left,
                size |-> 19 + Added(x.au) + x.out + sent - from,
                pts |-> x.pts % TimeMod, dts |-> x.dts % TimeMod,
                n |-> x.n, lo |-> from, hi |-> Added(x.au) + x.out + sent]
    IN  IF left = 0 THEN x ELSE [x EXCEPT !.pkts = Append(@, pkt), !.out = @ + sent]

WritePes(s, au, n, pts, dts) ==
    FoldLeft(LAMBDA x, i : PesTurn(x),
             [s |-> s, au |-> au, n |-> n, pts |-> pts, dts |-> dts, out |-> 0, pkts |-> <<>>],
             [i \in 1..(SizeOfUnit(au) \div (PesMax - 20) + 1) |-> i]).pkts

FrameCount == FoldLeft(LAMBDA a, s : a + Len(given[s]), 0, [s \in Ids |-> s])

\* The streams the last map names.
Announced(pkts) ==
    LET maps == SelectSeq(pkts, LAMBDA p : p.kind = "psm")
    IN  IF maps = <<>> THEN {} ELSE DOMAIN Last(maps).streams

\* Mutant: only the first frame has a map.
MapDueOnce(m, au) == m.firstframe
MapDue(m, au) == m.firstframe \/ IdrFlag(au)

\* Write
Write(s, au, dts) ==
    LET ticks == dts * Clock
        pkts == <<Pack((IF ticks > Lead THEN ticks - Lead ELSE 0) % TimeMod)>>
                \o (IF MapDue(mux, au) THEN <<System(mux.streams), Psm(mux.streams)>> ELSE <<>>)
                \o WritePes(s, au, Len(given[s]) + 1, (dts + Delay) * Clock, ticks)
    IN  /\ ~mux.closed /\ FrameCount < MaxFrames
        /\ s \in DOMAIN mux.streams /\ au.cid = mux.streams[s]
        /\ mux' = [mux EXCEPT !.firstframe = FALSE, !.dts = dts]
        /\ wire' = [wire EXCEPT !.pkts = @ \o pkts]
        /\ given' = [given EXCEPT ![s] = Append(@,
                       [au |-> au, pts |-> dts + Delay, dts |-> dts,
                        known |-> s \in Announced(wire.pkts \o pkts)])]
        /\ UNCHANGED <<dem, got>>

\* The caller is done: the reader begins.
Close ==
    /\ ~mux.closed /\ mux' = [mux EXCEPT !.closed = TRUE]
    /\ UNCHANGED <<wire, dem, given, got>>

--------------------------------------------------------------------------------
(* The demuxer                                                             *)

\* The n-th frame of stream s as it goes out.
Sent(s) == [n \in DOMAIN given[s] |-> Es(given[s][n].au)]

Frame(st, runs) == [runs |-> runs, pts |-> st.pts \div Clock, dts |-> st.dts \div Clock]

\* demuxAudio; x is the stream and what it gives.
DemuxAudio(st, p, run) ==
    LET whole == st.pts # p.pts /\ st.buf # <<>>
    IN  [st |-> [st EXCEPT !.buf = AppendRun(IF whole THEN <<>> ELSE @, run), !.pts = p.pts, !.dts = p.dts],
         frames |-> IF whole THEN <<Frame(st, st.buf)>> ELSE <<>>]

\* The NAL units of the buffer from one start code to the next, but for delimiters
Cuts(st, buf, codes, ends) ==
    [i \in DOMAIN ends |-> Frame(st, Slice(buf, codes[ends[i]].at,
                                           IF ends[i] = Len(codes) THEN BufLen(buf) ELSE codes[ends[i] + 1].at))]
Nals(codes, last) == SetToSortSeq({i \in 1..last : codes[i].nal.t # "aud"}, <)
Begun(st, p) == IF st.buf = <<>> THEN [st EXCEPT !.pts = p.pts, !.dts = p.dts] ELSE st
TimedAs(st, p, buf) == [st EXCEPT !.pts = p.pts, !.dts = p.dts, !.buf = buf]

\* Mutant: the last NAL unit of the buffer is given before its end has come.
GiveWholeEager(st, p, buf, codes) ==
    [st |-> TimedAs(st, p, <<>>), frames |-> Cuts(st, buf, codes, Nals(codes, Len(codes)))]
\* Mutant: what was given stays in the buffer.
GiveWholeKeeps(st, p, buf, codes) ==
    [st |-> TimedAs(st, p, buf), frames |-> Cuts(st, buf, codes, Nals(codes, Len(codes) - 1))]
\* The NAL units of the buffer whose end is in it
GiveWhole(st, p, buf, codes) ==
    [st |-> TimedAs(st, p, IF codes = <<>> THEN buf ELSE Slice(buf, Last(codes).at, BufLen(buf))),
     frames |-> Cuts(st, buf, codes, Nals(codes, Len(codes) - 1))]
Coded(st, p, buf, units) == GiveWhole(st, p, buf, StartCodes(buf, units, 0))
\* demuxH26x
DemuxH26x(st, p, run, units) == Coded(Begun(st, p), p, AppendRun(st.buf, run), units)

\* decodePes and demuxPespacket
DecodePes(st, p, units) ==
    LET run == [n |-> p.n, lo |-> p.lo, hi |-> p.hi]
    IN  IF IsVideo(st.cid) THEN DemuxH26x(st, p, run, units) ELSE DemuxAudio(st, p, run)

LearnStreams(known, named) ==
    [s \in Ids |-> IF known[s] # None \/ s \notin DOMAIN named THEN known[s]
                   ELSE [cid |-> named[s], pts |-> 0, dts |-> 0, buf |-> <<>>]]

Reading == mux.closed /\ wire.rd <= Len(wire.pkts)

\* A buffer that ends inside a packet: Input keeps what there is of it, whatever
\* the packet, and reads it again from its start code.
InputPart ==
    /\ Reading /\ ~dem.cached
    /\ dem' = [dem EXCEPT !.cached = TRUE]
    /\ UNCHANGED <<mux, wire, given, got>>

\* A turn of Input's loop over a packet that is whole.
Input ==
    LET p == wire.pkts[wire.rd] IN
    /\ Reading
    /\ wire' = [wire EXCEPT !.rd = @ + 1]
    /\ \/ /\ p.kind = "pack"
          /\ dem' = [dem EXCEPT !.cached = FALSE, !.header = TRUE] /\ UNCHANGED got
       \/ /\ (p.kind = "system" /\ dem.header) \/ (p.kind = "pes" /\ dem.streams[p.s] = None)
          /\ dem' = [dem EXCEPT !.cached = FALSE] /\ UNCHANGED got
       \/ /\ p.kind = "psm"
          /\ dem' = [dem EXCEPT !.cached = FALSE, !.streams = LearnStreams(@, p.streams)]
          /\ UNCHANGED got
       \/ /\ p.kind = "pes" /\ dem.streams[p.s] # None
          /\ \E x \in {DecodePes(dem.streams[p.s], p, Sent(p.s))} :
                 /\ dem' = [dem EXCEPT !.cached = FALSE, !.streams[p.s] = x.st]
                 /\ got' = [got EXCEPT ![p.s] = @ \o x.frames]
    /\ UNCHANGED <<mux, given>>

\* A packet, or its start code, is lost.
Lose ==
    /\ Reading /\ ~dem.cached /\ Cardinality(wire.lost) < MaxLost
    /\ wire' = [wire EXCEPT !.rd = @ + 1, !.lost = @ \cup {wire.rd}]
    /\ UNCHANGED <<mux, dem, given, got>>

\* Of what is in the buffer Input goes on at the next start code that is whole; if
\* there is none it drops the buffer to its end, what there is of a start code too.
\* Then it looks for the rest of the packet in vain, and goes on at the one behind.
PassOver(lost) ==
    \E cut \in IF wire.rd < Len(wire.pkts) THEN {0, 1} ELSE {0} :
       wire' = [wire EXCEPT !.rd = @ + 1 + cut, !.lost = @ \cup lost, !.skipped = @ \cup wire.rd + 1..wire.rd + cut]
\* Mutant: the streams begin anew, as after a gap in a transport stream.
ResyncedAfresh(d, p) ==
    [d EXCEPT !.cached = FALSE, !.header = @ \/ p.kind = "pack",
              !.streams = [s \in Ids |-> IF @[s] = None THEN None ELSE [@[s] EXCEPT !.buf = <<>>]]]
Resynced(d, p) == [d EXCEPT !.cached = FALSE, !.header = @ \/ p.kind = "pack"]
\* A parser error: a head that is damaged, or a system header before any pack header.
Resync ==
    LET p == wire.pkts[wire.rd] IN
    /\ Reading
    /\ \/ Cardinality(wire.lost) < MaxLost /\ PassOver({wire.rd})
       \/ p.kind = "system" /\ ~dem.header /\ PassOver({})
    /\ dem' = Resynced(dem, p)
    /\ UNCHANGED <<mux, given, got>>

\* Flush
Flush ==
    LET held == {s \in Ids : dem.streams[s] # None /\ dem.streams[s].buf # <<>>}
        last(s) == Frame(dem.streams[s], dem.streams[s].buf)
    IN  /\ mux.closed /\ wire.rd > Len(wire.pkts) /\ ~dem.done
        /\ dem' = [dem EXCEPT !.done = TRUE,
                     !.streams = [s \in Ids |-> IF s \in held THEN [@[s] EXCEPT !.buf = <<>>] ELSE @[s]]]
        /\ got' = [s \in Ids |-> IF s \in held THEN Append(got[s], last(s)) ELSE got[s]]
        /\ UNCHANGED <<mux, wire, given>>

Next ==
    \/ \E cid \in {au.cid : au \in Units} : AddStream(cid)
    \/ \E s \in Ids, au \in Units :
          \/ FrameCount = 0 /\ \E at \in Starts : Write(s, au, at)
          \/ FrameCount > 0 /\ \E step \in Steps : Write(s, au, mux.dts + step)
    \/ Close
    \/ InputPart
    \/ Input
    \/ Lose
    \/ Resync
    \/ Flush

Spec == Init /\ [][Next]_vars

--------------------------------------------------------------------------------
(* Properties                                                              *)

\* What a stream holds is less than a packet and the packet before it.
TypeOK ==
    /\ {mux.firstframe, mux.closed, dem.cached, dem.header, dem.done} \subseteq BOOLEAN
    /\ wire.rd \in 1..Len(wire.pkts) + 1 /\ wire.lost \cup wire.skipped \subseteq 1..wire.rd - 1
    /\ \A s \in Ids : dem.streams[s] # None /\ IsVideo(dem.streams[s].cid) =>
          Len(StartCodes(dem.streams[s].buf, Sent(s), 0)) <= 1

\* What a frame is given as: its NAL units but for delimiters, or all of it.
Pieces(s, n) ==
    LET es == Sent(s)[n]
        nals == SelectSeq([k \in DOMAIN es.nals |-> k], LAMBDA k : es.nals[k].t # "aud")
    IN  [i \in DOMAIN nals |-> [n |-> n, lo |-> NalAt(es, nals[i]), hi |-> NalAt(es, nals[i] + 1)]]
Expected(s) ==
    FlattenSeq([n \in DOMAIN given[s] |-> IF given[s][n].known THEN Pieces(s, n) ELSE <<>>])

Wrapped(ms) == ((ms * Clock) % TimeMod) \div Clock
TimeOf(s, n, f) == f.pts = Wrapped(given[s][n].pts) /\ f.dts = Wrapped(given[s][n].dts)
LastOf(s, run) == run.hi = SizeOfUnit(Sent(s)[run.n])

\* As long as nothing is lost or damaged, every NAL unit and every audio frame
\* written after a map named its stream is given once, whole and in order, in
\* whatever buffers the bytes come; the last NAL unit of a frame and audio at
\* their time, the units before it at that or the time of the frame before.
GivenAsTaken ==
    wire.lost = {} =>
    \A s \in Ids :
       /\ Len(got[s]) <= Len(Expected(s)) /\ (dem.done => Len(got[s]) = Len(Expected(s)))
       /\ \A i \in DOMAIN got[s] :
          LET run == Expected(s)[i] IN
          /\ got[s][i].runs = <<run>>
          /\ TimeOf(s, run.n, got[s][i])
             \/ (~LastOf(s, run) /\ run.n > 1 /\ TimeOf(s, run.n - 1, got[s][i]))

\* Whatever is lost, what is given of frames that take one packet each is never
\* made of two, and never twice or out of order.
NeverSpliced ==
    \A s \in Ids :
       (\A n \in DOMAIN given[s] : 13 + SizeOfUnit(Sent(s)[n]) < PesMax) =>
       \A i \in DOMAIN got[s] :
          /\ Len(got[s][i].runs) = 1
          /\ got[s][i].runs[1] \in ToSet(Pieces(s, got[s][i].runs[1].n))
          /\ i > 1 => LET a == got[s][i - 1].runs[1]
                          b == got[s][i].runs[1]
                      IN  a.n < b.n \/ (a.n = b.n /\ a.hi <= b.lo)

PesOf(s, n) == {i \in DOMAIN wire.pkts : wire.pkts[i].kind = "pes" /\ wire.pkts[i].s = s /\ wire.pkts[i].n = n}
KnownAt(s, i, gone) ==
    \E a \in 1..i - 1 : /\ a \notin gone /\ wire.pkts[a].kind = "psm"
                        /\ s \in DOMAIN wire.pkts[a].streams

\* A frame none of whose packets is in gone, and before which a map with its stream
\* came that is not either, is given.
CostsOnly(gone) ==
    dem.done =>
    \A s \in Ids : \A n \in DOMAIN given[s] :
       /\ PesOf(s, n) \cap gone = {} /\ KnownAt(s, Min(PesOf(s, n)), gone)
       /\ \A m \in DOMAIN given[s] : 13 + SizeOfUnit(Sent(s)[m]) < PesMax
       => \A run \in ToSet(Pieces(s, n)) : \E i \in DOMAIN got[s] : got[s][i].runs = <<run>>

\* A packet that is lost costs the frame it hits and no other.  One that is damaged, or
\* a system header that comes before any pack header, may also cost the packet behind
\* it: when the buffer it is in ends within the start code of that packet.
LossIsLocal == CostsOnly(wire.lost \cup wire.skipped)

FirstPes(i) == \A j \in 1..i - 1 : wire.pkts[j].kind # "pes"
Continues(i, p) ==
    i \in DOMAIN wire.pkts /\ LET q == wire.pkts[i] IN q.kind = "pes" /\ q.s = p.s /\ q.n = p.n /\ q.lo = p.hi
DecodableAlone(au) == IsVideo(au.cid) /\ IsIdr(au) /\ \A k \in DOMAIN au.nals : au.nals[k].t # "aud"
LastPack(i) == Last(SelectSeq(SubSeq(wire.pkts, 1, i - 1), LAMBDA q : q.kind = "pack"))

\* A packet is as long as it says.  The packets of a frame follow on one another from
\* its first byte to its last, and only the last is shorter than it may be.  A map with
\* its stream is right before the first frame, and before every frame whose first
\* slice can be decoded alone and that has no delimiter of its own.  The system clock is
\* behind the frame, by no more than Lead, over a wrap as well.  (Once packets are read
\* no more are written.)
WellFormed ==
    wire.rd = 1 =>
    /\ \A s \in Ids : \A n \in DOMAIN given[s] : \E i \in PesOf(s, n) : wire.pkts[i].lo = 0
    /\ \A i \in DOMAIN wire.pkts : LET p == wire.pkts[i] IN
       p.kind = "pes" =>
       /\ p.size = p.length + 6 /\ p.length <= PesMax
       /\ p.hi < SizeOfUnit(Sent(p.s)[p.n]) => p.length = PesMax /\ Continues(i + 1, p)
       /\ p.lo = 0 =>
             /\ (p.dts - LastPack(i).clock) % TimeMod <= Lead
             /\ FirstPes(i) \/ DecodableAlone(given[p.s][p.n].au) =>
                   wire.pkts[i - 1].kind = "psm" /\ p.s \in DOMAIN wire.pkts[i - 1].streams
================================================================================
