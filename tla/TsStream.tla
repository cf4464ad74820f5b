-------------------------------- MODULE TsStream --------------------------------
(***************************************************************************)
(* MPEG transport streams (go-mpeg2): TSMuxer cuts the frames of several   *)
(* streams into packets of 188 bytes, the way to the reader loses packets  *)
(* or brings them twice, TSDemuxer puts the frames together again.         *)
(*                                                                         *)
(* Sizes are those of the code, in bytes.  The bytes of a frame are runs   *)
(* (see AnnexB); what a header says is a record next to its size.          *)
(***************************************************************************)
EXTENDS AnnexB, FiniteSets

CONSTANTS
    PacketSize, \* TS_PAKCET_SIZE, 188
    CcMod,      \* 16, the values of a continuity counter
    PesMax,     \* 65535, the longest PES_packet_length
    Clock,      \* 90, ticks in a millisecond
    TimeMod,    \* 2^33, the ticks a timestamp can tell apart
    Period,     \* 400 ms, how often the tables are repeated
    Units,      \* frames that are written
    Starts,     \* dts of the first frame, in ms
    Steps,      \* ms from one dts to the next
    Delays,     \* pts - dts
    MaxStreams, \* bound: streams added
    MaxFrames,  \* bound: frames written
    MaxLost,    \* bound: packets lost
    MaxTwice    \* bound: packets that come twice

TsAssumption ==
    /\ {PacketSize, CcMod, PesMax, Clock, TimeMod} \subseteq Nat \ {0}
    /\ {Period, MaxStreams, MaxFrames, MaxLost, MaxTwice} \subseteq Nat
    /\ Starts \subseteq Nat /\ Steps \subseteq Nat /\ Delays \subseteq Nat

VARIABLES
    mux,   \* the TSMuxer, and whether its caller is done with it
    wire,  \* the packets, which of them are lost, the place of the reader
    dem,   \* the TSDemuxer
    given, \* stream -> the frames Write took
    got    \* stream -> the frames OnFrame was given

vars == <<mux, wire, dem, given, got>>

Ids == 1..MaxStreams
PatPid == 0    \* TS_PID_PAT
PmtPid == -1   \* pmt_pid, 0x200; stream s is pid 0x100 + s - 1
NoPid  == -2   \* pcr_pid 0
NoPcr  == -1   \* PCR_flag 0
None   == [none |-> TRUE]

NewStream(cid) == [cid |-> cid, cc |-> 0]
NewTsStream(cid) ==
    [cid |-> cid, cc |-> 0, ccValid |-> FALSE, waitPUSI |-> TRUE, pts |-> 0, dts |-> 0,
     pkg |-> None, scanPos |-> 0, frameBeg |-> -1, vcl |-> 0]

Init ==
    /\ mux = [streams |-> <<>>, patCc |-> 0, pmtCc |-> 0, pcrPid |-> NoPid, patPeriod |-> 0,
              dts |-> 0, failed |-> FALSE, closed |-> FALSE]
    /\ wire = [pkts |-> <<>>, rd |-> 1, lost |-> {}, twice |-> 0]
    /\ dem = [pat |-> FALSE, streams |-> [s \in Ids |-> None], done |-> FALSE]
    /\ given = [s \in Ids |-> <<>>] /\ got = [s \in Ids |-> <<>>]

--------------------------------------------------------------------------------
(* The muxer                                                               *)

\* AddStream
AddStream(cid) ==
    /\ ~mux.closed /\ Len(mux.streams) < MaxStreams
    /\ mux' = [mux EXCEPT !.streams = Append(@, NewStream(cid))]
    /\ UNCHANGED <<wire, dem, given, got>>

IsVideo(cid) == cid \in H26x   \* findPESIDByStreamType

\* What Adaptation_field.Encode writes: the length byte, the flags, a clock and
\* the stuffing, or the length byte alone.
FieldSize(f) == IF f.single THEN 1 ELSE 2 + (IF f.pcr = NoPcr THEN 0 ELSE 6) + f.stuffing
PesHeaderSize == 9 + 10   \* PesPacket.Encode with both timestamps

\* The bytes EncodeHeader and PesPacket.Encode put into a packet.
SizeOfPacket(p) ==
    4 + (IF p.field = None THEN 0 ELSE FieldSize(p.field))
      + (IF p.pes = None THEN 0 ELSE PesHeaderSize) + p.hi - p.lo

\* Pat.Encode, Pmt.Encode, behind the byte that points to them
SectionSize(pid, content) == IF pid = PatPid THEN 13 + 4 * Cardinality(content) ELSE 17 + 5 * Len(content.streams)

\* writePat, writePmt: the section and what stuffing puts behind it
Table(pid, cc, content) ==
    [pid |-> pid, pusi |-> TRUE, cc |-> cc, field |-> None, pes |-> None, n |-> 0, lo |-> 0,
     hi |-> Max({SectionSize(pid, content), PacketSize - 4}), content |-> content]

\* Mutant: the tables are written once.
DueOnce(m, dts) == m.patPeriod = 0
\* When the tables are due.
Due(m, dts) == m.patPeriod = 0 \/ m.patPeriod + Period < dts
Tables(m, dts) ==
    IF ~Due(m, dts) THEN [m |-> m, pkts |-> <<>>]
    ELSE [m |-> [m EXCEPT !.patPeriod = IF dts = 0 THEN 1 ELSE dts,
                          !.patCc = (@ + 1) % CcMod, !.pmtCc = (@ + 1) % CcMod],
          pkts |-> <<Table(PatPid, m.patCc, {PmtPid}),
                     Table(PmtPid, m.pmtCc, [pcr |-> m.pcrPid, streams |-> m.streams])>>]

\* Mutant: the clock stays with the stream that was written first.
ChoosePcrFirst(m, s) == IF m.pcrPid = NoPid THEN [m EXCEPT !.pcrPid = s] ELSE m
\* The clock moves to a video stream.
ChoosePcr(m, s) ==
    IF m.pcrPid = NoPid \/ (IsVideo(m.streams[s].cid) /\ m.pcrPid # s)
    THEN [m EXCEPT !.pcrPid = s] ELSE m

\* What goes out for a frame: the frame behind the access unit delimiter that
\* the code puts before video without one.
Es(au) == IF IsVideo(au.cid) /\ ~WithAud(au) THEN [au EXCEPT !.nals = <<AudNal(au.cid)>> \o @] ELSE au
Added(au) == SizeOfUnit(Es(au)) - SizeOfUnit(au)

\* Mutant: a packet with room for one more byte gets two.
StuffTwo(field, room) ==
    IF field # None THEN [field EXCEPT !.stuffing = room]
    ELSE [rai |-> FALSE, pcr |-> NoPcr, single |-> FALSE, stuffing |-> IF room < 2 THEN 0 ELSE room - 2]
\* The last packet of a frame, with room bytes left over: they go into its
\* adaptation field, which takes one or two itself when there was none.
Stuff(field, room) ==
    IF field # None THEN [field EXCEPT !.stuffing = room]
    ELSE [rai |-> FALSE, pcr |-> NoPcr, single |-> room = 1,
          stuffing |-> IF room = 1 THEN 0 ELSE room - 2]

\* A turn of the loop of writePES.  x is what it works on: the stream, the
\* frame, how many bytes of it are out, the packets made so far.
PesTurn(x) ==
    LET first == x.pkts = <<>>
        rai == first /\ IsIdr(x.au)
        pcr == first /\ x.s = x.pcrPid
        field == IF ~rai /\ ~pcr THEN None
                 ELSE [rai |-> rai, single |-> FALSE, stuffing |-> 0,
                       pcr |-> IF ~pcr THEN NoPcr ELSE (IF x.dts = 0 THEN x.pts ELSE x.dts) % TimeMod]
        headlen == 4 + (IF field = None THEN 0 ELSE 2) + (IF pcr THEN 6 ELSE 0)
                     + (IF first THEN 19 + Added(x.au) ELSE 0)
        left == SizeOfUnit(x.au) - x.out
        last == left + headlen < PacketSize
        length == PesHeaderSize - 6 + Added(x.au) + SizeOfUnit(x.au)
        sent == IF last THEN left ELSE PacketSize - headlen
        from == IF first THEN 0 ELSE Added(x.au) + x.out
        pkt == [pid |-> x.s, pusi |-> first, cc |-> x.cc,
                field |-> IF last THEN Stuff(field, PacketSize - left - headlen) ELSE field,
                pes |-> IF ~first THEN None
                        ELSE [length |-> IF length > PesMax THEN 0 ELSE length,
                              pts |-> x.pts % TimeMod, dts |-> x.dts % TimeMod],
                n |-> x.n, lo |-> from, hi |-> Added(x.au) + x.out + sent, content |-> None]
    IN  IF x.done THEN x
        ELSE [x EXCEPT !.pkts = Append(@, pkt), !.out = @ + sent, !.cc = (@ + 1) % CcMod,
                       !.done = (left = sent)]

\* writePES; the frame takes at most this many packets.
WritePes(m, s, au, n, pts, dts) ==
    LET turns == [i \in 1..(SizeOfUnit(au) \div (PacketSize - 50) + 2) |-> i]
    IN  FoldLeft(LAMBDA x, i : PesTurn(x),
                 [s |-> s, au |-> au, n |-> n, pts |-> pts, dts |-> dts, out |-> 0, done |-> FALSE,
                  cc |-> m.streams[s].cc, pcrPid |-> m.pcrPid, pkts |-> <<>>],
                 turns)

FrameCount == FoldLeft(LAMBDA a, s : a + Len(given[s]), 0, [s \in Ids |-> s])

\* The streams the last table names.
Announced(pkts) ==
    LET tables == SelectSeq(pkts, LAMBDA p : p.pid = PmtPid)
    IN  IF tables = <<>> THEN {} ELSE DOMAIN Last(tables).content.streams

\* Write stops at a packet that is not of 188 bytes.
Fit(pkts) == LET wrong == {i \in DOMAIN pkts : SizeOfPacket(pkts[i]) # PacketSize}
             IN  IF wrong = {} THEN pkts ELSE SubSeq(pkts, 1, Min(wrong) - 1)
Write(s, au, dts, delay) ==
    /\ ~mux.closed /\ ~mux.failed /\ FrameCount < MaxFrames
    /\ s \in DOMAIN mux.streams /\ au.cid = mux.streams[s].cid
    /\ \E timed \in {Tables(ChoosePcr(mux, s), dts)} :
       \E x \in {WritePes(timed.m, s, au, Len(given[s]) + 1, (dts + delay) * Clock, dts * Clock)} :
       \E pkts \in {Fit(timed.pkts \o x.pkts)} :
          /\ mux' = [timed.m EXCEPT !.streams[s].cc = x.cc, !.dts = dts,
                                    !.failed = (pkts # timed.pkts \o x.pkts)]
          /\ wire' = [wire EXCEPT !.pkts = @ \o pkts]
          /\ given' = [given EXCEPT ![s] = Append(@,
                         [au |-> au, pts |-> dts + delay, dts |-> dts,
                          known |-> s \in Announced(wire.pkts \o pkts)])]
    /\ UNCHANGED <<dem, got>>

\* The caller is done: the reader begins.
Close ==
    /\ ~mux.closed /\ mux' = [mux EXCEPT !.closed = TRUE]
    /\ UNCHANGED <<wire, dem, given, got>>

--------------------------------------------------------------------------------
(* The demuxer                                                             *)

\* The n-th PES payload of stream s.
Sent(s) == [n \in DOMAIN given[s] |-> Es(given[s][n].au)]

\* Mutant: the part of a frame before a lost packet is kept.
KeepPartial(st) == [st EXCEPT !.waitPUSI = TRUE]
DropPartial(st) ==
    [st EXCEPT !.waitPUSI = TRUE, !.scanPos = 0, !.frameBeg = -1, !.vcl = 0,
               !.pkg = IF @ = None THEN None ELSE [@ EXCEPT !.payload = <<>>]]

Frame(st, buf, units) ==
    [runs |-> IF IsVideo(st.cid) THEN Slice(buf, LeadingAud(buf, units), BufLen(buf)) ELSE buf,
     pts |-> st.pkg.pts \div Clock, dts |-> st.pkg.dts \div Clock]

FreshPkg(st) == [payload |-> <<>>, pts |-> st.pts, dts |-> st.dts]

\* doAudioPesPacket; x is the stream and the frames it gives.
AudioPes(st, start, run) ==
    LET pkg == IF st.pkg = None THEN FreshPkg(st) ELSE st.pkg
        whole == pkg.payload # <<>> /\ (start \/ st.pts # pkg.pts)
        old == [st EXCEPT !.pkg = pkg]
    IN  [st |-> [st EXCEPT !.pkg = [payload |-> AppendRun(IF whole THEN <<>> ELSE pkg.payload, run),
                                    pts |-> st.pts, dts |-> st.dts]],
         frames |-> IF whole THEN <<Frame(old, pkg.payload, <<>>)>> ELSE <<>>]

\* A start code that splitH26xFrame comes to.
ScanTurn(x, c, len, hdrLen) ==
    LET beg == IF x.beg < 0 THEN c.at ELSE x.beg
        slice == c.nal.t \in Vcl
        opens == x.vcl > 0 /\ (slice => c.nal.first)
        vcl == IF slice /\ x.vcl = 0 THEN 1 ELSE x.vcl
    IN  IF x.stop THEN x
        ELSE IF len - c.at < c.sct + hdrLen
             THEN [x EXCEPT !.stop = TRUE, !.beg = beg, !.scan = c.at]
        ELSE IF opens THEN [x EXCEPT !.cuts = Append(@, [from |-> beg, to |-> c.at]), !.beg = c.at,
                                     !.vcl = 0, !.scan = c.at + 3]
        ELSE [x EXCEPT !.beg = beg, !.vcl = vcl, !.scan = c.at + 3]

HdrLen(cid) == IF cid = "h265" THEN 3 ELSE 2
Scanned(st, codes, len) ==
    FoldLeft(LAMBDA a, c : ScanTurn(a, c, len, HdrLen(st.cid)),
             [beg |-> st.frameBeg, vcl |-> st.vcl, scan |-> st.scanPos, stop |-> FALSE, cuts |-> <<>>], codes)
\* What the scan gives, and what it leaves of the buffer
ScanEnd(x, len) == IF ~x.stop /\ len - 2 > x.scan THEN len - 2 ELSE x.scan
Gone(x) == IF x.beg > 0 THEN x.beg ELSE 0
Left(st, buf, len, x) ==
    [st EXCEPT !.vcl = x.vcl, !.frameBeg = x.beg - Gone(x), !.pkg.payload = Slice(buf, Gone(x), len),
               !.scanPos = IF ScanEnd(x, len) < Gone(x) THEN 0 ELSE ScanEnd(x, len) - Gone(x)]
Split(st, buf, units, len, x) ==
    [st |-> Left(st, buf, len, x),
     frames |-> [i \in DOMAIN x.cuts |-> Frame(st, Slice(buf, x.cuts[i].from, x.cuts[i].to), units)]]
\* splitH26xFrame: the access units of the buffer that are complete.
SplitH26x(st, buf, units) ==
    Split(st, buf, units, BufLen(buf), Scanned(st, StartCodes(buf, units, st.scanPos), BufLen(buf)))

\* doVideoPesPacket: after a frame, the time of what is left is that of the packet.
TimeOfRest(st, x) == IF x.frames = <<>> THEN x ELSE [x EXCEPT !.st.pkg.pts = st.pts, !.st.pkg.dts = st.dts]
BeginPkg(st) == [st EXCEPT !.pkg = FreshPkg(st), !.scanPos = 0, !.frameBeg = -1, !.vcl = 0]
AddPayload(st, units, run) == SplitH26x(st, AppendRun(st.pkg.payload, run), units)
VideoPes(st, units, run) ==
    TimeOfRest(st, AddPayload(IF st.pkg # None THEN st ELSE BeginPkg(st), units, run))

\* What DecodeHeader leaves of a packet behind its adaptation field, and what
\* PesPacket.Decode leaves of that: no more than PES_packet_length says.
Rest(p) == PacketSize - 4 - (IF p.field = None THEN 0 ELSE FieldSize(p.field))
PesPayload(p) ==
    LET left == Rest(p) - PesHeaderSize
        data == p.pes.length - (PesHeaderSize - 6)
    IN  IF p.pes.length = 0 \/ left < data THEN left ELSE data
Payload(p) ==
    [n |-> p.n, lo |-> p.lo, hi |-> p.lo + (IF p.pusi THEN PesPayload(p) ELSE Rest(p))]

\* Mutant: after a gap the counter of the stream stays behind.
ContinueStale(st, p) ==
    LET gap == st.ccValid /\ p.cc # (st.cc + 1) % CcMod
    IN  IF gap THEN DropPartial(st) ELSE [st EXCEPT !.cc = p.cc, !.ccValid = TRUE]
\* checkContinuity, for a packet that is not a duplicate
Continue(st, p) ==
    LET gap == st.ccValid /\ p.cc # (st.cc + 1) % CcMod
    IN  [(IF gap THEN DropPartial(st) ELSE st) EXCEPT !.cc = p.cc, !.ccValid = TRUE]

\* A packet of an elementary stream the demuxer knows, once its counter was looked at
Begun(st, p) == IF p.pusi THEN [st EXCEPT !.waitPUSI = FALSE, !.pts = p.pes.pts, !.dts = p.pes.dts] ELSE st
Continued(st, p, units) ==
    IF st.waitPUSI /\ ~p.pusi THEN [st |-> st, frames |-> <<>>]
    ELSE IF IsVideo(st.cid) THEN VideoPes(Begun(st, p), units, Payload(p)) ELSE AudioPes(Begun(st, p), p.pusi, Payload(p))
Elementary(old, p, units) ==
    IF old.ccValid /\ p.cc = old.cc THEN [st |-> old, frames |-> <<>>] ELSE Continued(Continue(old, p), p, units)

\* The streams a PMT names that are new to the demuxer.
LearnStreams(known, named) ==
    [s \in Ids |-> IF known[s] = None /\ s \in DOMAIN named THEN NewTsStream(named[s].cid) ELSE known[s]]

\* What Input does with a packet.
InputPacket(p) ==
    \/ /\ p.pid = PatPid
       /\ dem' = [dem EXCEPT !.pat = TRUE] /\ UNCHANGED got
    \/ /\ p.pid = PmtPid /\ dem.pat
       /\ dem' = [dem EXCEPT !.streams = LearnStreams(@, p.content.streams)] /\ UNCHANGED got
    \/ /\ p.pid \in Ids /\ dem.streams[p.pid] # None
       /\ \E x \in {Elementary(dem.streams[p.pid], p, Sent(p.pid))} :
             /\ dem' = [dem EXCEPT !.streams[p.pid] = x.st]
             /\ got' = [got EXCEPT ![p.pid] = @ \o x.frames]
    \/ /\ p.pid = PmtPid => ~dem.pat
       /\ p.pid \in Ids => dem.streams[p.pid] = None
       /\ p.pid # PatPid
       /\ UNCHANGED <<dem, got>>

Reading == mux.closed /\ wire.rd <= Len(wire.pkts)

Deliver ==
    /\ Reading /\ InputPacket(wire.pkts[wire.rd])
    /\ wire' = [wire EXCEPT !.rd = @ + 1]
    /\ UNCHANGED <<mux, given>>

\* The packet comes, and will come again.
DeliverTwice ==
    /\ Reading /\ wire.twice < MaxTwice /\ InputPacket(wire.pkts[wire.rd])
    /\ wire' = [wire EXCEPT !.twice = @ + 1]
    /\ UNCHANGED <<mux, given>>

Lose ==
    /\ Reading /\ Cardinality(wire.lost) < MaxLost
    /\ wire' = [wire EXCEPT !.rd = @ + 1, !.lost = @ \cup {wire.rd}]
    /\ UNCHANGED <<mux, dem, given, got>>

\* Input comes to the end of the file: flush.
Flush ==
    LET held == {s \in Ids : /\ dem.streams[s] # None /\ dem.streams[s].pkg # None
                             /\ dem.streams[s].pkg.payload # <<>>}
        last(s) == Frame(dem.streams[s], dem.streams[s].pkg.payload, Sent(s))
    IN  /\ mux.closed /\ wire.rd > Len(wire.pkts) /\ ~dem.done
        /\ dem' = [dem EXCEPT !.done = TRUE,
                     !.streams = [s \in Ids |-> IF s \in held THEN [@[s] EXCEPT !.pkg = None] ELSE @[s]]]
        /\ got' = [s \in Ids |-> IF s \in held THEN Append(got[s], last(s)) ELSE got[s]]
        /\ UNCHANGED <<mux, wire, given>>

Next ==
    \/ \E cid \in {au.cid : au \in Units} : AddStream(cid)
    \/ \E s \in Ids, au \in Units, delay \in Delays :
          \/ FrameCount = 0 /\ \E at \in Starts : Write(s, au, at, delay)
          \/ FrameCount > 0 /\ \E step \in Steps : Write(s, au, mux.dts + step, delay)
    \/ Close
    \/ Deliver
    \/ DeliverTwice
    \/ Lose
    \/ Flush

Spec == Init /\ [][Next]_vars

--------------------------------------------------------------------------------
(* Properties                                                              *)

\* Counters stay in their range; what a stream holds is no more than one frame
\* and the beginning of the next; scanning is never past the buffer.
TypeOK ==
    /\ \A s \in DOMAIN mux.streams : mux.streams[s].cc \in 0..CcMod - 1
    /\ {mux.failed, mux.closed, dem.pat, dem.done} \subseteq BOOLEAN
    /\ wire.rd \in 1..Len(wire.pkts) + 1 /\ wire.lost \subseteq 1..wire.rd - 1
    /\ \A s \in Ids : dem.streams[s] # None =>
          LET st == dem.streams[s] IN
          /\ st.cc \in 0..CcMod - 1 /\ st.vcl \in 0..1
          /\ st.pkg # None /\ IsVideo(st.cid) =>
                /\ st.scanPos \in 0..BufLen(st.pkg.payload) /\ st.frameBeg \in -1..0

\* What OnFrame gives of a frame: without the delimiter it begins with.
Bare(au) ==
    LET es == Es(au)
    IN  [from |-> IF IsVideo(au.cid) /\ es.nals[1].t = "aud" THEN es.nals[1].len ELSE 0, to |-> SizeOfUnit(es)]
Whole(s, n, f) ==
    LET b == Bare(given[s][n].au)
    IN  f.runs = (IF b.from = b.to THEN <<>> ELSE <<[n |-> n, lo |-> b.from, hi |-> b.to]>>)
Wrapped(ms) == ((ms * Clock) % TimeMod) \div Clock
Timed(s, n, f) == f.pts = Wrapped(given[s][n].pts) /\ f.dts = Wrapped(given[s][n].dts)
KnownFrames(s) == SelectSeq([n \in DOMAIN given[s] |-> n], LAMBDA n : given[s][n].known)

\* As long as nothing is lost, every frame written after a table named its
\* stream is given once, whole, in order and at its time, however it was cut
\* into packets, and whether or not packets come twice.
GivenAsTaken ==
    wire.lost = {} /\ ~mux.failed =>
    \A s \in Ids :
       /\ Len(got[s]) <= Len(KnownFrames(s)) /\ (dem.done => Len(got[s]) = Len(KnownFrames(s)))
       /\ \A i \in DOMAIN got[s] :
             Whole(s, KnownFrames(s)[i], got[s][i]) /\ Timed(s, KnownFrames(s)[i], got[s][i])

\* The longest stretch of packets of stream s that were lost one after another.
Stretch(s) ==
    LET own == SelectSeq([i \in DOMAIN wire.pkts |-> i], LAMBDA i : wire.pkts[i].pid = s)
        gone(i, j) == \A k \in i..j : own[k] \in wire.lost
    IN  IF \A i \in DOMAIN own : own[i] \notin wire.lost THEN 0
        ELSE Max({x[2] - x[1] + 1 : x \in {y \in (DOMAIN own) \X (DOMAIN own) : y[1] <= y[2] /\ gone(y[1], y[2])}})

\* Whatever is lost, a frame is never put together from two, unless as many
\* packets are lost in a row as make the counter look right; a frame that is not
\* the last of the file is never cut short, and none is given twice or late.
NeverSpliced ==
    \A s \in Ids : Stretch(s) < CcMod - 1 =>
       \A i \in DOMAIN got[s] :
          /\ Len(got[s][i].runs) <= 1
          /\ got[s][i].runs # <<>> =>
               LET n == got[s][i].runs[1].n IN
               /\ Whole(s, n, got[s][i]) \/ (dem.done /\ i = Len(got[s]))
               /\ \A j \in 1..i - 1 : got[s][j].runs # <<>> => got[s][j].runs[1].n < n
               /\ \E m \in 1..n : Timed(s, m, got[s][i])

PacketsOf(s, n) == {i \in DOMAIN wire.pkts : wire.pkts[i].pid = s /\ wire.pkts[i].n = n}
KnownAt(s, i) ==
    \E a, b \in 1..i - 1 : /\ a < b /\ {a, b} \cap wire.lost = {} /\ wire.pkts[a].pid = PatPid
                           /\ wire.pkts[b].pid = PmtPid /\ s \in DOMAIN wire.pkts[b].content.streams

\* A loss costs no more than the frame it hits and the one before it: a frame
\* all of whose packets come, and the first packet after it, is given.
LossIsLocal ==
    dem.done /\ ~mux.failed =>
    \A s \in Ids : Stretch(s) < CcMod - 1 =>
       \A n \in DOMAIN given[s] :
          /\ PacketsOf(s, n) \cap wire.lost = {} /\ KnownAt(s, Min(PacketsOf(s, n)))
          /\ (n < Len(given[s]) => Min(PacketsOf(s, n + 1)) \notin wire.lost)
          => \E i \in DOMAIN got[s] : Whole(s, n, got[s][i])

Begins(i) == wire.pkts[i].pid \in Ids /\ wire.pkts[i].pusi
NextBegin(i) == Min({k \in i..Len(wire.pkts) : Begins(k)})
FrameAt(i) == given[wire.pkts[i].pid][wire.pkts[i].n]
VideoAt(i) == IsVideo(FrameAt(i).au.cid)
HasClock(p) == p.field # None /\ p.field.pcr # NoPcr
\* A video frame carries a clock; as long as there was none, one of the stream that
\* was written first does.
ClockDue(i) ==
    VideoAt(i) \/ ((\A k \in 1..i - 1 : Begins(k) => ~VideoAt(k)) /\ wire.pkts[i].pid = wire.pkts[NextBegin(1)].pid)
ClockOf(i) == IF FrameAt(i).dts = 0 THEN wire.pkts[i].pes.pts ELSE wire.pkts[i].pes.dts
\* A PAT and a PMT behind it come before the frame, written with one that is no more
\* than Period older.  (A dts of 0 counts as 1.)
TablesFresh(i) ==
    \E j \in 2..i - 1 : /\ wire.pkts[j - 1].pid = PatPid /\ wire.pkts[j].pid = PmtPid
                        /\ FrameAt(i).dts <= Max({1, FrameAt(NextBegin(j)).dts}) + Period
LastClock(i) == wire.pkts[Max({k \in 1..i : Begins(k) /\ HasClock(wire.pkts[k])})].pid

\* Every packet has 188 bytes, whatever the length of a frame, and the packets of a
\* stream are numbered.  A frame begins in a packet that says so and how long it is,
\* or nothing when that is too long to be told; tables come before it and again in
\* time.  It begins with a clock if and only if its stream has the clock, and tables
\* name that stream when they are written.  (Once packets are read no more are
\* written.)
WellFormed ==
    wire.rd = 1 =>
    /\ ~mux.failed
    /\ \A i \in DOMAIN wire.pkts : LET p == wire.pkts[i] IN
       /\ SizeOfPacket(p) = PacketSize
       /\ \A j \in 1..i - 1 : wire.pkts[j].pid = p.pid /\ (\A k \in j + 1..i - 1 : wire.pkts[k].pid # p.pid)
             => p.cc = (wire.pkts[j].cc + 1) % CcMod
       /\ p.pid = PmtPid => p.content.pcr = LastClock(NextBegin(i))
       /\ p.pid \in Ids =>
          /\ p.pusi <=> p.lo = 0
          /\ p.field # None => p.field.stuffing \in 0..255
          /\ p.pusi =>
                /\ LET size == SizeOfUnit(Es(FrameAt(i).au)) + PesHeaderSize - 6
                   IN  p.pes.length = IF size > PesMax THEN 0 ELSE size
                /\ TablesFresh(i)
                /\ IF ClockDue(i) THEN HasClock(p) /\ p.field.pcr = ClockOf(i) ELSE ~HasClock(p)
          /\ ~p.pusi => ~HasClock(p)
================================================================================
