------------------------------- MODULE RtpStream -------------------------------
(***************************************************************************)
(* A frame stream over RTP (go-rtsp/rtp, go-rtsp/rtcp): a packer makes     *)
(* packets of the frames of one codec, the network loses, repeats and      *)
(* reorders them, the unpacker gives NAL units or audio frames, and the    *)
(* receiver's RtcpContext counts what comes for its reports.               *)
(*                                                                         *)
(* The bytes of the n-th frame are runs (AnnexB); in a NAL unit the start  *)
(* code is left out.  An MPEG-TS payload (codec "ts") is one unit.         *)
(***************************************************************************)
EXTENDS AnnexB, FiniteSets

CONSTANTS
    SeqRange,        \* 2^16, the sequence numbers
    MinSequential, \* MIN_SEQUENTIAL, 2
    MaxDropout,    \* MAX_DROPOUT, 3000
    MaxMisorder,   \* MAX_MISORDER, 100
    Mtu,           \* the largest packet
    HeadLen,       \* RTP_FIX_HEAD_LEN, 12
    FirstSeqs,     \* sequence numbers a packer may begin with
    Units,         \* frames that are packed
    MaxFrames,     \* bound: frames
    MaxFaults,     \* bound: packets that are lost, come twice, or come late
    MaxReports     \* bound: receiver reports

RtpAssumption ==
    /\ {SeqRange, MinSequential, MaxDropout, MaxMisorder, Mtu, HeadLen} \subseteq Nat \ {0}
    /\ {MaxFrames, MaxFaults, MaxReports} \subseteq Nat
    /\ Mtu > HeadLen + 3 /\ FirstSeqs \subseteq 0..SeqRange - 1
    \* A number is in one of the windows of updateSeq.
    /\ MaxDropout + MaxMisorder <= SeqRange
    /\ \A au \in Units :
          /\ au.cid \in H26x \cup {"ts", "aac", "g711"}
          /\ au.nals \in Seq([t : STRING, len : Nat, first : BOOLEAN])
          \* A NAL unit is more than its start code.
          /\ au.cid \in H26x => \A k \in DOMAIN au.nals : au.nals[k].len > ScLen

VARIABLES
    mux,   \* the packer, and whether its caller is done with it
    wire,  \* the packets, what happened to them, the place of the receiver
    dem,   \* the unpacker and the RtcpContext of the receiver
    given, \* the frames Pack took
    got    \* what OnFrame was given

vars == <<mux, wire, dem, given, got>>

Rtcp == INSTANCE RtcpContext

NoRun == [n |-> 0, lo |-> 0, hi |-> 0]
RunLen(r) == r.hi - r.lo

Init ==
    \E cid \in {au.cid : au \in Units}, stap \in BOOLEAN, first, expected \in FirstSeqs :
    /\ stap => cid = "h264"
    /\ mux = [cid |-> cid, stap |-> stap, sequence |-> first, sps |-> NoRun, pps |-> NoRun,
              ts |-> 0, first |-> first, closed |-> FALSE]
    /\ wire = [pkts |-> <<>>, rd |-> 1, lost |-> {}, twice |-> 0, moved |-> 0, log |-> <<>>]
    /\ dem = [timestamp |-> -1, lastSequence |-> 0, lost |-> FALSE, buf |-> <<>>,
              ctx |-> Rtcp!NewContext(expected), reports |-> <<>>]
    /\ given = <<>> /\ got = <<>>

--------------------------------------------------------------------------------
(* The packers                                                             *)

\* SplitFrame: the NAL units of the n-th frame, without their start codes.
NalRun(au, n, k) == [n |-> n, lo |-> NalAt(au, k) + ScLen, hi |-> NalAt(au, k + 1)]

\* flushParamSets; x holds the parameter sets and the payloads made so far.
FlushParamSets(x) ==
    LET both == RunLen(x.sps) > 0 /\ RunLen(x.pps) > 0
        fit == RunLen(x.sps) + RunLen(x.pps) + 5 + HeadLen <= Mtu
    IN  IF ~both THEN x
        ELSE [x EXCEPT !.sps = NoRun, !.pps = NoRun,
                       !.out = @ \o IF fit THEN <<<<x.sps, x.pps>>>> ELSE <<<<x.sps>>, <<x.pps>>>>]

\* A turn of the loop of Pack over the NAL units of a frame.
CollectTurn(x, t, run) ==
    IF ~mux.stap THEN [x EXCEPT !.out = Append(@, <<run>>)]
    ELSE IF t = "sps" THEN [x EXCEPT !.sps = run]
    ELSE IF t = "pps" THEN [x EXCEPT !.pps = run]
    ELSE [FlushParamSets(x) EXCEPT !.out = Append(@, <<run>>)]

Packet(kind, parts) == [kind |-> kind, parts |-> parts, s |-> FALSE, e |-> FALSE, hdr |-> NoRun]

\* The fragments of a NAL unit whose header of so many bytes goes into a fragment
\* header that has one more.
Fragments(run, header) ==
    LET room == Mtu - HeadLen - (header + 1)
        from == run.lo + header
        count == (run.hi - from + room - 1) \div room
    IN  [i \in 1..count |->
          [kind |-> "fu", s |-> i = 1, e |-> i = count,
           hdr |-> [run EXCEPT !.hi = from],
           parts |-> <<[n |-> run.n, lo |-> from + (i - 1) * room,
                        hi |-> IF i = count THEN run.hi ELSE from + i * room]>>]]
PackFuA(run) == Fragments(run, 1)
PackFu(run) == Fragments(run, 2)

FitsAlone(run) == RunLen(run) + HeadLen <= Mtu
PackStapA(runs) == <<Packet("stap", runs)>>
PackSingleNalu(run) == <<Packet("single", <<run>>)>>

\* What Pack makes of the n-th frame: the packets, and the parameter sets that
\* wait for the next.
Packed(x, pkts) == [sps |-> x.sps, pps |-> x.pps, pkts |-> pkts]
PackH264(au, n) ==
    LET all == FoldLeft(LAMBDA a, k : CollectTurn(a, au.nals[k].t, NalRun(au, n, k)),
                        [sps |-> mux.sps, pps |-> mux.pps, out |-> <<>>],
                        [k \in DOMAIN au.nals |-> k])
        x == IF mux.stap THEN FlushParamSets(all) ELSE all
        packets(runs) == CASE Len(runs) > 1 -> PackStapA(runs)
                           [] Len(runs) = 1 /\ FitsAlone(runs[1]) -> PackSingleNalu(runs[1])
                           [] OTHER -> PackFuA(runs[1])
    IN  Packed(x, FlattenSeq([i \in DOMAIN x.out |-> packets(x.out[i])]))
PackH265(au, n) ==
    LET packets(run) == IF FitsAlone(run) THEN PackSingleNalu(run) ELSE PackFu(run)
    IN  Packed(mux, FlattenSeq([k \in DOMAIN au.nals |-> packets(NalRun(au, n, k))]))
\* Pieces that fill a packet.
PackTs(au, n) ==
    LET room == Mtu - HeadLen
        size == SizeOfUnit(au)
        count == (size + room - 1) \div room
    IN  Packed(mux, [i \in 1..count |->
          Packet("ts", <<[n |-> n, lo |-> (i - 1) * room, hi |-> IF i = count THEN size ELSE i * room]>>)])
WholePacket(au, n) == Packed(mux, <<Packet(au.cid, <<[n |-> n, lo |-> 0, hi |-> SizeOfUnit(au)]>>)>>)
\* AACPacker and G711Packer refuse what does not fit one packet.
PackAac(au, n) == IF SizeOfUnit(au) + 4 + HeadLen > Mtu THEN Packed(mux, <<>>) ELSE WholePacket(au, n)
PackG711(au, n) == IF SizeOfUnit(au) + HeadLen > Mtu THEN Packed(mux, <<>>) ELSE WholePacket(au, n)

\* The packets get their numbers; the last one of a frame its marker.
Numbered(pkts, ts) ==
    [i \in DOMAIN pkts |->
       [id |-> Len(wire.pkts) + i, frame |-> Len(given) + 1, ts |-> ts,
        seq |-> (mux.sequence + i - 1) % SeqRange, marker |-> i = Len(pkts) /\ mux.cid # "ts",
        kind |-> pkts[i].kind, parts |-> pkts[i].parts, s |-> pkts[i].s, e |-> pkts[i].e, hdr |-> pkts[i].hdr]]

\* Pack: step 0 is a frame with the timestamp of the one before.
Pack(au, step) ==
    LET n == Len(given) + 1
        x == CASE au.cid = "h264" -> PackH264(au, n)
               [] au.cid = "h265" -> PackH265(au, n)
               [] au.cid = "ts"   -> PackTs(au, n)
               [] au.cid = "aac"  -> PackAac(au, n)
               [] au.cid = "g711" -> PackG711(au, n)
    IN  /\ ~mux.closed /\ Len(given) < MaxFrames /\ au.cid = mux.cid
        /\ au.cid \notin H26x => x.pkts # <<>>
        /\ given' = Append(given, [au |-> au, ts |-> mux.ts + step])
        /\ wire' = [wire EXCEPT !.pkts = @ \o Numbered(x.pkts, mux.ts + step)]
        /\ mux' = [mux EXCEPT !.sequence = (@ + Len(x.pkts)) % SeqRange, !.ts = @ + step,
                              !.sps = x.sps, !.pps = x.pps]
        /\ UNCHANGED <<dem, got>>

\* The caller is done: the packets go out.
Close ==
    /\ ~mux.closed /\ mux' = [mux EXCEPT !.closed = TRUE]
    /\ UNCHANGED <<wire, dem, given, got>>

--------------------------------------------------------------------------------
(* The unpackers; d is the state of one, and what it gives so far.         *)

Give(d, runs, ts, lost) ==
    [d EXCEPT !.frames = Append(@, [runs |-> runs, ts |-> ts, lost |-> lost]), !.buf = <<>>]

\* The type of a NAL unit.
TypeOf(run) ==
    LET au == given[run.n].au
    IN  au.nals[CHOOSE k \in DOMAIN au.nals : NalAt(au, k) + ScLen = run.lo].t

\* A whole NAL unit goes behind what the buffer holds.
UnPackSingle(d, run, ts) == Give(d, AppendRun(d.buf, run), ts, FALSE)
\* unpackStapa
UnPackStapa(d, p) == FoldLeft(LAMBDA a, run : UnPackSingle(a, run, p.ts), d, p.parts)

\* Mutant: a fragment that does not follow its predecessor is not noticed.
UnPackFuBlind(d, p) ==
    LET dropped == IF p.s /\ d.buf # <<>> THEN Give(d, d.buf, d.timestamp, TRUE) ELSE d
        begun == IF p.s THEN [dropped EXCEPT !.timestamp = p.ts, !.buf = AppendRun(@, p.hdr), !.lost = FALSE]
                 ELSE dropped
        x == [begun EXCEPT !.lastSequence = p.seq, !.buf = AppendRun(@, p.parts[1])]
    IN  IF p.e THEN Give(x, x.buf, x.timestamp, x.lost) ELSE x
\* unpackFuA, and unpackFu of H.265
UnPackFu(d, p) ==
    LET dropped == IF p.s /\ d.buf # <<>> THEN Give(d, d.buf, d.timestamp, TRUE) ELSE d
        begun == IF p.s
                 THEN [dropped EXCEPT !.timestamp = p.ts, !.buf = AppendRun(@, p.hdr), !.lost = FALSE]
                 ELSE [dropped EXCEPT !.lost = @ \/ (d.lastSequence + 1) % SeqRange # p.seq]
        x == [begun EXCEPT !.lastSequence = p.seq, !.buf = AppendRun(@, p.parts[1])]
    IN  IF p.e THEN Give(x, x.buf, x.timestamp, x.lost) ELSE x

\* TsUnPacker.UnPack: another timestamp ends a frame.
UnPackTs(d, p) ==
    LET follows == (d.lastSequence + 1) % SeqRange = p.seq
        seen == [d EXCEPT !.lost = @ \/ ~follows]
        ended == IF d.timestamp = p.ts THEN seen
                 ELSE [Give(seen, d.buf, d.timestamp, seen.lost) EXCEPT !.lost = @ /\ ~follows]
        x == IF d.timestamp = -1 THEN [d EXCEPT !.lost = FALSE] ELSE ended
    IN  [x EXCEPT !.timestamp = p.ts, !.lastSequence = p.seq, !.buf = AppendRun(@, p.parts[1])]

UnPackH264(d, p) ==
    CASE p.kind = "single" -> UnPackSingle(d, p.parts[1], p.ts)
      [] p.kind = "stap"   -> UnPackStapa(d, p)
      [] p.kind = "fu"     -> UnPackFu(d, p)
\* UnPack of H.265 refuses a type of 40 or more, like that of a suffix.
UnPackH265(d, p) ==
    CASE p.kind = "fu" -> UnPackFu(d, p)
      [] p.kind = "single" /\ TypeOf(p.parts[1]) = "suffix" -> d
      [] OTHER -> UnPackSingle(d, p.parts[1], p.ts)
\* The access unit whose size the packet tells, and the packet as it is.
UnPackAac(d, p) == Give(d, <<p.parts[1]>>, p.ts, FALSE)
UnPackG711(d, p) == Give(d, p.parts, p.ts, FALSE)

\* What OnFrame is given, and after how many packets
OnFrame(f) == [runs |-> f.runs, ts |-> f.ts, lost |-> f.lost, at |-> Len(wire.log) + 1]

\* A packet comes: the hook counts it, the unpacker takes it.
Receive(i) ==
    LET p == wire.pkts[i]
        d == [timestamp |-> dem.timestamp, lastSequence |-> dem.lastSequence,
              lost |-> dem.lost, buf |-> dem.buf, frames |-> <<>>]
        x == CASE mux.cid = "h264" -> UnPackH264(d, p)
               [] mux.cid = "h265" -> UnPackH265(d, p)
               [] mux.cid = "ts"   -> UnPackTs(d, p)
               [] mux.cid = "aac"  -> UnPackAac(d, p)
               [] mux.cid = "g711" -> UnPackG711(d, p)
    IN  /\ dem' = [dem EXCEPT !.timestamp = x.timestamp, !.lastSequence = x.lastSequence,
                              !.lost = x.lost, !.buf = x.buf, !.ctx = Rtcp!UpdateSeq(@, p.seq)]
        /\ got' = got \o [k \in DOMAIN x.frames |-> OnFrame(x.frames[k])]
        /\ UNCHANGED <<mux, given>>

Faults == Cardinality(wire.lost) + wire.twice + wire.moved
Reading == mux.closed /\ wire.rd <= Len(wire.pkts)

Deliver ==
    /\ Reading /\ Receive(wire.rd)
    /\ wire' = [wire EXCEPT !.rd = @ + 1, !.log = Append(@, wire.pkts[wire.rd].id)]

\* The packet comes, and will come again.
DeliverTwice ==
    /\ Reading /\ Faults < MaxFaults /\ Receive(wire.rd)
    /\ wire' = [wire EXCEPT !.twice = @ + 1, !.log = Append(@, wire.pkts[wire.rd].id)]

\* The next packet overtakes this one.
Overtake ==
    /\ Reading /\ Faults < MaxFaults /\ wire.rd < Len(wire.pkts)
    /\ wire' = [wire EXCEPT !.moved = @ + 1, !.pkts[wire.rd] = wire.pkts[wire.rd + 1],
                            !.pkts[wire.rd + 1] = wire.pkts[wire.rd]]
    /\ UNCHANGED <<mux, dem, given, got>>

Lose ==
    /\ Reading /\ Faults < MaxFaults
    /\ wire.pkts[wire.rd].id \notin ToSet(wire.log)
    /\ wire' = [wire EXCEPT !.rd = @ + 1, !.lost = @ \cup {wire.pkts[wire.rd].id}]
    /\ UNCHANGED <<mux, dem, given, got>>

\* GenerateRR
GenerateRR ==
    LET r == Rtcp!Report(dem.ctx) IN
    /\ mux.closed /\ Len(dem.reports) < MaxReports /\ dem.ctx.probation = 0
    /\ dem' = [dem EXCEPT !.ctx = r.ctx,
                          !.reports = Append(@, [highest |-> r.block.highest, lost |-> r.block.lost,
                                                 fraction |-> r.block.fraction, at |-> Len(wire.log)])]
    /\ UNCHANGED <<mux, wire, given, got>>

Next ==
    \/ \E au \in Units : Pack(au, 1) \/ (au.cid = "ts" /\ Pack(au, 0))
    \/ Close
    \/ Deliver
    \/ DeliverTwice
    \/ Overtake
    \/ Lose
    \/ GenerateRR

Spec == Init /\ [][Next]_vars

--------------------------------------------------------------------------------
(* Properties                                                              *)

\* Numbers stay in their range; the buffer holds less than a NAL unit with
\* damage, or the packets of one timestamp.
TypeOK ==
    /\ {mux.sequence, dem.lastSequence, dem.ctx.maxSeq} \subseteq 0..SeqRange - 1
    /\ dem.lost \in BOOLEAN /\ dem.ctx.probation \in 0..MinSequential
    /\ dem.ctx.cycles % SeqRange = 0 /\ dem.ctx.received <= Len(wire.log)
    /\ ToSet(wire.log) \cap wire.lost = {}
    /\ mux.cid \in {"aac", "g711"} => dem.buf = <<>>

Calm == wire.lost = {} /\ wire.twice = 0 /\ wire.moved = 0
PacketWith(id) == CHOOSE p \in ToSet(wire.pkts) : p.id = id
Ordered == [id \in DOMAIN wire.pkts |-> PacketWith(id)]

\* The NAL units of the frames, and those of them that may be held back: a
\* parameter set waits for its other half when they are to share a packet.
Nals == UNION {{n} \X DOMAIN given[n].au.nals : n \in DOMAIN given}
Whole(nal) == NalRun(given[nal[1]].au, nal[1], nal[2])
TypeAt(nal) == given[nal[1]].au.nals[nal[2]].t
Moves(nal) == mux.stap /\ TypeAt(nal) \in {"sps", "pps"}
Asked(nal) == ~Moves(nal) /\ TypeAt(nal) # "suffix"
IsWhole(runs) == Len(runs) = 1 /\ \E nal \in Nals : runs[1] = Whole(nal)

\* The frames with the timestamp ts, put together.
Payload(ts) ==
    LET ns == SelectSeq([n \in DOMAIN given |-> n], LAMBDA n : given[n].ts = ts)
    IN  [i \in DOMAIN ns |-> [n |-> ns[i], lo |-> 0, hi |-> SizeOfUnit(given[ns[i]].au)]]

\* On a network that does nothing to the packets, every NAL unit, audio frame
\* or timestamp's worth of MPEG-TS is given once, whole, in order and at its
\* time, and never called damaged; all but the last of MPEG-TS when all came.
GivenAsTaken ==
    Calm =>
    /\ \A i \in DOMAIN got : ~got[i].lost
    /\ mux.cid \in H26x =>
          /\ \A i \in DOMAIN got :
                /\ IsWhole(got[i].runs) /\ got[i].ts >= given[got[i].runs[1].n].ts
                /\ got[i].ts > given[got[i].runs[1].n].ts => TypeOf(got[i].runs[1]) \in {"sps", "pps"}
                /\ \A j \in 1..i - 1 : got[j].runs # got[i].runs
                /\ i > 1 /\ ~mux.stap =>
                      \/ got[i - 1].runs[1].n < got[i].runs[1].n
                      \/ got[i - 1].runs[1].n = got[i].runs[1].n /\ got[i - 1].runs[1].hi < got[i].runs[1].lo
          /\ mux.closed /\ ~Reading =>
                \A nal \in Nals : Asked(nal) => \E i \in DOMAIN got : got[i].runs = <<Whole(nal)>>
    /\ mux.cid = "ts" =>
          /\ \A i \in DOMAIN got : got[i].runs = Payload(got[i].ts)
          /\ mux.closed /\ ~Reading =>
                \A n \in DOMAIN given : given[n].ts < mux.ts => \E i \in DOMAIN got : got[i].ts = given[n].ts
    /\ mux.cid \in {"aac", "g711"} =>
          /\ \A i \in DOMAIN got : got[i].runs = <<[n |-> i, lo |-> 0, hi |-> SizeOfUnit(given[i].au)]>>
          /\ mux.closed /\ ~Reading => Len(got) = Len(given)

Came(i) == PacketWith(wire.log[i])
Fragment(i) == Came(i).kind = "fu"
\* The frame g was given for fragments that came, from a first one on, with no
\* other packet between them.
Unbroken(g) ==
    \E i \in 1..g.at : Came(i).s /\ \A j \in i + 1..g.at : Fragment(j) /\ ~Came(j).s

\* Whatever the network does, a frame that is not called damaged is whole: of
\* unbroken fragments, the NAL unit; of another packet, it ends in a whole NAL
\* unit, and in front of that there may be fragments (FragmentsFlagged is about
\* these); of MPEG-TS, the timestamp's worth, but for where the receiver began.
NeverSpliced ==
    \A i \in DOMAIN got : ~got[i].lost =>
       CASE mux.cid \in H26x /\ Fragment(got[i].at) -> Unbroken(got[i]) => IsWhole(got[i].runs)
         [] mux.cid \in H26x /\ ~Fragment(got[i].at) -> IsWhole(<<Last(got[i].runs)>>)
         [] mux.cid = "ts" -> got[i].runs = Payload(got[i].ts) \/ i = 1
         [] OTHER -> got[i].runs = <<[n |-> got[i].runs[1].n, lo |-> 0, hi |-> SizeOfUnit(given[got[i].runs[1].n].au)]>>

\* A loss costs what it hits and no more: a NAL unit, or audio frame, all of
\* whose packets come is given, to its last byte.
LossIsLocal ==
    mux.closed /\ ~Reading /\ wire.twice = 0 /\ wire.moved = 0 =>
    /\ mux.cid \in H26x =>
       \A nal \in Nals :
          /\ Asked(nal)
          /\ \A id \in DOMAIN wire.pkts : id \in wire.lost =>
                \A r \in ToSet(Ordered[id].parts) :
                   r.n # nal[1] \/ r.hi <= Whole(nal).lo \/ r.lo >= Whole(nal).hi
          => \E i \in DOMAIN got : ~got[i].lost /\ Last(got[i].runs) = Whole(nal)
    /\ mux.cid \in {"aac", "g711"} => Len(got) = Len(given) - Cardinality(wire.lost)

SizeOf(p) ==
    HeadLen + BufLen(p.parts)
    + (CASE p.kind = "stap" -> 1 + 2 * Len(p.parts) [] p.kind = "fu" -> RunLen(p.hdr) + 1
         [] p.kind = "aac" -> 4 [] OTHER -> 0)

\* No packet is larger than the mtu; numbers follow each other, through the
\* wrap; a fragmented NAL unit has a first fragment and another last one; the
\* marker is on the last packet of a frame and no other.
WellFormed ==
    \A id \in DOMAIN Ordered : LET p == Ordered[id] IN
       /\ SizeOf(p) <= Mtu /\ \A r \in ToSet(p.parts) : RunLen(r) > 0
       /\ p.seq = (mux.first + id - 1) % SeqRange
       /\ p.kind = "fu" =>
             /\ ~(p.s /\ p.e)
             /\ ~p.s => id > 1 /\ Ordered[id - 1].kind = "fu" /\ Ordered[id - 1].parts[1].hi = p.parts[1].lo
             /\ p.e => \E nal \in Nals : p.parts[1].hi = Whole(nal).hi
       /\ mux.cid # "ts" => (p.marker <=> id = Len(Ordered) \/ Ordered[id + 1].frame > p.frame)

\* What is not called damaged is one whole NAL unit.
FragmentsFlagged ==
    mux.cid \in H26x => \A i \in DOMAIN got : ~got[i].lost => IsWhole(got[i].runs)

\* Where the receiver began to count: the second of two packets in sequence.
Base(log) ==
    LET ends == {i \in DOMAIN log : i > 1 /\ log[i] = log[i - 1] + 1}
    IN  IF ends = {} THEN 0 ELSE Min(ends)
\* The last packet of the stream that came, up to place k of the log; how many it
\* should have been since the base; how many of these did not come.
Highest(log, k)  == Max({log[i] : i \in Base(log)..k})
Expected(log, k) == Highest(log, k) - log[Base(log)] + 1
Missing(log, k)  == Expected(log, k) - (k - Base(log) + 1)
\* No packet was so far from the others that the counts begin anew.
Steady(log) ==
    \A i \in Base(log) + 1..Len(log) :
       LET step == log[i] - Highest(log, i - 1) IN step < MaxDropout /\ step > -MaxMisorder

\* What the i-th report says: the highest packet, through the wrap of the numbers,
\* how many are missing and, of those expected since the report before, in 256ths,
\* how many more are missing than then.
Honest(log, reports, i) ==
    LET r == reports[i]
        expected == Expected(log, r.at) - (IF i = 1 THEN 0 ELSE Expected(log, reports[i - 1].at))
        missing == Missing(log, r.at) - (IF i = 1 THEN 0 ELSE Missing(log, reports[i - 1].at))
    IN  /\ r.highest = ((mux.first + log[Base(log)] - 1) % SeqRange) + Expected(log, r.at) - 1
        /\ r.lost = (IF Missing(log, r.at) < 0 THEN 0 ELSE Missing(log, r.at))
        /\ missing <= 0 => r.fraction = 0
        /\ missing > 0 => r.fraction * expected <= 256 * missing /\ 256 * missing < (r.fraction + 1) * expected

\* As long as the stream is steady, reports are honest.
ReportsHonest ==
    Base(wire.log) # 0 /\ Steady(wire.log) => \A i \in DOMAIN dem.reports : Honest(wire.log, dem.reports, i)

================================================================================
