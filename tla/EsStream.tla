-------------------------------- MODULE EsStream --------------------------------
(***************************************************************************)
(* Bare elementary streams (go-es): an encoder, which is not of this       *)
(* repository, makes the access units of H.264 or H.265, Writer puts them  *)
(* in a file, videoReader cuts the file into access units again and        *)
(* recovers the order of presentation from the picture order counts.       *)
(* Audio is frames with what else such files hold between them.            *)
(*                                                                         *)
(* A NAL unit is [t, n, k, first, ref, lsb, num, delta]: the k-th of the   *)
(* n-th access unit, and what its slice header says.                       *)
(***************************************************************************)
EXTENDS Integers, Sequences, SequencesExt, FiniteSets, FiniteSetsExt

CONSTANTS
    Lookahead,   \* lookahead, 16
    MaxLsb,      \* 2^(log2_max_pic_order_cnt_lsb_minus4 + 4)
    MaxFrameNum, \* 2^(log2_max_frame_num_minus4 + 4)
    RefOffsets,  \* offset_for_ref_frame
    NonRef,      \* offset_for_non_ref_pic
    Streams,     \* [cid, types, pocType, front, tail, slices, extra, rate]: what is
                 \* encoded; types holds "eos" if a sequence may end
    Reach,       \* how far a picture order count may be ahead
    Pieces,      \* codec -> what an audio file is made of, see ReadAudio
    Rate,        \* samples a second
    MaxFrames    \* bound: access units, pieces of audio

EsAssumption ==
    /\ {Lookahead, MaxLsb, MaxFrameNum, Rate} \subseteq Nat \ {0} /\ {MaxFrames, Reach} \subseteq Nat
    /\ MaxLsb % 2 = 0 /\ RefOffsets \in Seq(Int) /\ RefOffsets # <<>> /\ NonRef \in Int

VARIABLES
    mux,   \* the encoder, and the Writer
    wire,  \* the NAL units, or pieces of audio, of the file
    dem,   \* the Reader
    given, \* the access units, or frames, that were written
    got    \* what ReadFrame gave

vars == <<mux, wire, dem, given, got>>

H26x == {"h264", "h265"}
IsVcl(t) == t \in {"idr", "cra", "ref", "nonref", "rasl"}
IsKey(t) == t \in {"idr", "cra"}
Sets(cid) == IF cid = "h265" THEN {"vps", "sps", "pps"} ELSE {"sps", "pps"}
\* A picture order count is counted on from a picture of these types.
IsRef(t) == t \notin {"nonref", "rasl"}

NewParser == [sets |-> {}, prev |-> 0, num |-> 0, offset |-> 0, started |-> FALSE, afterEOS |-> FALSE]
NoPicture == [first |-> FALSE, key |-> FALSE, newPeriod |-> FALSE, poc |-> 0, hasPoc |-> FALSE]
NewOrderer == [window |-> <<>>, history |-> <<>>, emitted |-> 0, delay |-> 0, measured |-> FALSE]

Init ==
    /\ \E s \in Streams : mux = s @@ [period |-> 0, ref |-> 0, poc |-> {}, cra |-> -1, refs |-> 0, eos |-> TRUE, closed |-> FALSE]
    /\ wire = <<>>
    /\ dem = [rd |-> 1, au |-> <<>>, pic |-> NoPicture, vcl |-> FALSE, parser |-> NewParser, period |-> 0,
              counter |-> 0, order |-> NewOrderer, out |-> <<>>, samples |-> 0, started |-> FALSE,
              finished |-> FALSE]
    /\ given = <<>> /\ got = <<>>

--------------------------------------------------------------------------------
(* The encoder and the Writer                                              *)

\* offset_for_ref_frame adds up over the reference pictures of a cycle.
Expected(count, ref) ==
    LET abs == IF ~ref /\ count > 0 THEN count - 1 ELSE count
        sum(s) == FoldLeft(LAMBDA a, x : a + x, 0, s)
        cycles == (abs - 1) \div Len(RefOffsets)
    IN  (IF abs > 0 THEN cycles * sum(RefOffsets) + sum(SubSeq(RefOffsets, 1, ((abs - 1) % Len(RefOffsets)) + 1)) ELSE 0)
        + (IF ref THEN 0 ELSE NonRef)

\* Where the next picture may be shown: a key frame that restarts the count may
\* begin anywhere if it is a CRA, leading pictures come before theirs and after
\* all before it, what the count needs to tell apart is within half of MaxLsb.
Half == MaxLsb \div 2
Counts(t) ==
    LET top == IF mux.poc = {} THEN 0 ELSE Max(mux.poc)
    IN  {poc \in 0..top + Reach :
            /\ poc \notin mux.poc /\ poc - mux.ref > -Half /\ poc - mux.ref <= Half
            /\ t = "cra" => \A p \in mux.poc : p < poc
            /\ t = "rasl" => poc < mux.cra /\ \A p \in mux.poc : p < poc \/ p >= mux.cra
            /\ t \in {"ref", "nonref"} => poc > mux.cra}
Restarts(t) == t = "idr" \/ (t = "cra" /\ mux.eos)

\* Leading pictures follow their CRA.
InPlace(t) ==
    /\ mux.eos => IsKey(t)
    /\ t = "rasl" => Last(given).t \in {"cra", "rasl"}

Nal(t, k) == [t |-> t, n |-> Len(given) + 1, k |-> k, first |-> FALSE, ref |-> FALSE, lsb |-> 0, num |-> 0, delta |-> 0]
\* The slices of a picture.
SliceNal(t, k, poc, first) ==
    LET count == IF t = "idr" THEN 0 ELSE mux.refs
    IN  [Nal(t, k) EXCEPT !.first = first, !.ref = IsRef(t), !.lsb = IF t = "idr" THEN 0 ELSE poc % MaxLsb,
                          !.num = count % MaxFrameNum, !.delta = poc - Expected(count, IsRef(t))]
AccessUnit(t, poc, front, tail) ==
    LET k == Len(front)
    IN  [i \in 1..k |-> Nal(front[i], i)]
        \o [i \in 1..mux.slices |-> SliceNal(t, k + i, poc, i = 1)]
        \o [i \in DOMAIN tail |-> Nal(tail[i], k + mux.slices + i)]

\* paramSets
ExtraData == LET sets == SetToSeq(Sets(mux.cid)) IN [i \in DOMAIN sets |-> Nal(sets[i], 0)]
TypesOf(nals) == {nals[i].t : i \in DOMAIN nals}
\* Mutant: a key frame with any parameter set is taken as it is.
CompletedAny(nals) == IF mux.extra /\ TypesOf(nals) \cap Sets(mux.cid) = {} THEN ExtraData \o nals ELSE nals
\* annexB: a key frame gets the parameter sets of the extra data in front, unless
\* it has every one.
Completed(nals) == IF mux.extra /\ ~Sets(mux.cid) \subseteq TypesOf(nals) THEN ExtraData \o nals ELSE nals

\* WriteFrame
Write(t, poc, eos) ==
    /\ mux.cid \in H26x /\ ~mux.closed /\ Len(given) < MaxFrames
    /\ t \in mux.types /\ IsVcl(t) /\ InPlace(t)
    /\ IF t = "idr" THEN poc = 0 ELSE IF Restarts(t) THEN poc \in 0..1 ELSE poc \in Counts(t)
    /\ eos => "eos" \in mux.types
    /\ LET front == IF IsKey(t) THEN mux.front ELSE SelectSeq(mux.front, LAMBDA x : x \notin Sets(mux.cid))
           unit == AccessUnit(t, poc, front, mux.tail \o IF eos THEN <<"eos">> ELSE <<>>)
           nals == IF IsKey(t) THEN Completed(unit) ELSE unit
           period == IF Restarts(t) THEN mux.period + 1 ELSE mux.period
       IN  /\ given' = Append(given, [t |-> t, nals |-> nals, key |-> [period |-> period, poc |-> poc]])
           /\ wire' = wire \o nals
           /\ mux' = [mux EXCEPT !.period = period, !.eos = eos,
                                 !.ref = IF IsRef(t) THEN poc ELSE @,
                                 !.poc = IF Restarts(t) THEN {poc} ELSE @ \cup {poc},
                                 !.cra = IF Restarts(t) \/ t = "cra" THEN poc ELSE @,
                                 !.refs = IF t = "idr" THEN 1 ELSE IF IsRef(t) THEN @ + 1 ELSE @]
    /\ UNCHANGED <<dem, got>>

\* Somebody puts an audio file together.
WriteAudio(piece) ==
    /\ mux.cid \notin H26x /\ ~mux.closed /\ Len(wire) < MaxFrames
    /\ wire # <<>> => Last(wire).kind \notin {"torn", "tag"}
    /\ piece.kind = "info" => mux.cid = "mp3" /\ \A i \in DOMAIN wire : wire[i].kind \notin {"frame", "info"}
    /\ wire' = Append(wire, piece)
    /\ given' = IF piece.kind = "frame" THEN Append(given, piece) ELSE given
    /\ UNCHANGED <<mux, dem, got>>

Close ==
    /\ ~mux.closed
    /\ mux' = [mux EXCEPT !.closed = TRUE]
    /\ UNCHANGED <<wire, dem, given, got>>

--------------------------------------------------------------------------------
(* Slice headers                                                           *)

\* Mutant: a jump of half the range is taken for a wrap backwards.
PocFromHalf(prev, lsb) ==
    LET prevLsb == prev % MaxLsb
        msb == prev - prevLsb
    IN  lsb + (IF lsb < prevLsb /\ prevLsb - lsb >= Half THEN msb + MaxLsb
               ELSE IF lsb > prevLsb /\ lsb - prevLsb >= Half THEN msb - MaxLsb ELSE msb)
\* The picture order count nearest to prev that ends in lsb.
PocFrom(prev, lsb) ==
    LET prevLsb == prev % MaxLsb
        msb == prev - prevLsb
    IN  lsb + (IF lsb < prevLsb /\ prevLsb - lsb >= Half THEN msb + MaxLsb
               ELSE IF lsb > prevLsb /\ lsb - prevLsb > Half THEN msb - MaxLsb ELSE msb)

\* h264Parser.slice: what a first slice says of its picture, and the parser after it.
H264Slice(p, nal) ==
    LET idr == nal.t = "idr"
        pic == [NoPicture EXCEPT !.first = nal.first, !.key = idr, !.newPeriod = idr]
        at(poc) == [pic EXCEPT !.poc = poc, !.hasPoc = TRUE]
        poc0 == PocFrom(IF idr THEN 0 ELSE p.prev, nal.lsb)
        offset == IF idr THEN 0 ELSE IF p.num > nal.num THEN p.offset + MaxFrameNum ELSE p.offset
    IN  IF ~nal.first \/ ~Sets("h264") \subseteq p.sets \/ mux.pocType = 2 THEN [pic |-> pic, parser |-> p]
        ELSE IF mux.pocType = 0
        THEN [pic |-> at(poc0), parser |-> [p EXCEPT !.prev = IF nal.ref THEN poc0 ELSE IF idr THEN 0 ELSE @]]
        ELSE [pic |-> at(Expected(offset + nal.num, nal.ref) + nal.delta),
              parser |-> [p EXCEPT !.num = nal.num, !.offset = offset]]

\* h265Parser.slice
H265Slice(p, nal) ==
    LET irap == IsKey(nal.t)
        noRaslOutput == nal.t = "idr" \/ (irap /\ (~p.started \/ p.afterEOS))
        pic == [NoPicture EXCEPT !.first = nal.first, !.key = irap]
        poc == IF noRaslOutput THEN nal.lsb ELSE PocFrom(p.prev, nal.lsb)
    IN  IF ~nal.first THEN [pic |-> pic, parser |-> p]
        ELSE IF ~{"sps", "pps"} \subseteq p.sets THEN [pic |-> [pic EXCEPT !.newPeriod = noRaslOutput], parser |-> p]
        ELSE [pic |-> [pic EXCEPT !.newPeriod = noRaslOutput, !.poc = poc, !.hasPoc = TRUE],
              parser |-> [p EXCEPT !.prev = IF IsRef(nal.t) THEN poc ELSE @, !.started = TRUE,
                                   !.afterEOS = IF irap THEN FALSE ELSE @]]

Slice(p, nal) == IF mux.cid = "h264" THEN H264Slice(p, nal) ELSE H265Slice(p, nal)

\* parameterSet
ParameterSet(p, nal) ==
    CASE nal.t \in {"vps", "sps", "pps"} -> [p EXCEPT !.sets = @ \cup {nal.t}]
      [] nal.t = "eos" -> [p EXCEPT !.afterEOS = TRUE]
      [] OTHER -> p

--------------------------------------------------------------------------------
(* The orderer                                                             *)

\* orderKey.less
Before(a, b) == a.period < b.period \/ (a.period = b.period /\ a.poc < b.poc)

\* rank of the i-th of the window
Rank(o, i) ==
    LET key == o.window[i].key
        later == {j \in DOMAIN o.history : Before(key, o.history[j])}
        over == {j \in 1..i - 1 : Before(key, o.window[j].key)}
        under == {j \in i + 1..Len(o.window) : Before(o.window[j].key, key)}
    IN  o.emitted + i - 1 - Cardinality(later) - Cardinality(over) + Cardinality(under)

\* Mutant: the delay is that of the first picture.
MeasureFirst(o) == [o EXCEPT !.measured = TRUE, !.delay = Max({@, -Rank(o, 1)})]
Measure(o) == [o EXCEPT !.measured = TRUE, !.delay = Max({@} \cup {i - 1 - Rank(o, i) : i \in DOMAIN o.window})]

\* emit
FrameAt(index) == (index * 1000) \div (IF mux.rate > 0 THEN mux.rate ELSE 25)

\* resolve, and emit of what it gives
Resolve(d) ==
    LET o == IF d.order.measured THEN d.order ELSE Measure(d.order)
        f == Head(o.window)
        history == Append(o.history, f.key)
        ptsIndex == Max({Rank(o, 1) + o.delay, o.emitted})
    IN  [d EXCEPT !.order = [o EXCEPT !.window = Tail(@), !.emitted = @ + 1,
                                      !.history = IF Len(history) > Lookahead THEN Tail(history) ELSE history],
                  !.out = Append(@, [nals |-> f.nals, keyframe |-> f.keyframe,
                                     dts |-> FrameAt(o.emitted), pts |-> FrameAt(ptsIndex)])]

Flush(d) == FoldLeft(LAMBDA e, f : Resolve(e), d, d.order.window)

--------------------------------------------------------------------------------
(* videoReader                                                             *)

\* finishAU, with push
FinishAU(d) ==
    IF ~d.vcl THEN [d EXCEPT !.au = <<>>]
    ELSE LET period == IF d.pic.newPeriod THEN d.period + 1 ELSE d.period
             key == [period |-> period, poc |-> IF d.pic.hasPoc THEN d.pic.poc ELSE d.counter]
             e == [d EXCEPT !.period = period, !.counter = @ + 1, !.au = <<>>, !.vcl = FALSE,
                            !.order.window = Append(@, [nals |-> d.au, keyframe |-> d.pic.key, key |-> key])]
         IN  IF Len(e.order.window) <= Lookahead THEN e ELSE Resolve(e)

\* Mutant: only a delimiter or a parameter set begins an access unit.
StartsAUSet(t) == t \in {"aud", "vps", "sps", "pps"}
StartsAU(t) == t \in {"aud", "vps", "sps", "pps", "sei"}

\* step, for a NAL unit
TakeNal(d, nal) ==
    LET s == IF IsVcl(nal.t) THEN Slice(d.parser, nal)
             ELSE [pic |-> NoPicture, parser |-> ParameterSet(d.parser, nal)]
        opens == IF IsVcl(nal.t) THEN s.pic.first ELSE StartsAU(nal.t)
        read == [d EXCEPT !.parser = s.parser, !.rd = @ + 1]
        e == IF d.vcl /\ opens THEN FinishAU(read) ELSE read
        f == IF ~IsVcl(nal.t) THEN e
             ELSE IF ~e.vcl THEN [e EXCEPT !.vcl = TRUE, !.pic = s.pic]
             ELSE [e EXCEPT !.pic.key = @ \/ s.pic.key]
    IN  [f EXCEPT !.au = Append(@, [n |-> nal.n, k |-> nal.k, t |-> nal.t])]

\* step
ReadNal ==
    /\ mux.cid \in H26x /\ mux.closed /\ ~dem.finished /\ dem.out = <<>>
    /\ dem' = IF dem.rd <= Len(wire) THEN TakeNal(dem, wire[dem.rd])
              ELSE Flush([FinishAU(dem) EXCEPT !.finished = TRUE])
    /\ UNCHANGED <<mux, wire, given, got>>

\* ReadFrame of a frame that is there
ReadFrame ==
    /\ dem.out # <<>>
    /\ got' = Append(got, Head(dem.out))
    /\ dem' = [dem EXCEPT !.out = Tail(@)]
    /\ UNCHANGED <<mux, wire, given>>

--------------------------------------------------------------------------------
(* Audio readers.  A piece is [kind, samples]: a frame, one that the   *)
(* end of the file cuts off ("torn"), bytes that are none ("junk"), an      *)
(* ID3v2 tag, an information frame, an ID3v1 tag.                           *)

Skipped(piece) == mux.cid = "mp3" /\ (piece.kind = "id3" \/ (piece.kind = "info" /\ ~dem.started))
Ends(piece) == piece.kind = "torn" \/ (mux.cid = "mp3" /\ piece.kind = "tag")

\* advance
StampOf(d) == (d.samples * 1000) \div Rate

\* The ReadFrames of aacReader and mp3Reader, up to the end of a piece.
ReadAudio ==
    /\ mux.cid \notin H26x /\ mux.closed /\ ~dem.finished
    /\ LET piece == wire[dem.rd]
           over == dem.rd > Len(wire) \/ Ends(piece)
           plays == ~over /\ piece.kind \in {"frame", "info"} /\ ~Skipped(piece)
       IN  /\ dem' = [dem EXCEPT !.finished = over, !.rd = IF over THEN @ ELSE @ + 1,
                                 !.started = @ \/ (~over /\ piece.kind \in {"frame", "info"}),
                                 !.samples = IF plays THEN @ + piece.samples ELSE @]
           /\ got' = IF plays THEN Append(got, [piece |-> piece, at |-> StampOf(dem)]) ELSE got
    /\ UNCHANGED <<mux, wire, given>>

--------------------------------------------------------------------------------
Next ==
    \/ \E t \in mux.types, poc \in 0..MaxFrames * Reach, eos \in BOOLEAN : Write(t, poc, eos)
    \/ \E piece \in IF mux.cid \in H26x THEN {} ELSE Pieces[mux.cid] : WriteAudio(piece)
    \/ Close \/ ReadNal \/ ReadFrame \/ ReadAudio

Spec == Init /\ [][Next]_vars

--------------------------------------------------------------------------------
(* Properties                                                              *)

TypeOK ==
    /\ mux.cid \in H26x \cup {"aac", "mp3"} /\ mux.closed \in BOOLEAN
    /\ Len(dem.order.window) <= Lookahead + 1 /\ Len(dem.order.history) <= Lookahead
    /\ dem.rd \in 1..Len(wire) + 1 /\ Len(got) <= Len(given)

Done == dem.finished /\ dem.out = <<>>
Bare(nals) == [i \in DOMAIN nals |-> [n |-> nals[i].n, k |-> nals[i].k, t |-> nals[i].t]]

\* The place of the n-th access unit in the order it is shown in
Shown(n) == Cardinality({m \in DOMAIN given : Before(given[m].key, given[n].key)})
\* How many pictures ahead of its place one comes at most
Depth(ns) == Max({0} \cup {n - 1 - Shown(n) : n \in ns})
\* No picture is overtaken by one that comes more than Lookahead after it, and
\* the first ones are reordered as deeply as any.
Foreseeable ==
    /\ \A n, m \in DOMAIN given : m - n > Lookahead => Before(given[n].key, given[m].key)
    /\ Depth(DOMAIN given) = Depth(1..Lookahead + 1 \cap DOMAIN given)

\* Every access unit is given, whole, in the order of decoding, at a time of its
\* own; it is never shown before it is decoded, and, if the reordering can be
\* foreseen, all are shown in the order the encoder meant, at equal distances.
VideoAsTaken ==
    /\ \A i \in DOMAIN got :
          /\ got[i].nals = Bare(given[i].nals) /\ got[i].keyframe = IsKey(given[i].t)
          /\ got[i].dts = FrameAt(i - 1) /\ got[i].dts <= got[i].pts
    /\ Done => Len(got) = Len(given)
    /\ Done /\ Foreseeable /\ mux.pocType # 2 =>
          \A i \in DOMAIN got : got[i].pts = FrameAt(Shown(i) + Depth(DOMAIN got))

\* Every frame of audio is given once, whatever lies between them and however
\* the file ends, and no time drifts from the samples before it.
AudioAsTaken ==
    /\ \A i \in DOMAIN got :
          /\ got[i].piece = given[i]
          /\ got[i].at = (1000 * FoldLeft(LAMBDA a, p : a + p.samples, 0, SubSeq(given, 1, i - 1))) \div Rate
    /\ Done => Len(got) = Len(given)

GivenAsTaken == IF mux.cid \in H26x THEN VideoAsTaken ELSE AudioAsTaken

\* Whoever begins at a key frame has all the parameter sets, if the Writer was
\* given them.
KeysDecodable ==
    mux.cid \in H26x /\ mux.extra =>
        \A i \in DOMAIN got : got[i].keyframe => Sets(mux.cid) \subseteq {got[i].nals[k].t : k \in DOMAIN got[i].nals}
================================================================================
