-------------------------------- MODULE Mp4Boxes --------------------------------
(***************************************************************************)
(* The boxes of an MP4 file (go-mp4): how many bytes each takes, and what  *)
(* is read out of it again, which is what was put in cut to the width of   *)
(* the field.                                                              *)
(*                                                                         *)
(* A sample is [pts, dts, offset, size, key]; the timescale of tracks and  *)
(* of the movie is 1000, as the muxer writes it.                           *)
(***************************************************************************)
EXTENDS Integers, Sequences, FiniteSets, SequencesExt

CONSTANTS
    U32,     \* 0xFFFFFFFF, the largest value of 32 bits
    ExtraLen \* bytes of a codec configuration

Wrap(x) == x % (U32 + 1)
\* int32(uint32(x))
Signed(x) == IF Wrap(x) > U32 \div 2 THEN Wrap(x) - (U32 + 1) ELSE Wrap(x)

SumOf(s) == FoldLeft(LAMBDA a, x : a + x, 0, s)

Basic == 8
Full == 12
\* BasicBox: more than 32 bits of size take a header of 16 bytes.
HeaderLen(size) == IF size > U32 THEN 16 ELSE Basic

IsVideo(cid) == cid \in {"h264", "h265"}

--------------------------------------------------------------------------------
(* Boxes that describe a track                                             *)

Ftyp(brands) == 16 + 4 * brands
Free(data) == Basic + data
Mvhd == Full + 96
Tkhd == Full + 80
Mdhd == Full + 20
Hdlr == Full + 33
Vmhd == Full + 8
Smhd == Full + 4
Dinf == 36

\* avcC or hvcC, esds with its descriptors, nothing for G.711
Esds == Full + 5 + 3 + (5 + 13 + 5 + ExtraLen) + 6
SampleEntry(cid) ==
    IF IsVideo(cid) THEN 16 + 70 + Basic + ExtraLen
    ELSE 16 + 20 + (IF cid = "aac" THEN Esds ELSE 0)
Stsd(cid) == Full + 4 + SampleEntry(cid)

\* stts: runs of samples that last equally long.  The last sample is a run of
\* its own, as long as the one before it.
SttsOf(list) ==
    LET n == Len(list)
        delta(i) == IF list[i + 1].dts >= list[i].dts THEN list[i + 1].dts - list[i].dts ELSE 1
        add(runs, d) == IF runs # <<>> /\ Last(runs).delta = d
                        THEN [runs EXCEPT ![Len(runs)].count = @ + 1]
                        ELSE Append(runs, [count |-> 1, delta |-> Wrap(d)])
        lastDelta == IF n < 2 \/ list[n].dts <= list[n - 1].dts THEN 1 ELSE list[n].dts - list[n - 1].dts
    IN  Append(FoldLeft(LAMBDA runs, i : add(runs, delta(i)), <<>>, [i \in 1..n - 1 |-> i]),
               [count |-> 1, delta |-> Wrap(lastDelta)])
Stts(runs) == Full + 4 + 8 * Len(runs)

\* Mutant: every composition offset is read as one without a sign.
CttsOfUnsigned(list) ==
    LET add(runs, o) == IF runs # <<>> /\ Last(runs).offset = o
                        THEN [runs EXCEPT ![Len(runs)].count = @ + 1]
                        ELSE Append(runs, [count |-> 1, offset |-> o])
    IN  FoldLeft(LAMBDA runs, i : add(runs, Wrap(list[i].pts - list[i].dts)), <<>>, [i \in DOMAIN list |-> i])

\* ctts: version 1, whose offsets have a sign, as soon as one is below zero.
CttsOf(list) ==
    LET signed == \E i \in DOMAIN list : list[i].pts < list[i].dts
        offset(i) == IF signed THEN Signed(list[i].pts - list[i].dts) ELSE Wrap(list[i].pts - list[i].dts)
        add(runs, o) == IF runs # <<>> /\ Last(runs).offset = o
                        THEN [runs EXCEPT ![Len(runs)].count = @ + 1]
                        ELSE Append(runs, [count |-> 1, offset |-> o])
    IN  FoldLeft(LAMBDA runs, i : add(runs, offset(i)), <<>>, [i \in DOMAIN list |-> i])
Ctts(runs) == Full + 4 + 8 * Len(runs)

\* Samples that follow each other in the file are a chunk.
ChunksOf(list) ==
    LET add(chunks, i) ==
            IF i > 1 /\ list[i].offset = list[i - 1].offset + list[i - 1].size
            THEN [chunks EXCEPT ![Len(chunks)].samples = @ + 1]
            ELSE Append(chunks, [samples |-> 1, offset |-> list[i].offset])
    IN  FoldLeft(add, <<>>, [i \in DOMAIN list |-> i])

\* stsc: an entry for a chunk that has not as many samples as the one before.
StscOf(chunks) ==
    LET firsts == SelectSeq([i \in DOMAIN chunks |-> i],
                            LAMBDA i : i = 1 \/ chunks[i].samples # chunks[i - 1].samples)
    IN  [k \in DOMAIN firsts |-> [first |-> firsts[k], samples |-> chunks[firsts[k]].samples]]
Stsc(entries) == Full + 4 + 12 * Len(entries)

\* stco, or co64 once the last chunk needs it.
StcoOf(chunks) ==
    LET wide == chunks # <<>> /\ Last(chunks).offset > U32
    IN  [i \in DOMAIN chunks |-> IF wide THEN chunks[i].offset ELSE Wrap(chunks[i].offset)]
Stco(offsets) == Full + 4 + (IF offsets # <<>> /\ Last(offsets) > U32 THEN 8 ELSE 4) * Len(offsets)

\* stsz: one size for all, unless that is zero, which says that a table follows.
StszOf(list) ==
    LET same == \A i \in DOMAIN list : list[i].size = list[1].size
    IN  IF list # <<>> /\ same /\ list[1].size # 0
        THEN [size |-> Wrap(list[1].size), count |-> Len(list), sizes |-> <<>>]
        ELSE [size |-> 0, count |-> Len(list), sizes |-> [i \in DOMAIN list |-> Wrap(list[i].size)]]
Stsz(t) == Full + 8 + 4 * Len(t.sizes)

\* stss: the samples that are key frames.
StssOf(list) == SelectSeq([i \in DOMAIN list |-> i], LAMBDA i : list[i].key)
Stss(samples) == Full + 4 + 4 * Len(samples)

\* edts: an elst of one edit
Edts == Basic + Full + 4 + 12

EmptyTables == [stts |-> <<>>, ctts |-> <<>>, stsc |-> <<>>, stco |-> <<>>, stss |-> <<>>,
                stsz |-> [size |-> 0, count |-> 0, sizes |-> <<>>]]

\* makeStblTable
StblTable(cid, list) ==
    IF list = <<>> THEN EmptyTables
    ELSE [stts |-> SttsOf(list),
          ctts |-> IF IsVideo(cid) THEN CttsOf(list) ELSE <<>>,
          stsc |-> StscOf(ChunksOf(list)), stco |-> StcoOf(ChunksOf(list)), stsz |-> StszOf(list),
          stss |-> IF IsVideo(cid) THEN StssOf(list) ELSE <<>>]

\* makeStblBox, makeMinfBox, makeMdiaBox, makeTrak
Tables(cid, t) ==
    Stts(t.stts) + Stsc(t.stsc) + Stco(t.stco) + Stsz(t.stsz)
    + (IF IsVideo(cid) /\ t.stts # <<>> THEN Ctts(t.ctts) + Stss(t.stss) ELSE 0)
Stbl(cid, tables) == Basic + Stsd(cid) + tables
Minf(cid, tables) == Basic + (IF IsVideo(cid) THEN Vmhd ELSE Smhd) + Dinf + Stbl(cid, tables)
Mdia(cid, tables) == Basic + Mdhd + Hdlr + Minf(cid, tables)
Trak(cid, edts, tables) == Basic + Tkhd + edts + Mdia(cid, tables)
Trex == Full + 20
Mehd == Full + 8
Mvex(tracks, mehd) == Basic + (IF mehd THEN Mehd ELSE 0) + Trex * tracks

\* buildSampleList: the samples the tables describe.  The first one is at 0.
BuildSampleList(t) ==
    LET count == t.stsz.count
        size(i) == IF t.stsz.size = 0 THEN t.stsz.sizes[i] ELSE t.stsz.size
        \* each value as often as its run says
        spread(runs, f(_)) == FlattenSeq([r \in DOMAIN runs |-> [j \in 1..runs[r].count |-> f(runs[r])]])
        deltas == spread(t.stts, LAMBDA r : r.delta)
        offsets == spread(t.ctts, LAMBDA r : r.offset)
        \* the last entry of stsc that begins at or before the chunk
        samplesIn(c) == Last(SelectSeq(t.stsc, LAMBDA e : e.first <= c)).samples
        before(c) == SumOf([k \in 1..c - 1 |-> samplesIn(k)])
        chunkOf(i) == CHOOSE c \in DOMAIN t.stco : before(c) < i /\ i <= before(c + 1)
        offset(i) == t.stco[chunkOf(i)] + SumOf([k \in 1..i - 1 |-> IF k > before(chunkOf(i)) THEN size(k) ELSE 0])
        dts(i) == SumOf(SubSeq(deltas, 1, i - 1))
    IN  [i \in 1..count |-> [dts |-> dts(i), offset |-> offset(i), size |-> size(i),
                             pts |-> dts(i) + (IF i <= Len(offsets) THEN offsets[i] ELSE 0)]]

--------------------------------------------------------------------------------
(* Boxes that describe a fragment                                          *)

Mfhd == Full + 4

\* makeTfhdBox: how long a sample lasts whose box does not say so; last is the
\* time of the frame the muxer still holds, 0 for none.
DefaultDuration(list, lastDts, fragments, default) ==
    CASE Len(list) > 1 -> Wrap(list[2].dts - list[1].dts)
      [] Len(list) = 1 /\ fragments # <<>> -> Wrap(list[1].dts - Last(fragments).lastDts)
      [] Len(list) = 1 /\ fragments = <<>> -> IF lastDts > list[1].dts THEN Wrap(lastDts - list[1].dts) ELSE default
      [] OTHER -> 0
Tfhd(list) == Full + 4 + 4 + (IF list = <<>> THEN 0 ELSE 12)
Tfdt(list) == IF list = <<>> THEN 0 ELSE Full + 8

\* makeTrunBox: the entries; the samples of a track follow each other, so one box
\* holds them all.
TrunOf(list, lastDts, default) ==
    LET n == Len(list)
        duration(i) == IF i < n THEN Wrap(list[i + 1].dts - list[i].dts)
                       ELSE IF lastDts # 0 THEN Wrap(lastDts - list[i].dts) ELSE default
    IN  [i \in 1..n |-> [duration |-> duration(i), size |-> Wrap(list[i].size),
                         cts |-> Wrap(list[i].pts - list[i].dts)]]

\* Which fields a box of these samples has.
TrunFields(list, lastDts, default, defaultSize) ==
    LET n == Len(list)
        next(i) == IF i < n THEN list[i + 1].dts ELSE lastDts
    IN  (IF \E i \in 1..n : list[i].size # defaultSize THEN {"size"} ELSE {})
        \cup (IF \E i \in 1..n : next(i) - list[i].dts # default THEN {"duration"} ELSE {})
        \cup (IF \E i \in 1..n : list[i].pts # list[i].dts THEN {"cts"} ELSE {})
Trun(list, fields, firstKey) ==
    IF list = <<>> THEN 0 ELSE Full + 8 + (IF firstKey THEN 4 ELSE 0) + 4 * Len(list) * Cardinality(fields)

\* decodeTrunBox: a duration or a size of zero, or none, is the default of tfhd.
TrunSamples(run, base) ==
    LET has(f, x) == IF f \in run.fields THEN x ELSE 0
        entry(i) == run.entries[i]
        size(i) == IF has("size", entry(i).size) = 0 THEN run.defaultSize ELSE entry(i).size
        lasts(i) == IF has("duration", entry(i).duration) = 0 THEN run.defaultDuration ELSE entry(i).duration
        dts(i) == run.start + SumOf([k \in 1..i - 1 |-> lasts(k)])
    IN  [i \in DOMAIN run.entries |->
           [dts |-> dts(i), pts |-> dts(i) + Signed(has("cts", entry(i).cts)), size |-> size(i),
            offset |-> base + run.offset + SumOf([k \in 1..i - 1 |-> size(k)])]]

\* sidx and mfra
Sidx(refs) == Full + 28 + 12 * refs
Tfra(frags) == Full + 12 + 19 * frags
Mfro == Full + 4
Styp == Ftyp(2)
================================================================================
