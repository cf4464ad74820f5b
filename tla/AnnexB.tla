--------------------------------- MODULE AnnexB ---------------------------------
(***************************************************************************)
(* Annex B byte streams as the packages of this repository cut them        *)
(* (go-codec/util.go): an access unit is a sequence of NAL units, each     *)
(* behind a start code of 4 bytes, 00 00 00 01.                            *)
(*                                                                         *)
(* An access unit is [cid, nals]; a NAL unit [t, len, first] has a type, a *)
(* length that counts its start code, and, in a slice, whether it is the   *)
(* first of its picture.  Audio is one unit of type "raw" without a start  *)
(* code.  No other byte of a unit looks like a start code.                 *)
(*                                                                         *)
(* Bytes are runs [n, lo, hi]: bytes lo to hi-1 of the n-th unit of a      *)
(* stream.  A buffer is a sequence of runs.                                *)
(***************************************************************************)
EXTENDS Integers, Sequences, SequencesExt

H26x == {"h264", "h265"}
Vcl  == {"slice", "idr"}
ScLen == 4 \* START_CODE_4

SumLen(nals) == FoldLeft(LAMBDA a, u : a + u.len, 0, nals)
SizeOfUnit(au) == SumLen(au.nals)
\* Where the k-th NAL unit begins.
NalAt(au, k) == SumLen(SubSeq(au.nals, 1, k - 1))

\* SplitFrame with a callback that stops at an access unit delimiter or a slice:
\* the units it sees.
Headers(au) ==
    LET ends == {k \in DOMAIN au.nals : au.nals[k].t \in Vcl \cup {"aud"}}
    IN  IF ends = {} THEN au.nals ELSE SubSeq(au.nals, 1, Min(ends))
WithAud(au) == \E k \in DOMAIN Headers(au) : Headers(au)[k].t = "aud"

\* IsH264IDRFrame, IsH265IDRFrame: the first slice decides.
IsIdr(au) ==
    LET slices == SelectSeq(au.nals, LAMBDA u : u.t \in Vcl)
    IN  slices # <<>> /\ slices[1].t = "idr"

Nal(t, len) == [t |-> t, len |-> len, first |-> TRUE]
AudLen(cid) == IF cid = "h264" THEN 6 ELSE 7
AudNal(cid) == Nal("aud", AudLen(cid))

--------------------------------------------------------------------------------
(* Buffers                                                                 *)

BufLen(buf) == FoldLeft(LAMBDA a, r : a + r.hi - r.lo, 0, buf)

\* append(): a run that goes on where the buffer ends makes it longer.
AppendRun(buf, r) ==
    IF r.lo = r.hi THEN buf
    ELSE IF buf # <<>> /\ Last(buf).n = r.n /\ Last(buf).hi = r.lo
         THEN [buf EXCEPT ![Len(buf)].hi = r.hi]
         ELSE Append(buf, r)

RunAt(buf, i) == BufLen(SubSeq(buf, 1, i - 1))

\* What is left of a run that begins at byte `at` of the buffer
Cut(r, at, from, to) ==
    [n |-> r.n, lo |-> r.lo + (IF from > at THEN from - at ELSE 0),
     hi |-> IF at + r.hi - r.lo > to THEN to - at + r.lo ELSE r.hi]
\* buf[from:to]
Slice(buf, from, to) ==
    SelectSeq([i \in DOMAIN buf |-> Cut(buf[i], RunAt(buf, i), from, to)], LAMBDA r : r.lo < r.hi)

\* A start code at byte `at` of its unit, where the run that holds it begins at byte
\* `base` of the buffer.  One of 4 bytes whose first byte is before the offset, or
\* before what the buffer still holds of it, is found as one of 3.
FoundAt(at, offset, base) == IF at < offset \/ at < base THEN at + 1 ELSE at
CodeAt(at, seen, nal) == [at |-> seen, sct |-> ScLen - (seen - at), nal |-> nal]
CodeOf(at, offset, base, nal) == CodeAt(at, FoundAt(at, offset, base), nal)
Inside(r, at, nal) == nal.t # "raw" /\ r.lo <= at + 1 /\ at + ScLen <= r.hi
CodesOfRun(r, base, offset, unit) ==
    {CodeOf(base + nal.at - r.lo, offset, base, nal.nal) :
        nal \in {x \in {[at |-> NalAt(unit, k), nal |-> unit.nals[k]] : k \in DOMAIN unit.nals} : Inside(r, x.at, x.nal)}}

\* FindStartCode from offset on, turn by turn: the start codes of buf, where
\* units[n] is the n-th unit.
StartCodes(buf, units, offset) ==
    SetToSortSeq({c \in UNION {CodesOfRun(buf[i], RunAt(buf, i), offset, units[buf[i].n]) : i \in DOMAIN buf} :
                    c.at >= offset}, LAMBDA a, b : a.at < b.at)

\* leadingAudLen, for a buffer that begins with a NAL unit
LengthOfFirst(codes, size) ==
    IF codes = <<>> \/ codes[1].nal.t # "aud" THEN 0
    ELSE IF Len(codes) = 1 THEN size - codes[1].at ELSE codes[2].at - codes[1].at
LeadingAud(buf, units) == LengthOfFirst(StartCodes(buf, units, 0), BufLen(buf))
================================================================================
