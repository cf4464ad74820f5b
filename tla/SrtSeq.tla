-------------------------------- MODULE SrtSeq --------------------------------
(***************************************************************************)
(* Sequence numbers of go-srt/packet.go.  They have a fixed width (31 bits *)
(* in the code), wrap, and are compared by the shorter way round the       *)
(* circle.  The width is a parameter so that small instances wrap as well. *)
(* A mask with seqMask is a reduction modulo SeqMod; for the operands that *)
(* occur, one subtraction or addition of SeqMod is that reduction.         *)
(***************************************************************************)
EXTENDS Integers, FiniteSets

CONSTANTS
    SeqHalf,        \* seqHalf: half the sequence space, 2^30 in the code
    MaxLossRange    \* maxLossRange: numbers one NAK range may name

ASSUME SeqAssumption ==
    /\ SeqHalf \in Nat \ {0}
    /\ MaxLossRange \in Nat

SeqMod == 2 * SeqHalf

SeqNum == 0 .. (SeqMod - 1)

\* int32(s) + n, masked, for n between -SeqMod and SeqMod.
seqAdd(s, n) ==
    LET r == s + n
    IN  IF r < 0 THEN r + SeqMod ELSE IF r >= SeqMod THEN r - SeqMod ELSE r

\* Mutant of seqNext: the mask is forgotten.
seqNextUnmasked(s) == s + 1

seqNext(s) == IF s + 1 = SeqMod THEN 0 ELSE s + 1

\* b - a, taken the short way round: -SeqHalf .. SeqHalf - 1.
seqDiff(a, b) ==
    LET d == IF b >= a THEN b - a ELSE b - a + SeqMod
    IN  IF d >= SeqHalf THEN d - SeqMod ELSE d

seqLess(a, b) == seqDiff(a, b) > 0

(***************************************************************************)
(* Loss lists.  encodeLossList packs a sorted list without duplicates into *)
(* maximal runs <<first, last>> (a lone number is its own run), which is   *)
(* also how handleNAK groups the packets it no longer holds.               *)
(* decodeLossList expands the runs, ignoring one that goes backwards or    *)
(* names more than MaxLossRange numbers beyond its first.                  *)
(***************************************************************************)
Between(s, r) == 0 <= seqDiff(r[1], s) /\ seqDiff(r[1], s) <= seqDiff(r[1], r[2])

encodeLossList(lost) ==
    {r \in lost \X lost :
        /\ 0 <= seqDiff(r[1], r[2])
        /\ \A s \in SeqNum : Between(s, r) => s \in lost
        /\ seqAdd(r[1], -1) \notin lost
        /\ seqNext(r[2]) \notin lost}

decodeLossList(runs) ==
    {s \in SeqNum : \E r \in runs : /\ seqDiff(r[1], r[2]) <= MaxLossRange
                                    /\ Between(s, r)}

\* sendNAK reports a sorted list in packets of at most n numbers each: the
\* k-th packet carries the numbers of rank k*n + 1 to (k+1)*n.
Rank(lost, s) == Cardinality({u \in lost : seqDiff(u, s) >= 0})

nakPackets(lost, n) ==
    {encodeLossList({s \in lost : (Rank(lost, s) - 1) \div n = k}) :
        k \in {(Rank(lost, s) - 1) \div n : s \in lost}}
===============================================================================
