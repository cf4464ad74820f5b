------------------------------ MODULE RtcpContext ------------------------------
(* What a receiver of RTP counts for its reports (go-rtsp/rtcp,            *)
(* rtcp-context.go): RFC 3550, A.1 and A.3.                                *)
EXTENDS Integers

CONSTANTS
    SeqRange,        \* RTP_SEQ_MOD, 2^16
    MinSequential, \* MIN_SEQUENTIAL, 2
    MaxDropout,    \* MAX_DROPOUT, 3000
    MaxMisorder    \* MAX_MISORDER, 100

\* NewRtcpContext
NewContext(seq) ==
    [maxSeq |-> (seq - 1 + SeqRange) % SeqRange, cycles |-> 0, baseSeq |-> 0, badSeq |-> 0,
     probation |-> MinSequential, received |-> 0, expectPrior |-> 0, receivedPrior |-> 0]

\* initSeq
InitSeq(c, seq) ==
    [c EXCEPT !.baseSeq = seq, !.maxSeq = seq, !.badSeq = SeqRange + 1, !.cycles = 0,
              !.received = 0, !.receivedPrior = 0, !.expectPrior = 0]

\* A stream is trusted after MinSequential packets in sequence.
Probe(c, seq) ==
    IF seq # (c.maxSeq + 1) % SeqRange
    THEN [c EXCEPT !.probation = MinSequential - 1, !.maxSeq = seq]
    ELSE IF c.probation = 1
    THEN [InitSeq(c, seq) EXCEPT !.probation = 0, !.received = 1]
    ELSE [c EXCEPT !.probation = @ - 1, !.maxSeq = seq]

\* Mutant: the number that comes again is taken for one that has wrapped.
AdvanceWraps(c, seq) ==
    [c EXCEPT !.cycles = IF seq <= c.maxSeq THEN @ + SeqRange ELSE @, !.maxSeq = seq, !.received = @ + 1]
\* In order, perhaps with a gap.
Advance(c, seq) ==
    [c EXCEPT !.cycles = IF seq < c.maxSeq THEN @ + SeqRange ELSE @, !.maxSeq = seq, !.received = @ + 1]

\* A number far off counts when the next one follows it; badSeq is compared as
\* 16 bits.
FarOff(c, seq) ==
    IF seq = c.badSeq % SeqRange THEN [InitSeq(c, seq) EXCEPT !.received = 1]
    ELSE [c EXCEPT !.badSeq = (seq + 1) % SeqRange]

\* updateSeq
UpdateSeq(c, seq) ==
    LET delta == (seq - c.maxSeq + SeqRange) % SeqRange
    IN  IF c.probation > 0 THEN Probe(c, seq)
        ELSE IF delta < MaxDropout THEN Advance(c, seq)
        ELSE IF delta <= SeqRange - MaxMisorder THEN FarOff(c, seq)
        ELSE [c EXCEPT !.received = @ + 1]

\* getReportBlock
Report(c) ==
    LET extendMax == c.cycles + c.maxSeq
        expected == extendMax - c.baseSeq + 1
        lost == expected - c.received
        expectedInterval == expected - c.expectPrior
        lostInterval == expectedInterval - (c.received - c.receivedPrior)
        fraction == IF expectedInterval > 0 /\ lostInterval > 0
                    THEN (lostInterval * 256) \div expectedInterval ELSE 0
    IN  [ctx |-> [c EXCEPT !.expectPrior = expected, !.receivedPrior = c.received],
         block |-> [highest |-> extendMax, lost |-> IF lost < 0 THEN 0 ELSE lost,
                    fraction |-> IF fraction > 255 THEN 255 ELSE fraction]]
================================================================================
