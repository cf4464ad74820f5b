--------------------------------- MODULE WavFile ---------------------------------
(***************************************************************************)
(* WAVE files (go-wav): Writer puts samples behind a header whose sizes it *)
(* fills in when it is closed, if it can seek and as far as its writes     *)
(* succeed; Reader gives the samples in frames.                            *)
(***************************************************************************)
EXTENDS Integers, Sequences, SequencesExt

CONSTANTS
    U32,        \* 0xFFFFFFFF, which also says that a size is not known
    Formats,    \* [pcm, align]: align is BlockAlign, bytes of a sample
    Rate,       \* SampleRate
    FrameBytes, \* bytes of a frame of frameMs, for an align of 1
    Lens,       \* bytes a Write is given
    TailLen,    \* bytes of a chunk another program puts behind the data
    MaxWrites   \* bound: Writes

WavAssumption ==
    /\ {U32, Rate, FrameBytes} \subseteq Nat \ {0} /\ MaxWrites \in Nat /\ TailLen \in Nat /\ Lens \subseteq Nat
    /\ \A f \in Formats : f.pcm \in BOOLEAN /\ f.align \in Nat \ {0}

VARIABLES
    mux,   \* the Writer
    wire,  \* the file: the sizes in its header, and its data with the pad byte
    dem,   \* the Reader
    given, \* bytes written
    got    \* frames read

vars == <<mux, wire, dem, given, got>>

Unknown == U32
\* The bytes of the header, with cbSize and a fact chunk unless the format is PCM
HeaderLen == IF mux.format.pcm THEN 44 ELSE 58

\* NewWriter
Init ==
    /\ \E f \in Formats, seeks \in BOOLEAN :
          mux = [format |-> f, seeks |-> seeks, writes |-> 0, state |-> "open"]
    /\ wire = [riff |-> Unknown, fact |-> Unknown, size |-> Unknown, data |-> 0, pad |-> 0, tail |-> 0]
    /\ dem = [open |-> FALSE, sized |-> FALSE, remain |-> 0, rd |-> 0, samples |-> 0, duration |-> 0, eof |-> FALSE]
    /\ given = 0 /\ got = <<>>

--------------------------------------------------------------------------------
Write(len) ==
    /\ mux.state = "open" /\ mux.writes < MaxWrites
    /\ mux' = [mux EXCEPT !.writes = @ + 1]
    /\ wire' = [wire EXCEPT !.data = @ + len]
    /\ given' = given + len
    /\ UNCHANGED <<dem, got>>

TooLong == wire.data > U32 - HeaderLen
FileEnd(pad) == HeaderLen + wire.data + pad
\* Mutant: the pad byte counts as data.
PatchesPad(pad) ==
    [riff |-> FileEnd(pad) - 8, size |-> wire.data + pad, fact |-> wire.data \div mux.format.align]
\* What Close writes, in this order.
Patches(pad) ==
    [riff |-> FileEnd(pad) - 8, size |-> wire.data, fact |-> wire.data \div mux.format.align]

\* Close; the write after the first n ones fails, or the program ends there.
Close(n) ==
    /\ mux.state = "open"
    /\ LET pad == IF n > 0 THEN wire.data % 2 ELSE 0
           fills(k) == n > k /\ mux.seeks /\ ~TooLong
           at == Patches(pad)
       IN  /\ wire' = [riff |-> IF fills(1) THEN at.riff ELSE Unknown, size |-> IF fills(2) THEN at.size ELSE Unknown,
                       fact |-> IF fills(3) /\ ~mux.format.pcm THEN at.fact ELSE Unknown,
                       data |-> wire.data, pad |-> pad, tail |-> 0]
           /\ mux' = [mux EXCEPT !.state = IF n < 4 THEN "stopped" ELSE IF mux.seeks /\ TooLong THEN "refused" ELSE "closed"]
    /\ UNCHANGED <<dem, given, got>>

--------------------------------------------------------------------------------
\* Another program adds a chunk, and corrects the RIFF size.
AppendChunk ==
    /\ mux.state = "closed" /\ mux.seeks /\ wire.tail = 0 /\ ~dem.open
    /\ wire' = [wire EXCEPT !.tail = TailLen, !.riff = @ + TailLen]
    /\ UNCHANGED <<mux, dem, given, got>>

\* Mutant: a size of 0 is always that of a stream.
SizedNever0 == wire.size # Unknown /\ wire.size # 0
\* An empty file is told from one written as a stream by its RIFF size.
Sized == wire.size # Unknown /\ (wire.size # 0 \/ (wire.riff # 0 /\ wire.riff # Unknown))

\* NewReader, and Duration
Open ==
    /\ mux.state # "open" /\ ~dem.open
    /\ dem' = [dem EXCEPT !.open = TRUE, !.sized = Sized, !.remain = wire.size,
                          !.duration = IF Sized THEN ((wire.size \div mux.format.align) * 1000) \div Rate ELSE 0]
    /\ UNCHANGED <<mux, wire, given, got>>

\* Read until the buffer is full or nothing is left
Left == LET there == wire.data + wire.pad + wire.tail - dem.rd
        IN  IF dem.sized /\ dem.remain < there THEN dem.remain ELSE there

ReadFrame ==
    /\ dem.open /\ ~dem.eof
    /\ LET align == mux.format.align
           size == FrameBytes * align
           n == IF Left < size THEN Left ELSE size
           whole == n - (n % align)
       IN  IF whole = 0
           THEN dem' = [dem EXCEPT !.eof = TRUE] /\ UNCHANGED got
           ELSE /\ dem' = [dem EXCEPT !.rd = @ + n, !.remain = IF n < size THEN 0 ELSE @ - n,
                                      !.samples = @ + whole \div align]
                /\ got' = Append(got, [from |-> dem.rd, len |-> whole, at |-> (dem.samples * 1000) \div Rate])
    /\ UNCHANGED <<mux, wire, given>>

Next == \/ \E len \in Lens : Write(len)
        \/ \E n \in 0..4 : Close(n)
        \/ AppendChunk \/ Open \/ ReadFrame

Spec == Init /\ [][Next]_vars

--------------------------------------------------------------------------------
TypeOK ==
    /\ mux.state \in {"open", "stopped", "refused", "closed"}
    /\ wire.data \in Nat /\ wire.pad \in 0..1
    /\ \A field \in {wire.riff, wire.size, wire.fact} : field \in 0..U32 + TailLen
    /\ dem.rd \in 0..wire.data + wire.pad + wire.tail

GotBytes == FoldLeft(LAMBDA a, f : a + f.len, 0, got)
WholeOf(bytes) == bytes - (bytes % mux.format.align)

\* All whole samples are read, each frame where the one before ended and at the
\* time of its first sample, however far Close came; only where no size was
\* filled in is the pad byte taken for data.
GivenAsTaken ==
    /\ \A i \in DOMAIN got :
          /\ got[i].from = FoldLeft(LAMBDA a, f : a + f.len, 0, SubSeq(got, 1, i - 1))
          /\ got[i].at = ((got[i].from \div mux.format.align) * 1000) \div Rate
    /\ dem.eof => GotBytes = WholeOf(given + (IF dem.sized THEN 0 ELSE wire.pad))

\* The sizes of a finished file are true, and so is its duration.
IndexHonest ==
    mux.state = "closed" /\ mux.seeks =>
        /\ wire.riff = HeaderLen + given + wire.pad + wire.tail - 8 /\ wire.riff % 2 = 0 /\ wire.size = given
        /\ ~mux.format.pcm => wire.fact = given \div mux.format.align
        /\ dem.eof => dem.duration = ((GotBytes \div mux.format.align) * 1000) \div Rate
================================================================================
