-------------------------------- MODULE BitStream --------------------------------
(***************************************************************************)
(* Bits in bytes (go-codec/bitstream.go): BitStreamWriter, with which the  *)
(* headers of MPEG streams and of configuration records are written, and   *)
(* BitStream, which reads them and every parameter set.                    *)
(*                                                                         *)
(* A byte is a number below 2^W.  given is what was meant: a sequence of   *)
(* bits; got is the last thing read.                                       *)
(***************************************************************************)
EXTENDS Integers, Sequences, SequencesExt, FiniteSetsExt, Bitwise

CONSTANTS
    W,       \* bits of a byte: 8
    Word,    \* bits of a uint64: 64
    Sizes,   \* what NewBitStreamWriter is given
    Widths,  \* bits of a field
    Values,  \* values of fields, which may be too large for them
    MaxPuts, \* bound: calls of the writer
    MaxReads \* bound: calls of the reader

BitAssumption ==
    /\ W \in Nat \ {0, 1} /\ Word \in Nat /\ Word >= W /\ MaxPuts \in Nat /\ MaxReads \in Nat
    /\ Sizes \subseteq Nat /\ Widths \subseteq 1..Word /\ Values \subseteq 0..(2^Word - 1)

VARIABLES
    mux,   \* the BitStreamWriter
    wire,  \* what Bits gave
    dem,   \* the BitStream
    given, \* the bits written
    got    \* the last read, and the number of reads

vars == <<mux, wire, dem, given, got>>

\* The n low bits of v, and the number that bits are.
BitsOf(v, n) == [i \in 1..n |-> (v \div 2^(n - i)) % 2]
NumberOf(bits) == FoldLeft(LAMBDA a, b : 2 * a + b, 0, bits)
Zeros(n) == [i \in 1..n |-> 0]

NewReader == [at |-> 0, off |-> 0, err |-> FALSE]
Init ==
    /\ \E n \in Sizes : mux = [bits |-> Zeros(n), at |-> 0, off |-> 0, mark |-> [at |-> 0, off |-> 0], marked |-> 0,
                              err |-> FALSE, puts |-> 0, closed |-> FALSE]
    /\ wire = <<>> /\ dem = NewReader /\ given = <<>>
    /\ got = [op |-> "none", n |-> 0, from |-> 0, value |-> 0, dem |-> NewReader, reads |-> 0]

--------------------------------------------------------------------------------
(* BitStreamWriter                                                         *)

\* expandSpace
Expand(b, n) ==
    LET len == Len(b.bits)
        more == IF len * W < n THEN n \div W + 1 ELSE len
    IN  IF (len - b.at - 1) * W + W - b.off < n THEN [b EXCEPT !.bits = @ \o Zeros(more)] ELSE b

\* Mutant: what is too large for its field runs into the bits before it.
FieldWhole(v, n) == v % 2^W
\* uint8(v) & bitMask[n-1]
Field(v, n) == (v % 2^W) % 2^n

\* PutUint64
PutUint64(w, v, n) ==
    LET b == Expand(w, n)
        room == W - b.off
        m == n - room
        whole == m \div W
        rest == m % W
    IN  IF room >= n
        THEN [b EXCEPT !.bits[b.at + 1] = @ | (Field(v, n) * 2^(room - n)),
                       !.at = IF room = n THEN @ + 1 ELSE @, !.off = IF room = n THEN 0 ELSE @ + n]
        ELSE [b EXCEPT !.bits = [i \in DOMAIN @ |->
                                    CASE i = b.at + 1 -> @[i] | Field(v \div 2^m, room)
                                      [] i - b.at - 1 \in 1..whole -> (v \div 2^(m - W * (i - b.at - 1))) % 2^W
                                      [] i = b.at + 2 + whole /\ rest > 0 -> @[i] | (Field(v, rest) * 2^(W - rest))
                                      [] OTHER -> @[i]],
                       !.at = @ + 1 + whole, !.off = rest]

Puts(w, bits) ==
    /\ ~mux.closed /\ mux.puts < MaxPuts
    /\ mux' = [w EXCEPT !.puts = @ + 1]
    /\ given' = given \o bits
    /\ UNCHANGED <<wire, dem, got>>

\* PutUint8 ... PutUint64
PutField(v, n) == IF mux.err THEN Puts(mux, <<>>) ELSE Puts(PutUint64(mux, v, n), BitsOf(v, n))

\* PutByte, which this package and go-mpeg2 call between bytes only.
PutByte(v) ==
    /\ mux.off = 0
    /\ LET b == Expand(mux, W)
       IN  Puts([b EXCEPT !.bits[b.at + 1] = v % 2^W, !.at = @ + 1], BitsOf(v, W))

\* PutBytes and PutRepetValue of n equal bytes, refused within a byte and ever after
PutBytes(v, n) ==
    IF mux.err \/ mux.off # 0 THEN Puts([mux EXCEPT !.err = TRUE], <<>>)
    ELSE LET b == Expand(mux, n * W)
         IN  Puts([b EXCEPT !.bits = [i \in DOMAIN @ |-> IF i \in b.at + 1..b.at + n THEN v % 2^W ELSE @[i]],
                            !.at = @ + n],
                  FlattenSeq([i \in 1..n |-> BitsOf(v, W)]))

\* SetByte of a byte that was written whole; SetUint16 is two.
SetByte(v, where) ==
    /\ ~mux.closed /\ mux.puts < MaxPuts /\ where < mux.at
    /\ mux' = [mux EXCEPT !.bits[where + 1] = v % 2^W, !.puts = @ + 1]
    /\ given' = [i \in DOMAIN given |-> IF i \in where * W + 1..(where + 1) * W THEN BitsOf(v, W)[i - where * W] ELSE given[i]]
    /\ UNCHANGED <<wire, dem, got>>

\* FillRemainData
FillRemainData(v) ==
    LET room == W - mux.off
        kept(byte) == (byte \div 2^room) * 2^room + (v % 2^room)
        left == Len(mux.bits) - mux.at
    IN  /\ left > 0
        /\ Puts([mux EXCEPT !.bits = [i \in DOMAIN @ |-> IF i = mux.at + 1 /\ mux.off > 0 THEN kept(@[i])
                                                         ELSE IF i > mux.at THEN v % 2^W ELSE @[i]],
                            !.at = Len(mux.bits), !.off = 0],
                BitsOf(v, room) \o FlattenSeq([i \in 1..left - 1 |-> BitsOf(v, W)]))

\* Markdot
Markdot ==
    /\ ~mux.closed /\ mux.marked # Len(given)
    /\ mux' = [mux EXCEPT !.mark = [at |-> mux.at, off |-> mux.off], !.marked = Len(given)]
    /\ UNCHANGED <<wire, dem, given, got>>

\* Reset
Reset ==
    /\ ~mux.closed /\ mux.puts < MaxPuts
    /\ mux' = [mux EXCEPT !.bits = Zeros(Len(@)), !.at = 0, !.off = 0, !.mark = [at |-> 0, off |-> 0], !.marked = 0,
                          !.err = FALSE, !.puts = @ + 1]
    /\ given' = <<>>
    /\ UNCHANGED <<wire, dem, got>>

\* Bits
Close ==
    /\ ~mux.closed
    /\ mux' = [mux EXCEPT !.closed = TRUE]
    /\ wire' = IF mux.at = Len(mux.bits) THEN mux.bits ELSE SubSeq(mux.bits, 1, mux.at + (IF mux.off > 0 THEN 1 ELSE 0))
    /\ UNCHANGED <<dem, given, got>>

\* Mutant: the bits of the first byte are those before the mark.
DistanceBefore(w) == (w.at - w.mark.at - 1) * W + w.off + w.mark.off
\* DistanceFromMarkDot, of the writer and of the reader
Distance(w) == (w.at - w.mark.at - 1) * W + w.off + (W - w.mark.off)

--------------------------------------------------------------------------------
(* BitStream: every read gives [value, dem]                                *)

Read(value, d) == [value |-> value, dem |-> d]
Failed(d) == Read(0, [d EXCEPT !.err = TRUE])
Pos(d) == d.at * W + d.off
Seek(d, pos) == [d EXCEPT !.at = pos \div W, !.off = pos % W]

\* RemainBytes, RemainBits
RemainBits(d) ==
    IF d.off > 0 THEN (Len(wire) - d.at - 1) * W + W - d.off ELSE (Len(wire) - d.at) * W

\* What GetBits puts together: the rest of a byte, whole ones, the head of one.
Gathered(d, n) ==
    LET m == n - (W - d.off)
        whole == m \div W
        first == wire[d.at + 1] % 2^(W - d.off)
        most == FoldLeft(LAMBDA a, byte : a * 2^W + byte, first, SubSeq(wire, d.at + 2, d.at + 1 + whole))
    IN  IF m % W = 0 THEN most ELSE most * 2^(m % W) + ((wire[d.at + 2 + whole] \div 2^(W - (m % W))) % 2^(m % W))

\* GetBits
GetBits(d, n) ==
    CASE d.err -> Read(0, d)
      [] ~d.err /\ n = 0 -> Read(0, d)
      [] ~d.err /\ n # 0 /\ (n > Word \/ n > RemainBits(d)) -> Failed(d)
      [] OTHER -> Read(IF W - d.off >= n THEN (wire[d.at + 1] \div 2^(W - d.off - n)) % 2^n ELSE Gathered(d, n),
                       Seek(d, Pos(d) + n))

\* GetBit
GetBit(d) ==
    CASE d.err -> Read(0, d)
      [] ~d.err /\ d.at >= Len(wire) -> Failed(d)
      [] OTHER -> Read((wire[d.at + 1] \div 2^(W - 1 - d.off)) % 2, Seek(d, Pos(d) + 1))

\* SkipBits
SkipBits(d, n) ==
    IF d.err THEN Read(0, d) ELSE IF n > RemainBits(d) THEN Failed(d)
    ELSE Read(0, [d EXCEPT !.at = @ + (n \div W) + (IF d.off + (n % W) >= W THEN 1 ELSE 0),
                           !.off = IF d.off + (n % W) >= W THEN @ + (n % W) - W ELSE @ + (n % W)])

\* UnRead, in the error state too
UnRead(d, n) ==
    IF n > Pos(d) THEN Read(0, [Seek(d, 0) EXCEPT !.err = TRUE]) ELSE Read(0, Seek(d, Pos(d) - n))

\* NextBits
NextBits(d, n) ==
    IF d.err THEN Read(0, d) ELSE IF n > RemainBits(d) THEN Failed(d)
    ELSE LET r == GetBits(d, n) IN Read(r.value, UnRead(r.dem, n).dem)

\* GetBytes of n bytes, as one number
GetBytes(d, n) ==
    IF d.err THEN Read(0, d) ELSE IF d.off # 0 \/ d.at + n > Len(wire) THEN Failed(d)
    ELSE Read(FoldLeft(LAMBDA a, byte : a * 2^W + byte, 0, SubSeq(wire, d.at + 1, d.at + n)), [d EXCEPT !.at = @ + n])

\* ReadUE: the prefix, until a one, the end or Word zeros, and as many bits again
ReadUE(d) ==
    LET after(i) == Seek(d, Pos(d) + i)
        z == Min({i \in 0..Word : i = Word \/ GetBit(after(i)).dem.err \/ GetBit(after(i)).value # 0})
        one == GetBit(after(z))
        info == GetBits(one.dem, z)
    IN  CASE d.err -> Read(0, d)
          [] ~d.err /\ z = Word -> Failed(after(z))
          [] ~d.err /\ z < Word /\ one.dem.err -> Read(0, one.dem)
          [] OTHER -> IF z = 0 THEN Read(0, one.dem) ELSE Read(2^z - 1 + info.value, info.dem)

\* int64 of a uint64
Signed(v) == LET u == v % 2^Word IN IF u >= 2^(Word - 1) THEN u - 2^Word ELSE u
\* A division of Go, towards zero
Halved(v) == IF v >= 0 THEN v \div 2 ELSE -((-v) \div 2)
\* ReadSE
ReadSE(d) ==
    LET r == ReadUE(d)
    IN  Read(IF r.value % 2 = 0 THEN -Signed(r.value \div 2) ELSE Halved(Signed(r.value + 1)), r.dem)

ReadOf(op, d, n) ==
    CASE op = "bits" -> GetBits(d, n)   [] op = "bit" -> GetBit(d)
      [] op = "skip" -> SkipBits(d, n)  [] op = "unread" -> UnRead(d, n)
      [] op = "next" -> NextBits(d, n)  [] op = "bytes" -> GetBytes(d, n)
      [] op = "ue" -> ReadUE(d)         [] op = "se" -> ReadSE(d)

\* One read of a parser
Reads(op, n) ==
    /\ mux.closed /\ got.reads < MaxReads
    /\ LET r == ReadOf(op, dem, n)
       IN  dem' = r.dem /\ got' = [op |-> op, n |-> n, from |-> Pos(dem), value |-> r.value, dem |-> dem,
                                   reads |-> got.reads + 1]
    /\ UNCHANGED <<mux, wire, given>>

Next ==
    \/ \E v \in Values : PutByte(v) \/ FillRemainData(v)
    \/ \E v \in Values, n \in Widths : PutField(v, n)
    \/ \E v \in Values, n \in {2} : PutBytes(v, n)
    \/ \E v \in Values, where \in {0} : SetByte(v, where)
    \/ Markdot \/ Reset \/ Close
    \/ \E op \in {"bits", "skip", "unread", "next"}, n \in Widths : Reads(op, n)
    \/ \E op \in {"bit", "ue", "se"} : Reads(op, 1)
    \/ Reads("bytes", 2)

Spec == Init /\ [][Next]_vars

--------------------------------------------------------------------------------
(* Properties                                                              *)

\* Both ends stay inside their bytes, and the writer has room for the byte it is in.
TypeOK ==
    /\ mux.off \in 0..W - 1 /\ mux.at * W + mux.off = Len(given) /\ Len(given) <= Len(mux.bits) * W
    /\ \A i \in DOMAIN mux.bits : mux.bits[i] \in 0..2^W - 1
    /\ dem.off \in 0..W - 1 /\ Pos(dem) <= Len(wire) * W

\* The bits of the file: what was written, and zeros to the end of a byte.
Meant == LET pad == (W - (Len(given) % W)) % W IN given \o Zeros(pad)
There(from, n) == from + n <= Len(Meant)
Ahead(from, n) == NumberOf(SubSeq(Meant, from + 1, from + n))

\* The zeros of an Exp-Golomb code at from, the number it stands for, and its end
Prefix(from) == Min({z \in 0..Len(Meant) - from : from + z = Len(Meant) \/ Meant[from + z + 1] = 1})
CodeNum(from) == 2^Prefix(from) - 1 + Ahead(from + Prefix(from) + 1, Prefix(from))
CodeEnd(from) == 2 * Prefix(from) + 1

\* The number a read is to give, and how far it goes
Due(r) == CASE r.op \in {"bits", "bit", "next"} -> Ahead(r.from, r.n)
            [] r.op = "bytes" -> Ahead(r.from, r.n * W)
            [] r.op = "ue" -> CodeNum(r.from)
            [] r.op = "se" -> LET k == CodeNum(r.from) IN IF k % 2 = 1 THEN (k + 1) \div 2 ELSE -(k \div 2)
            [] OTHER -> 0
Goes(r) == CASE r.op \in {"bits", "bit", "skip"} -> r.n
             [] r.op = "bytes" -> r.n * W
             [] r.op \in {"ue", "se"} -> CodeEnd(r.from)
             [] r.op = "unread" -> -r.n
             [] OTHER -> 0
Possible(r) == CASE r.op = "next" -> There(r.from, r.n)
                 [] r.op = "unread" -> r.n <= r.from
                 [] r.op = "bytes" -> There(r.from, r.n * W) /\ r.from % W = 0
                 [] r.op \in {"ue", "se"} -> Prefix(r.from) < Word /\ There(r.from, CodeEnd(r.from))
                 [] OTHER -> There(r.from, Goes(r))

\* ReadSE adds one as a uint64 and halves as an int64: the odd numbers of Word - 1
\* zeros, which no parameter set holds, change their sign.
Wraps(r) == r.op = "se" /\ Possible(r) /\ Prefix(r.from) = Word - 1 /\ CodeNum(r.from) % 2 = 1

\* Whatever the fields and their places in the bytes: what a parser reads is what
\* was written there; what is not there is an error, and after an error nothing is
\* read again.
GivenAsTaken ==
    got.op \notin {"none", "unread"} /\ ~Wraps(got) =>
        IF got.dem.err THEN got.value = 0 /\ dem = got.dem
        ELSE IF Possible(got) THEN ~dem.err /\ Pos(dem) = got.from + Goes(got) /\ got.value = Due(got)
        ELSE dem.err /\ (got.op \notin {"ue", "se"} => got.value = 0 /\ Pos(dem) = got.from)

\* Lengths filled in afterwards are those of what was written since the mark.
IndexHonest == mux.marked <= Len(given) => Distance(mux) = Len(given) - mux.marked
================================================================================
