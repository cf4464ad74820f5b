---------------------------- MODULE RtmpChunkProofs ----------------------------
(***************************************************************************)
(* Proofs about RtmpChunk, for all sets of chunk streams, lengths, stamps  *)
(* and chunk sizes, either peer, and input cut anywhere: RtmpChunk         *)
(* implements Lanes, the reader's fields stay in range, it keeps no more   *)
(* than it may, and holds no message back.                                 *)
(*                                                                         *)
(* A peer of this package that is given messages without payload is left   *)
(* out (OwnHasPayload): for those the reader goes wrong, see MCRtmpChunk.  *)
(***************************************************************************)
EXTENDS RtmpChunk, FiniteSetTheorems, SequenceTheorems, TLAPS

OwnHasPayload == "own" \notin Empties

-------------------------------------------------------------------------------
(* Types.                                                                    *)

AllTypes   == Types \cup {SetSize}
AllStreams == Streams \cup {0}
Fields     == ((0 .. 3) \X (AllCsids \cup {None})) \cup AllCsids \cup Nat \cup AllTypes
                  \cup {None} \cup AllStreams \cup (AllCsids \X Nat \X Nat)
Kinds      == {"basic", "csid", "ts", "len", "type", "stream", "high", "low", "pay", "size"}
Cells      == [k : Kinds, v : Fields]
Heads      == [ts : Nat, len : Nat, type : AllTypes \cup {None}, stream : AllStreams \cup {None}]
Msgs       == [type : AllTypes, stream : AllStreams, ts : 0 .. (StampMod - 1), body : Seq(Cells)]
StreamRecs == [fmt : 0 .. 3, first : 0 .. 3, hdr : Seq(Cells), message : Seq(Cells),
               chunkRead : Nat, hasExt : BOOLEAN, ts : 0 .. (StampMod - 1), head : Heads]

-------------------------------------------------------------------------------
(* What was written.  S is the history of the messages of each chunk stream, *)
(* hd the format and header each was written with.                           *)

Prefix(r, s) == Len(r) <= Len(s) /\ \A i \in 1 .. Len(r) : r[i] = s[i]

\* What is true of a history stays so when it grows.
Grows(S, T) == \A c \in AllCsids : Prefix(S[c], T[c])

\* Only Ctrl carries changes of the chunk size, one each.
Announced(S) ==
    \A c \in AllCsids : \A i \in 1 .. Len(S[c]) :
        IF c = Ctrl THEN /\ S[c][i].type = SetSize /\ Len(S[c][i].body) = 1
                         /\ S[c][i].body[1].v \in Sizes
        ELSE S[c][i].type # SetSize

\* The chunk size after i changes.
SizeAfter(S, i) == IF i = 0 THEN FixSize ELSE S[Ctrl][i].body[1].v

\* The i-th message of c was written as format and header say, given the one before.
HeadFits(S, hd, c, i) ==
    LET m == S[c][i]  f == hd[c][i].fmt  h == hd[c][i].head
        p == S[c][i - 1]  g == hd[c][i - 1].head
    IN  /\ h.len = Len(m.body) /\ h.type = m.type /\ h.stream = m.stream
        /\ f = 0 => h.ts = m.ts
        /\ f # 0 => /\ i > 1 /\ h.stream = g.stream
                    /\ h.ts = (m.ts - p.ts) % StampMod
        /\ f \in {2, 3} => h.len = g.len /\ h.type = g.type
        /\ f = 3 => h.ts = g.ts

HeadsFit(S, hd) ==
    /\ hd \in [AllCsids -> Seq([fmt : 0 .. 3, head : Heads])]
    /\ \A c \in AllCsids : Len(hd[c]) = Len(S[c]) /\ \A i \in 1 .. Len(S[c]) : HeadFits(S, hd, c, i)

\* A part is a chunk of a message: the payload after from, up to upto.
PartRecs == [c : AllCsids, num : Nat \ {0}, from : Nat, upto : Nat]

\* A place of a chunk stream: upto of message num has been covered.
Places == [AllCsids -> [num : Nat, upto : Nat]]

Done(S, c, p) == p.num = 0 \/ p.upto = Len(S[c][p.num].body)

PlaceFits(S, c, p) ==
    /\ p.num <= Len(S[c])
    /\ p.num > 0 => /\ p.upto <= Len(S[c][p.num].body)
                    /\ p.upto = 0 => Len(S[c][p.num].body) = 0

\* The part q comes next after the places s.
NextPart(S, q, s) ==
    /\ q.num <= Len(S[q.c])
    /\ IF q.from = 0
       THEN q.num = s[q.c].num + 1 /\ Done(S, q.c, s[q.c])
       ELSE q.num = s[q.c].num /\ q.from = s[q.c].upto /\ q.from < Len(S[q.c][q.num].body)
    /\ q.upto = Cut(q.from + SizeAfter(S, s[Ctrl].num), Len(S[q.c][q.num].body))

After(q, s) == [s EXCEPT ![q.c] = [num |-> q.num, upto |-> q.upto]]

\* Q are all the parts sent, at[i] the places after the first i of them.
PartsFit(S, Q, at) ==
    /\ Q \in Seq(PartRecs) /\ at \in [0 .. Len(Q) -> Places]
    /\ \A c \in AllCsids : at[0][c].num = 0
    /\ \A i \in 0 .. Len(Q) : \A c \in AllCsids : PlaceFits(S, c, at[i][c])
    /\ \A i \in 1 .. Len(Q) : NextPart(S, Q[i], at[i - 1]) /\ at[i] = After(Q[i], at[i - 1])

Fmt(hd, q)  == IF q.from = 0 THEN hd[q.c][q.num].fmt ELSE 3
HeadAt(hd, q) == hd[q.c][q.num].head
BLen(c) == IF c \in Wide THEN 2 ELSE 1
ELen(h) == IF h.ts < ExtStamp THEN 0 ELSE 2

\* Where the fields of the part begin.
HeadFrom(q)       == BLen(q.c)
ExtFrom(hd, q)    == HeadFrom(q) + HeadLen[Fmt(hd, q)]
PayFrom(hd, q)    == ExtFrom(hd, q) + ELen(HeadAt(hd, q))
PartLen(hd, q)    == PayFrom(hd, q) + (q.upto - q.from)

HeadField(h, j) ==
    IF j = 1 THEN (IF h.ts < ExtStamp THEN h.ts ELSE ExtStamp)
    ELSE IF j = 2 THEN h.len ELSE IF j = 3 THEN h.type ELSE h.stream

\* The cells of A after o are those of the part q.
Spells(S, hd, A, o, q) ==
    /\ \A j \in 1 .. BLen(q.c) : A[o + j] = BasicCells(q.c, Fmt(hd, q))[j]
    /\ \A j \in 1 .. HeadLen[Fmt(hd, q)] : A[o + HeadFrom(q) + j].v = HeadField(HeadAt(hd, q), j)
    /\ ELen(HeadAt(hd, q)) = 2 =>
          /\ A[o + ExtFrom(hd, q) + 1].v = HeadAt(hd, q).ts \div ExtStamp
          /\ A[o + ExtFrom(hd, q) + 2].v = HeadAt(hd, q).ts % ExtStamp
    /\ \A j \in 1 .. (q.upto - q.from) :
          A[o + PayFrom(hd, q) + j] = S[q.c][q.num].body[q.from + j]

\* A are all the cells sent; the i-th part ends at off[i].
CellsFit(S, hd, A, Q, off) ==
    /\ A \in Seq(Cells) /\ off \in [0 .. Len(Q) -> Nat]
    /\ off[0] = 0 /\ off[Len(Q)] = Len(A)
    /\ \A i \in 1 .. Len(Q) : /\ off[i] = off[i - 1] + PartLen(hd, Q[i])
                              /\ off[i] <= Len(A)
                              /\ Spells(S, hd, A, off[i - 1], Q[i])

-------------------------------------------------------------------------------
(* The writers and the chunks they have not sent.                            *)

WriterRecs == [head : Heads \cup {None}, ts : Nat, size : Nat \ {0}]

WriterFits(S, hd, c, w) ==
    /\ w \in WriterRecs
    /\ w.size = SizeAfter(S, Len(S[Ctrl]))
    /\ IF S[c] = <<>> THEN w.head = None
       ELSE w.head = hd[c][Len(S[c])].head /\ w.ts = S[c][Len(S[c])].ts

\* The chunks qs of the last message of c are still to be sent; they begin at
\* the places of its payload cut has.
Pending(S, hd, c, p, qs, cut) ==
    LET num == Len(S[c])  body == S[c][num].body  n == Len(qs)
    IN  /\ num > 0 /\ n > 0 /\ cut \in [1 .. n + 1 -> Nat]
        /\ IF cut[1] = 0 THEN p.num = num - 1 /\ Done(S, c, p)
           ELSE p.num = num /\ p.upto = cut[1] /\ cut[1] < Len(body)
        /\ cut[n + 1] = Len(body)
        /\ \A j \in 1 .. n :
              /\ cut[j + 1] = Cut(cut[j] + SizeAfter(S, Len(S[Ctrl])), Len(body))
              /\ j > 1 => 0 < cut[j] /\ cut[j] < Len(body)
              /\ qs[j] = HeadCells(c, IF cut[j] = 0 THEN hd[c][num].fmt ELSE 3, hd[c][num].head)
                         \o SubSeq(body, cut[j] + 1, cut[j + 1])

\* All has been sent, or some of the last message has not.
QueueFits(S, hd, c, p, qs) ==
    \/ qs = <<>> /\ p.num = Len(S[c]) /\ Done(S, c, p)
    \/ \E cut \in [1 .. Len(qs) + 1 -> Nat] : Pending(S, hd, c, p, qs, cut)

\* What has been written and sent.
History(S, hd, A, Q, off, at) ==
    /\ Announced(S) /\ HeadsFit(S, hd) /\ PartsFit(S, Q, at) /\ CellsFit(S, hd, A, Q, off)

WritersFit(S, hd, s) ==
    /\ writers \in [AllCsids -> WriterRecs]
    /\ queued \in [AllCsids -> Seq(Seq(Cells))] /\ queued[Ctrl] = <<>>
    /\ \A c \in AllCsids : /\ WriterFits(S, hd, c, writers[c])
                           /\ QueueFits(S, hd, c, s[c], queued[c])

-------------------------------------------------------------------------------
(* The reader.                                                               *)

\* The messages before num have been handed over (r), and len of num is kept in cs.
Kept(S, c, num, len, r, cs) ==
    /\ Len(r) = num - 1
    /\ \A i \in 1 .. (num - 1) : r[i] = S[c][i]
    /\ cs.ts = IF num = 1 THEN 0 ELSE S[c][num - 1].ts
    /\ Len(cs.message) = len
    /\ \A j \in 1 .. len : cs.message[j] = S[c][num].body[j]

\* The header the reader has for a chunk stream is h, but for its timestamp.
HeadBut(cs, h) == cs.head.len = h.len /\ cs.head.type = h.type /\ cs.head.stream = h.stream
HeadIs(cs, h)  == HeadBut(cs, h) /\ cs.head.ts = h.ts /\ cs.hasExt = (h.ts >= ExtStamp)

\* A chunk stream that rests at the place p.
Rests(S, hd, c, p, r, cs) ==
    /\ cs.hdr = <<>> /\ cs.chunkRead = 0
    /\ HeadIs(cs, hd[c][p.num].head)
    /\ IF Done(S, c, p) THEN Kept(S, c, p.num + 1, 0, r, cs)
       ELSE Kept(S, c, p.num, p.upto, r, cs) /\ cs.first = hd[c][p.num].fmt

Settled(S, hd, c, p) ==
    IF p.num = 0 THEN c \notin DOMAIN cks /\ received[c] = <<>>
    ELSE c \in DOMAIN cks /\ Rests(S, hd, c, p, received[c], cks[c])

\* Of the part q the reader has read k cells, and is in its message header.
AtHead(hd, A, o, q, k, cs) ==
    /\ cs.fmt # 3 /\ cs.chunkRead = 0
    /\ cs.fmt # 0 => HeadIs(cs, hd[q.c][q.num - 1].head)
    /\ k = HeadFrom(q) + Len(cs.hdr) /\ Len(cs.hdr) < HeadLen[cs.fmt]
    /\ \A j \in 1 .. Len(cs.hdr) : cs.hdr[j] = A[o + HeadFrom(q) + j]

\* In its extended timestamp.
AtExt(hd, A, o, q, k, cs) ==
    /\ ELen(HeadAt(hd, q)) = 2 /\ cs.chunkRead = 0
    /\ HeadBut(cs, HeadAt(hd, q)) /\ cs.hasExt = TRUE
    /\ k = ExtFrom(hd, q) + Len(cs.hdr) /\ Len(cs.hdr) < 2
    /\ \A j \in 1 .. Len(cs.hdr) : cs.hdr[j] = A[o + ExtFrom(hd, q) + j]

\* In its payload.
AtPayload(hd, q, k, cs) ==
    /\ HeadIs(cs, HeadAt(hd, q)) /\ cs.hdr = <<>>
    /\ k = PayFrom(hd, q) + cs.chunkRead
    /\ cs.chunkRead < q.upto - q.from \/ (cs.chunkRead = 0 /\ q.upto = q.from)

\* The chunk stream of the part q when k cells of it have been read.
Within(S, hd, A, o, q, k, st, r, cs) ==
    /\ Kept(S, q.c, q.num, q.from + cs.chunkRead, r, cs)
    /\ cs.fmt = Fmt(hd, q) /\ cs.first = hd[q.c][q.num].fmt
    /\ \/ st = "head" /\ AtHead(hd, A, o, q, k, cs)
       \/ st = "ext" /\ AtExt(hd, A, o, q, k, cs)
       \/ st = "payload" /\ AtPayload(hd, q, k, cs)

Reading(S, hd, A, o, q, k) ==
    q.c \in DOMAIN cks /\ Within(S, hd, A, o, q, k, state, received[q.c], cks[q.c])

\* Up to pos the cells have been read; the rest is on its way.
Supply(A, pos) ==
    /\ data \in Seq(Cells) /\ wire \in Seq(Cells)
    /\ Len(A) = pos + Len(data) + Len(wire)
    /\ \A i \in 1 .. Len(data) : data[i] = A[pos + i]
    /\ \A i \in 1 .. Len(wire) : wire[i] = A[pos + Len(data) + i]

\* n parts have been read and k cells of the next.
Reader(S, hd, A, Q, off, at, n, k) ==
    /\ headCache \in Seq(Cells)
    /\ n \in 0 .. Len(Q) /\ k \in Nat
    /\ readSize = SizeAfter(S, at[n][Ctrl].num)
    /\ \A c \in AllCsids : (state = "basic" \/ c # current) => Settled(S, hd, c, at[n][c])
    /\ Len(headCache) = (IF state = "basic" THEN k ELSE 0)
    /\ IF state = "basic"
       THEN /\ IF n = Len(Q) THEN k = 0 ELSE k < BLen(Q[n + 1].c)
            /\ \A j \in 1 .. k : headCache[j] = A[off[n] + j]
       ELSE n < Len(Q) /\ current = Q[n + 1].c /\ Reading(S, hd, A, off[n], Q[n + 1], k)

-------------------------------------------------------------------------------
(* Writers, bytes on their way and reader together.                          *)

\* The places of the payload that is kept, one for each cell buffered should count.
Held == UNION {{c} \X (1 .. Len(cks[c].message)) : c \in DOMAIN cks}

\* A are the cells of the parts Q, each put where the one before ends (off), and at
\* says how far each chunk stream is after each part.  The reader is k cells
\* behind the n-th; what it has not read is in data and on the wire.
Sound(hd, A, Q, off, at, n, k) ==
    /\ History(sent, hd, A, Q, off, at)
    /\ WritersFit(sent, hd, at[Len(Q)])
    /\ Reader(sent, hd, A, Q, off, at, n, k)
    /\ Supply(A, off[n] + k)

-------------------------------------------------------------------------------
(* Arithmetic and sequences.                                                 *)

\* A timestamp is put together again from what its extended field holds.
LEMMA DivMod ==
    ASSUME NEW t \in Nat, NEW e \in Nat \ {0}
    PROVE  t \div e \in Nat /\ t % e \in 0 .. (e - 1) /\ (t \div e) * e + (t % e) = t
OBVIOUS

\* The time of a message is the last one's plus the difference, modulo m.
LEMMA ModBack ==
    ASSUME NEW m \in Nat \ {0}, NEW p \in 0 .. (m - 1), NEW t \in 0 .. (m - 1)
    PROVE  (t - p) % m \in 0 .. (m - 1) /\ (p + ((t - p) % m)) % m = t
<1>1. CASE t >= p
  <2>1. t - p \in 0 .. (m - 1)
    BY <1>1
  <2>2. (t - p) % m = t - p
    BY <2>1
  <2>3. p + ((t - p) % m) = t
    BY <2>2
  <2> QED
    BY <2>1, <2>2, <2>3
<1>2. CASE t < p
  <2>1. t - p + m \in 0 .. (m - 1)
    BY <1>2
  <2>2. (t - p) % m = t - p + m
    BY <2>1
  <2>3. p + ((t - p) % m) = t + m
    BY <2>2
  <2>4. (t + m) % m = t
    OBVIOUS
  <2> QED
    BY <2>1, <2>2, <2>3, <2>4
<1> QED
  BY <1>1, <1>2

\* HeadLen, format by format.
LEMMA HeadLenIs == /\ HeadLen[0] = 4 /\ HeadLen[1] = 3 /\ HeadLen[2] = 1 /\ HeadLen[3] = 0
                   /\ \A f \in 0 .. 3 : HeadLen[f] \in 0 .. 4
BY DEF HeadLen

\* A cell is one whatever its kind.
LEMMA CellIn == \A k \in Kinds, v \in Fields : Cell(k, v) \in Cells /\ Cell(k, v).v = v
BY DEF Cell, Cells

\* The basic header of a chunk (encodeHeadTo).
LEMMA BasicIs ==
    ASSUME NEW c \in AllCsids, NEW f \in 0 .. 3
    PROVE  BasicCells(c, f) \in Seq(Cells) /\ Len(BasicCells(c, f)) = BLen(c) /\ BLen(c) \in 1 .. 2
<1>1. <<f, None>> \in Fields /\ <<f, c>> \in Fields /\ c \in Fields
  BY DEF Fields
<1>2. Cell("basic", <<f, None>>) \in Cells /\ Cell("csid", c) \in Cells /\ Cell("basic", <<f, c>>) \in Cells
  BY <1>1, CellIn DEF Kinds
<1>3. CASE c \in Wide
  BY <1>2, <1>3 DEF BasicCells, BLen
<1>4. CASE c \notin Wide
  BY <1>2, <1>4 DEF BasicCells, BLen
<1> QED
  BY <1>3, <1>4

\* The extended timestamp (encodeHeadTo).
LEMMA ExtIs ==
    ASSUME ExtStamp \in Nat \ {0}, NEW f \in 0 .. 3, NEW h \in Heads
    PROVE  /\ ExtCells(f, h) \in Seq(Cells) /\ Len(ExtCells(f, h)) = ELen(h) /\ ELen(h) \in {0, 2}
           /\ ELen(h) = 2 => /\ ExtCells(f, h)[1].v = h.ts \div ExtStamp
                             /\ ExtCells(f, h)[2].v = h.ts % ExtStamp
<1>1. h.ts \in Nat
  BY DEF Heads
<1>2. h.ts \div ExtStamp \in Nat /\ h.ts % ExtStamp \in Nat
  BY <1>1, DivMod
<1> DEFINE a == Cell("high", h.ts \div ExtStamp)
           b == Cell("low", h.ts % ExtStamp)
<1>3. a \in Cells /\ b \in Cells /\ a.v = h.ts \div ExtStamp /\ b.v = h.ts % ExtStamp
  BY <1>2, CellIn DEF Kinds, Fields
<1>4. CASE h.ts < ExtStamp
  BY <1>4 DEF ExtCells, ELen
<1>5. CASE ~(h.ts < ExtStamp)
  <2>1. ExtCells(f, h) = <<a, b>> /\ ELen(h) = 2
    BY <1>5 DEF ExtCells, ELen
  <2> HIDE DEF a, b
  <2> QED
    BY <2>1, <1>3
<1> QED
  BY <1>4, <1>5

\* The message header (encodeHeadTo).
MsgHead(f, h) ==
    SubSeq(<<Cell("ts", IF h.ts < ExtStamp THEN h.ts ELSE ExtStamp), Cell("len", h.len),
             Cell("type", h.type), Cell("stream", h.stream)>>, 1, HeadLen[f])

LEMMA MsgHeadIs ==
    ASSUME ExtStamp \in Nat \ {0}, NEW f \in 0 .. 3, NEW h \in Heads
    PROVE  /\ MsgHead(f, h) \in Seq(Cells) /\ Len(MsgHead(f, h)) = HeadLen[f]
           /\ \A j \in 1 .. HeadLen[f] : MsgHead(f, h)[j].v = HeadField(h, j)
<1> DEFINE t == IF h.ts < ExtStamp THEN h.ts ELSE ExtStamp
           a == Cell("ts", t)
           b == Cell("len", h.len)
           c == Cell("type", h.type)
           d == Cell("stream", h.stream)
           all == <<a, b, c, d>>
<1>1. t \in Fields /\ h.len \in Fields /\ h.type \in Fields /\ h.stream \in Fields
  BY DEF Heads, Fields
<1> HIDE DEF t
<1>2. /\ a \in Cells /\ b \in Cells /\ c \in Cells /\ d \in Cells
      /\ a.v = t /\ b.v = h.len /\ c.v = h.type /\ d.v = h.stream
  BY <1>1, CellIn DEF Kinds
<1> HIDE DEF a, b, c, d
<1>3. all \in Seq(Cells) /\ Len(all) = 4 /\ \A j \in 1 .. 4 : all[j] \in Cells /\ all[j].v = HeadField(h, j)
  <2>1. /\ all[1].v = t /\ all[2].v = h.len /\ all[3].v = h.type /\ all[4].v = h.stream
        /\ all[1] \in Cells /\ all[2] \in Cells /\ all[3] \in Cells /\ all[4] \in Cells
    BY <1>2
  <2>2. \A j \in 1 .. 4 : j = 1 \/ j = 2 \/ j = 3 \/ j = 4
    OBVIOUS
  <2> QED
    BY <1>2, <2>1, <2>2 DEF HeadField, t
<1>4. HeadLen[f] \in 0 .. 4
  BY HeadLenIs
<1>5. MsgHead(f, h) = SubSeq(all, 1, HeadLen[f])
  BY DEF MsgHead, all, a, b, c, d, t
<1> HIDE DEF all
<1>6. \A i \in 1 .. HeadLen[f] : all[i] \in Cells
  <2>1. \A i \in 1 .. HeadLen[f] : i \in 1 .. 4
    BY <1>4
  <2> QED
    BY <1>3, <2>1
<1>7. /\ SubSeq(all, 1, HeadLen[f]) \in Seq(Cells)
      /\ Len(SubSeq(all, 1, HeadLen[f])) = HeadLen[f]
      /\ \A i \in 1 .. HeadLen[f] : SubSeq(all, 1, HeadLen[f])[i] = all[i]
  BY <1>4, <1>6, SubSeqProperties
<1>8. \A i \in 1 .. HeadLen[f] : i \in 1 .. 4
  BY <1>4
<1> QED
  BY <1>3, <1>5, <1>7, <1>8

\* A chunk: the headers, and payload from the place from up to upto
\* (encodeHeadTo, writeData).
ChunkOf(c, f, h, body, from, upto) == HeadCells(c, f, h) \o SubSeq(body, from + 1, upto)

IsChunk(d, c, f, h, body, from, upto) ==
    LET x == BLen(c) + HeadLen[f]
        y == x + ELen(h)
    IN  /\ d \in Seq(Cells) /\ Len(d) = y + (upto - from)
        /\ \A j \in 1 .. BLen(c) : d[j] = BasicCells(c, f)[j]
        /\ \A j \in 1 .. HeadLen[f] : d[BLen(c) + j].v = HeadField(h, j)
        /\ ELen(h) = 2 => d[x + 1].v = h.ts \div ExtStamp /\ d[x + 2].v = h.ts % ExtStamp
        /\ \A j \in 1 .. (upto - from) : d[y + j] = body[from + j]

LEMMA ChunkIs ==
    ASSUME ExtStamp \in Nat \ {0}, NEW c \in AllCsids, NEW f \in 0 .. 3, NEW h \in Heads,
           NEW body \in Seq(Cells), NEW from \in Nat, NEW upto \in Nat,
           from <= upto, upto <= Len(body)
    PROVE  IsChunk(ChunkOf(c, f, h, body, from, upto), c, f, h, body, from, upto)
<1> DEFINE u == BasicCells(c, f)
           v == MsgHead(f, h)
           w == ExtCells(f, h)
           p == SubSeq(body, from + 1, upto)
           s == ((u \o v) \o w) \o p
<1>1. u \in Seq(Cells) /\ Len(u) = BLen(c) /\ BLen(c) \in 1 .. 2
  BY BasicIs
<1>2. /\ v \in Seq(Cells) /\ Len(v) = HeadLen[f] /\ HeadLen[f] \in 0 .. 4
      /\ \A j \in 1 .. HeadLen[f] : v[j].v = HeadField(h, j)
  BY MsgHeadIs, HeadLenIs
<1>3. /\ w \in Seq(Cells) /\ Len(w) = ELen(h) /\ ELen(h) \in {0, 2}
      /\ ELen(h) = 2 => w[1].v = h.ts \div ExtStamp /\ w[2].v = h.ts % ExtStamp
  BY ExtIs
<1>4. p \in Seq(Cells) /\ Len(p) = upto - from /\ \A j \in 1 .. (upto - from) : p[j] = body[from + j]
  <2>1. \A i \in (from + 1) .. upto : body[i] \in Cells
    OBVIOUS
  <2> QED
    BY <2>1, SubSeqProperties
<1>5. ChunkOf(c, f, h, body, from, upto) = s
  BY DEF ChunkOf, HeadCells, MsgHead
<1> HIDE DEF u, v, w, p
<1>6. /\ s \in Seq(Cells) /\ Len(s) = Len(u) + Len(v) + Len(w) + Len(p)
      /\ \A j \in 1 .. Len(u) : s[j] = u[j]
      /\ \A j \in 1 .. Len(v) : s[Len(u) + j] = v[j]
      /\ \A j \in 1 .. Len(w) : s[Len(u) + Len(v) + j] = w[j]
      /\ \A j \in 1 .. Len(p) : s[Len(u) + Len(v) + Len(w) + j] = p[j]
  <2>1. u \in Seq(Cells) /\ v \in Seq(Cells) /\ w \in Seq(Cells) /\ p \in Seq(Cells)
    BY <1>1, <1>2, <1>3, <1>4
  <2> QED
    BY <2>1, SMTT(30)
<1> HIDE DEF s
<1>7. \A j \in 1 .. HeadLen[f] : s[BLen(c) + j].v = HeadField(h, j)
  BY <1>1, <1>2, <1>6, ZenonT(30)
<1>8. ELen(h) = 2 => s[BLen(c) + HeadLen[f] + 1].v = h.ts \div ExtStamp
                     /\ s[BLen(c) + HeadLen[f] + 2].v = h.ts % ExtStamp
  <2> HAVE ELen(h) = 2
  <2>1. 1 \in 1 .. Len(w) /\ 2 \in 1 .. Len(w)
    BY <1>3
  <2>2. s[Len(u) + Len(v) + 1] = w[1] /\ s[Len(u) + Len(v) + 2] = w[2]
    BY <2>1, <1>6
  <2> QED
    BY <2>2, <1>1, <1>2, <1>3
<1>9. \A j \in 1 .. (upto - from) : s[BLen(c) + HeadLen[f] + ELen(h) + j] = body[from + j]
  BY <1>1, <1>2, <1>3, <1>4, <1>6, ZenonT(30)
<1>10. \A j \in 1 .. BLen(c) : s[j] = BasicCells(c, f)[j]
  BY <1>1, <1>6 DEF u
<1>11. s \in Seq(Cells) /\ Len(s) = BLen(c) + HeadLen[f] + ELen(h) + (upto - from)
  BY <1>1, <1>2, <1>3, <1>4, <1>6
<1> QED
  BY <1>5, <1>7, <1>8, <1>9, <1>10, <1>11 DEF IsChunk

-------------------------------------------------------------------------------
(* The history grows.                                                        *)

\* Format and HeadOf leave out what the last header says as well (encodeHeadTo,
\* writeData).
LEMMA FormatIs ==
    ASSUME ChunkAssumption, NEW m \in Msgs, NEW w \in WriterRecs
    PROVE  /\ Format(w, m) \in 0 .. 3 /\ HeadOf(w, m) \in Heads
           /\ HeadOf(w, m).len = Len(m.body) /\ HeadOf(w, m).type = m.type
           /\ HeadOf(w, m).stream = m.stream
           /\ Format(w, m) = 0 => HeadOf(w, m).ts = m.ts
           /\ Format(w, m) # 0 => /\ w.head # None /\ m.stream = w.head.stream
                                  /\ HeadOf(w, m).ts = (m.ts - w.ts) % StampMod
           /\ Format(w, m) \in {2, 3} => m.type = w.head.type /\ Len(m.body) = w.head.len
           /\ Format(w, m) = 3 => HeadOf(w, m).ts = w.head.ts
<1>1. /\ m.ts \in Nat /\ w.ts \in Nat /\ Len(m.body) \in Nat
      /\ m.type \in AllTypes /\ m.stream \in AllStreams
  BY DEF Msgs, WriterRecs, ChunkAssumption
<1>2. (m.ts - w.ts) % StampMod \in Nat
  <2>1. m.ts - w.ts \in Int /\ StampMod \in Nat \ {0}
    BY <1>1 DEF ChunkAssumption
  <2> QED
    BY <2>1
<1>3. Format(w, m) \in 0 .. 3
  BY DEF Format
<1>4. Format(w, m) # 0 => w.head # None /\ m.stream = w.head.stream
  BY DEF Format
<1>5. Format(w, m) \in {2, 3} => m.type = w.head.type /\ Len(m.body) = w.head.len
  BY DEF Format
<1>6. Format(w, m) = 3 => (m.ts - w.ts) % StampMod = w.head.ts
  BY DEF Format
<1> QED
  BY <1>1, <1>2, <1>3, <1>4, <1>5, <1>6 DEF HeadOf, Heads

\* A chunk stream whose history is not longer is the same there.
LEMMA GrowsIs ==
    ASSUME NEW S, NEW T, Grows(S, T), NEW c \in AllCsids, NEW i \in 1 .. Len(S[c])
    PROVE  T[c][i] = S[c][i]
BY DEF Grows, Prefix

\* A message is written (writeData).
Entry(w, m) == [fmt |-> Format(w, m), head |-> HeadOf(w, m)]

Add(S, c, x) == [S EXCEPT ![c] = Append(@, x)]

LEMMA Appended ==
    ASSUME NEW V, NEW S \in [AllCsids -> Seq(V)], NEW c \in AllCsids, NEW m \in V
    PROVE  LET T == Add(S, c, m)
           IN
           /\ T \in [AllCsids -> Seq(V)] /\ Grows(S, T)
           /\ Len(T[c]) = Len(S[c]) + 1 /\ T[c][Len(S[c]) + 1] = m
           /\ \A d \in AllCsids : d # c => T[d] = S[d]
<1> DEFINE T == Add(S, c, m)
<1>1. S[c] \in Seq(V) /\ T[c] = Append(S[c], m)
  BY DEF Add
<1>2. /\ Append(S[c], m) \in Seq(V) /\ Len(Append(S[c], m)) = Len(S[c]) + 1
      /\ Append(S[c], m)[Len(S[c]) + 1] = m
      /\ \A i \in 1 .. Len(S[c]) : Append(S[c], m)[i] = S[c][i]
  BY <1>1
<1>3. \A d \in AllCsids : d # c => T[d] = S[d]
  BY DEF Add
<1>0. T \in [AllCsids -> Seq(V)]
  BY <1>2 DEF Add
<1> HIDE DEF T
<1>4. \A d \in AllCsids : S[d] \in Seq(V) /\ Len(S[d]) \in Nat
  OBVIOUS
<1>5. ASSUME NEW d \in AllCsids PROVE Prefix(S[d], T[d])
  BY <1>1, <1>2, <1>3, <1>4 DEF Prefix
<1> QED
  BY <1>0, <1>1, <1>2, <1>3, <1>5 DEF Grows, T

LEMMA HeadsFitWritten ==
    ASSUME ChunkAssumption, NEW S \in [AllCsids -> Seq(Msgs)], NEW hd, HeadsFit(S, hd),
           NEW c \in AllCsids, NEW m \in Msgs, NEW w, WriterFits(S, hd, c, w)
    PROVE  LET T  == Add(S, c, m)
               gd == Add(hd, c, Entry(w, m))
           IN
           /\ T \in [AllCsids -> Seq(Msgs)] /\ Grows(S, T) /\ Grows(hd, gd)
           /\ HeadsFit(T, gd)
           /\ gd[c][Len(S[c]) + 1] = Entry(w, m)
<1> DEFINE T  == Add(S, c, m)
           gd == Add(hd, c, Entry(w, m))
           E == [fmt : 0 .. 3, head : Heads]
<1>1. w \in WriterRecs
  BY DEF WriterFits
<1>2. Entry(w, m) \in E
  BY <1>1, FormatIs DEF Entry
<1>3. hd \in [AllCsids -> Seq(E)] /\ \A d \in AllCsids : Len(hd[d]) = Len(S[d])
  BY DEF HeadsFit
<1> HIDE DEF E
<1>4. /\ T \in [AllCsids -> Seq(Msgs)] /\ Grows(S, T)
      /\ Len(T[c]) = Len(S[c]) + 1 /\ T[c][Len(S[c]) + 1] = m
      /\ \A d \in AllCsids : d # c => T[d] = S[d]
  BY Appended
<1>5. /\ gd \in [AllCsids -> Seq(E)] /\ Grows(hd, gd)
      /\ Len(gd[c]) = Len(hd[c]) + 1 /\ gd[c][Len(hd[c]) + 1] = Entry(w, m)
      /\ \A d \in AllCsids : d # c => gd[d] = hd[d]
  BY <1>2, <1>3, Appended
<1> HIDE DEF T, gd
<1>6. ASSUME NEW d \in AllCsids PROVE Len(gd[d]) = Len(T[d])
  BY <1>3, <1>4, <1>5
<1>7. ASSUME NEW d \in AllCsids, NEW i \in 1 .. Len(S[d]) PROVE HeadFits(T, gd, d, i)
  <2>1. HeadFits(S, hd, d, i)
    BY DEF HeadsFit
  <2>2. T[d][i] = S[d][i] /\ gd[d][i] = hd[d][i]
    BY <1>3, <1>4, <1>5, GrowsIs
  <2>3. Len(S[d]) \in Nat
    OBVIOUS
  <2>4. i > 1 => T[d][i - 1] = S[d][i - 1] /\ gd[d][i - 1] = hd[d][i - 1]
    <3> HAVE i > 1
    <3>1. i - 1 \in 1 .. Len(S[d])
      BY <2>3
    <3>2. i - 1 \in 1 .. Len(hd[d])
      BY <3>1, <1>3
    <3>3. T[d][i - 1] = S[d][i - 1]
      BY <3>1, <1>4, GrowsIs, SMTT(30)
    <3>4. gd[d][i - 1] = hd[d][i - 1]
      BY <3>2, <1>5 DEF Grows, Prefix
    <3> QED
      BY <3>3, <3>4
  <2>5. hd[d][i].fmt = 0 \/ i > 1
    BY <2>1 DEF HeadFits
  <2>6. CASE hd[d][i].fmt = 0
    BY <2>1, <2>2, <2>6 DEF HeadFits
  <2>7. CASE i > 1
    BY <2>1, <2>2, <2>4, <2>7 DEF HeadFits
  <2> QED
    BY <2>5, <2>6, <2>7
<1>8. HeadFits(T, gd, c, Len(S[c]) + 1)
  <2> DEFINE i == Len(S[c]) + 1
  <2>1. T[c][i] = m /\ gd[c][i] = Entry(w, m)
    BY <1>3, <1>4, <1>5
  <2>2. Entry(w, m).fmt = Format(w, m) /\ Entry(w, m).head = HeadOf(w, m)
    BY DEF Entry
  <2>3. CASE S[c] = <<>>
    <3>1. Format(w, m) = 0
      BY <1>1, <2>3, FormatIs DEF WriterFits
    <3> QED
      BY <2>1, <2>2, <3>1, <1>1, FormatIs DEF HeadFits
  <2>4. CASE S[c] # <<>>
    <3>1. Len(S[c]) \in 1 .. Len(S[c]) /\ i - 1 = Len(S[c]) /\ i > 1
      <4>1. S[c] \in Seq(Msgs)
        OBVIOUS
      <4> QED
        BY <4>1, <2>4
    <3>2. T[c][i - 1] = S[c][Len(S[c])] /\ gd[c][i - 1] = hd[c][Len(S[c])]
      BY <3>1, <1>3, <1>4, <1>5, GrowsIs
    <3>3. gd[c][i - 1].head = w.head /\ T[c][i - 1].ts = w.ts
      BY <3>2, <2>4 DEF WriterFits
    <3>4. T[c][i].body = m.body
      BY <2>1
    <3> QED
      BY <2>1, <2>2, <3>1, <3>3, <1>1, FormatIs DEF HeadFits
  <2> QED
    BY <2>3, <2>4
<1>9. ASSUME NEW d \in AllCsids, NEW i \in 1 .. Len(T[d]) PROVE HeadFits(T, gd, d, i)
  <2>1. Len(S[d]) \in Nat
    OBVIOUS
  <2>2. CASE i \in 1 .. Len(S[d])
    BY <1>7, <2>2
  <2>3. CASE d = c /\ i = Len(S[c]) + 1
    BY <1>8, <2>3
  <2> QED
    BY <1>4, <2>1, <2>2, <2>3
<1> QED
  BY <1>3, <1>4, <1>5, <1>6, <1>9 DEF HeadsFit, T, gd, E

\* What has been sent is sent whatever is written next.
Place == [num : Nat, upto : Nat]

LEMMA PlaceGrows ==
    ASSUME NEW S \in [AllCsids -> Seq(Msgs)], NEW T \in [AllCsids -> Seq(Msgs)], Grows(S, T),
           NEW c \in AllCsids, NEW p \in Place, PlaceFits(S, c, p)
    PROVE  PlaceFits(T, c, p) /\ (Done(T, c, p) <=> Done(S, c, p))
<1>1. Len(S[c]) \in Nat /\ Len(T[c]) \in Nat /\ Len(S[c]) <= Len(T[c]) /\ p.num \in Nat
  BY DEF Grows, Prefix, Place
<1>2. p.num <= Len(S[c])
  BY DEF PlaceFits
<1>3. CASE p.num = 0
  BY <1>1, <1>3 DEF PlaceFits, Done
<1>4. CASE p.num > 0
  <2>0. p.num \in 1 .. Len(S[c])
    BY <1>1, <1>2, <1>4
  <2>1. T[c][p.num] = S[c][p.num]
    BY <2>0 DEF Grows, Prefix
  <2> QED
    BY <1>1, <1>2, <2>1 DEF PlaceFits, Done
<1> QED
  BY <1>1, <1>3, <1>4

LEMMA SizeGrows ==
    ASSUME NEW S \in [AllCsids -> Seq(Msgs)], NEW T, Grows(S, T), NEW i \in 0 .. Len(S[Ctrl])
    PROVE  SizeAfter(T, i) = SizeAfter(S, i)
<1>1. Ctrl \in AllCsids
  BY DEF AllCsids
<1>2. CASE i = 0
  BY <1>2 DEF SizeAfter
<1>3. CASE i # 0
  <2>1. i \in 1 .. Len(S[Ctrl])
    BY <1>1, <1>3
  <2> QED
    BY <1>1, <1>3, <2>1, GrowsIs DEF SizeAfter
<1> QED
  BY <1>2, <1>3

LEMMA PartGrows ==
    ASSUME NEW S \in [AllCsids -> Seq(Msgs)], NEW T \in [AllCsids -> Seq(Msgs)], Grows(S, T),
           NEW q \in PartRecs, NEW s \in Places, \A c \in AllCsids : PlaceFits(S, c, s[c]),
           NextPart(S, q, s)
    PROVE  NextPart(T, q, s) /\ q.num \in 1 .. Len(S[q.c])
<1>1. q.c \in AllCsids /\ q.num \in Nat \ {0} /\ Ctrl \in AllCsids
  BY DEF PartRecs, AllCsids
<1>2. s[q.c] \in Place /\ s[Ctrl] \in Place
  BY <1>1 DEF Places, Place
<1>3. q.num \in 1 .. Len(S[q.c])
  BY <1>1 DEF NextPart
<1>4. T[q.c][q.num] = S[q.c][q.num] /\ Len(S[q.c]) <= Len(T[q.c])
  BY <1>1, <1>3 DEF Grows, Prefix
<1>5. Done(T, q.c, s[q.c]) <=> Done(S, q.c, s[q.c])
  BY <1>1, <1>2, PlaceGrows
<1>6. SizeAfter(T, s[Ctrl].num) = SizeAfter(S, s[Ctrl].num)
  <2>1. s[Ctrl].num \in 0 .. Len(S[Ctrl])
    BY <1>1, <1>2 DEF PlaceFits, Place
  <2> QED
    BY <2>1, SizeGrows
<1>7. Len(S[q.c]) \in Nat /\ Len(T[q.c]) \in Nat
  BY <1>1
<1> QED
  BY <1>1, <1>3, <1>4, <1>5, <1>6, <1>7 DEF NextPart

LEMMA PartsGrow ==
    ASSUME NEW S \in [AllCsids -> Seq(Msgs)], NEW T \in [AllCsids -> Seq(Msgs)], Grows(S, T),
           NEW Q, NEW at, PartsFit(S, Q, at)
    PROVE  PartsFit(T, Q, at)
<1>1. /\ Q \in Seq(PartRecs) /\ at \in [0 .. Len(Q) -> Places] /\ Len(Q) \in Nat
      /\ \A c \in AllCsids : at[0][c].num = 0
      /\ \A i \in 0 .. Len(Q) : \A c \in AllCsids : PlaceFits(S, c, at[i][c])
      /\ \A i \in 1 .. Len(Q) : NextPart(S, Q[i], at[i - 1]) /\ at[i] = After(Q[i], at[i - 1])
  BY DEF PartsFit
<1>2. ASSUME NEW i \in 0 .. Len(Q), NEW c \in AllCsids PROVE PlaceFits(T, c, at[i][c])
  <2>1. at[i][c] \in Place
    BY <1>1 DEF Places, Place
  <2> QED
    BY <1>1, <2>1, PlaceGrows
<1>3. ASSUME NEW i \in 1 .. Len(Q) PROVE NextPart(T, Q[i], at[i - 1])
  <2>1. Q[i] \in PartRecs /\ i - 1 \in 0 .. Len(Q)
    BY <1>1
  <2>2. at[i - 1] \in Places /\ \A c \in AllCsids : PlaceFits(S, c, at[i - 1][c])
    BY <1>1, <2>1
  <2>3. NextPart(S, Q[i], at[i - 1])
    BY <1>1
  <2> QED
    BY <2>1, <2>2, <2>3, PartGrows
<1> QED
  BY <1>1, <1>2, <1>3 DEF PartsFit

LEMMA SpellsSame ==
    ASSUME NEW S, NEW T, NEW hd, NEW gd, NEW A, NEW o, NEW q,
           T[q.c][q.num] = S[q.c][q.num], gd[q.c][q.num] = hd[q.c][q.num]
    PROVE  /\ Spells(T, gd, A, o, q) <=> Spells(S, hd, A, o, q)
           /\ PartLen(gd, q) = PartLen(hd, q)
<1>2. Fmt(gd, q) = Fmt(hd, q) /\ HeadAt(gd, q) = HeadAt(hd, q)
  BY DEF Fmt, HeadAt
<1> QED
  BY <1>2 DEF Spells, PartLen, PayFrom, ExtFrom

LEMMA CellsGrow ==
    ASSUME NEW S \in [AllCsids -> Seq(Msgs)], NEW T, Grows(S, T), NEW hd, NEW gd, Grows(hd, gd),
           NEW A, NEW Q \in Seq(PartRecs), NEW off, CellsFit(S, hd, A, Q, off),
           \A c \in AllCsids : Len(hd[c]) = Len(S[c]),
           \A i \in 1 .. Len(Q) : Q[i].num \in 1 .. Len(S[Q[i].c])
    PROVE  CellsFit(T, gd, A, Q, off)
<1>1. ASSUME NEW i \in 1 .. Len(Q)
      PROVE  /\ Spells(T, gd, A, off[i - 1], Q[i]) <=> Spells(S, hd, A, off[i - 1], Q[i])
             /\ PartLen(gd, Q[i]) = PartLen(hd, Q[i])
  <2>1. Q[i] \in PartRecs
    OBVIOUS
  <2>2. PICK q : q = Q[i]
    OBVIOUS
  <2>3. q.c \in AllCsids /\ q.num \in 1 .. Len(S[q.c]) /\ Len(hd[q.c]) = Len(S[q.c])
    BY <2>1, <2>2 DEF PartRecs
  <2>4. /\ Spells(T, gd, A, off[i - 1], q) <=> Spells(S, hd, A, off[i - 1], q)
        /\ PartLen(gd, q) = PartLen(hd, q)
    <3>1. T[q.c][q.num] = S[q.c][q.num] /\ gd[q.c][q.num] = hd[q.c][q.num]
      BY <2>3 DEF Grows, Prefix
    <3> QED
      BY <3>1, SpellsSame
  <2> QED
    BY <2>2, <2>4
<1> QED
  BY <1>1 DEF CellsFit

\* Chunk sizes are not 0.
LEMMA SizeIs ==
    ASSUME ChunkAssumption, NEW S, Announced(S), NEW i \in Nat, i <= Len(S[Ctrl]), Len(S[Ctrl]) \in Nat
    PROVE  SizeAfter(S, i) \in Nat \ {0} /\ SizeAfter(S, i) \in Sizes \cup {FixSize}
<1>1. Ctrl \in AllCsids /\ FixSize \in Nat \ {0} /\ Sizes \subseteq Nat \ {0}
  BY DEF AllCsids, ChunkAssumption
<1>2. CASE i = 0
  BY <1>1, <1>2 DEF SizeAfter
<1>3. CASE i # 0
  <2>1. i \in 1 .. Len(S[Ctrl])
    BY <1>3
  <2>2. S[Ctrl][i].body[1].v \in Sizes
    BY <2>1, <1>1 DEF Announced
  <2> QED
    BY <1>1, <1>3, <2>2 DEF SizeAfter
<1> QED
  BY <1>2, <1>3

\* Where a part that comes next lies in its message.
LEMMA NextIs ==
    ASSUME ChunkAssumption, NEW S \in [AllCsids -> Seq(Msgs)], Announced(S),
           NEW q \in PartRecs, NEW s \in Places, \A c \in AllCsids : PlaceFits(S, c, s[c]),
           NextPart(S, q, s)
    PROVE  /\ q.num \in 1 .. Len(S[q.c])
           /\ S[q.c][q.num] \in Msgs /\ S[q.c][q.num].body \in Seq(Cells)
           /\ Len(S[q.c][q.num].body) \in Nat
           /\ q.from <= q.upto /\ q.upto <= Len(S[q.c][q.num].body)
           /\ q.upto = 0 => Len(S[q.c][q.num].body) = 0
           /\ q.upto = q.from => Len(S[q.c][q.num].body) = 0 /\ q.from = 0
<1>1. q.c \in AllCsids /\ q.num \in Nat \ {0} /\ q.from \in Nat /\ q.upto \in Nat /\ Ctrl \in AllCsids
  BY DEF PartRecs, AllCsids
<1>2. q.num \in 1 .. Len(S[q.c]) /\ S[q.c] \in Seq(Msgs)
  BY <1>1 DEF NextPart
<1>3. S[q.c][q.num] \in Msgs
  BY <1>2
<1>4. S[q.c][q.num].body \in Seq(Cells)
  BY <1>3 DEF Msgs
<1>5. PICK n \in Nat : n = Len(S[q.c][q.num].body)
  BY <1>4
<1>6. s[Ctrl].num \in Nat /\ s[Ctrl].num <= Len(S[Ctrl]) /\ Len(S[Ctrl]) \in Nat
  BY <1>1 DEF Places, PlaceFits
<1>7. PICK z \in Nat \ {0} : z = SizeAfter(S, s[Ctrl].num)
  BY <1>6, SizeIs
<1>8. q.upto = Cut(q.from + z, n) /\ (q.from = 0 \/ q.from < n)
  BY <1>5, <1>7 DEF NextPart
<1>9. /\ q.from <= q.upto /\ q.upto <= n
      /\ q.upto = 0 => n = 0
      /\ q.upto = q.from => n = 0 /\ q.from = 0
  BY <1>1, <1>8 DEF Cut
<1> QED
  BY <1>2, <1>3, <1>4, <1>5, <1>9

\* A function on 0 .. n goes one further.
Longer(f, n, v) == [i \in 0 .. (n + 1) |-> IF i <= n THEN f[i] ELSE v]

\* The chunk a part makes (encodeHeadTo, writeData).
PartCells(S, hd, q) ==
    ChunkOf(q.c, Fmt(hd, q), HeadAt(hd, q), S[q.c][q.num].body, q.from, q.upto)

PartSizes(hd, q) ==
    /\ BLen(q.c) \in 1 .. 2 /\ HeadLen[Fmt(hd, q)] \in 0 .. 4 /\ ELen(HeadAt(hd, q)) \in {0, 2}
    /\ Fmt(hd, q) \in 0 .. 3 /\ HeadAt(hd, q) \in Heads
    /\ q.upto - q.from \in Nat /\ PartLen(hd, q) \in Nat

LEMMA PartCellsIs ==
    ASSUME ChunkAssumption, NEW S \in [AllCsids -> Seq(Msgs)], Announced(S), NEW hd, HeadsFit(S, hd),
           NEW q \in PartRecs, NEW s \in Places, \A c \in AllCsids : PlaceFits(S, c, s[c]),
           NextPart(S, q, s)
    PROVE  /\ PartSizes(hd, q)
           /\ PartCells(S, hd, q) \in Seq(Cells) /\ Len(PartCells(S, hd, q)) = PartLen(hd, q)
           /\ Spells(S, hd, PartCells(S, hd, q), 0, q)
<1>1. q.c \in AllCsids /\ q.num \in Nat \ {0} /\ q.from \in Nat /\ q.upto \in Nat
  BY DEF PartRecs
<1>2. /\ q.num \in 1 .. Len(S[q.c]) /\ S[q.c][q.num].body \in Seq(Cells)
      /\ q.from <= q.upto /\ q.upto <= Len(S[q.c][q.num].body)
  BY NextIs
<1>3. hd[q.c][q.num] \in [fmt : 0 .. 3, head : Heads]
  <2>1. hd[q.c] \in Seq([fmt : 0 .. 3, head : Heads]) /\ Len(hd[q.c]) = Len(S[q.c])
    BY <1>1 DEF HeadsFit
  <2>2. q.num \in 1 .. Len(hd[q.c])
    BY <1>2, <2>1
  <2> QED
    BY <2>1, <2>2, ElementOfSeq
<1>4. Fmt(hd, q) \in 0 .. 3 /\ HeadAt(hd, q) \in Heads
  BY <1>3 DEF Fmt, HeadAt
<1>5. ExtStamp \in Nat \ {0}
  BY DEF ChunkAssumption
<1>6. BLen(q.c) \in 1 .. 2 /\ HeadLen[Fmt(hd, q)] \in 0 .. 4 /\ ELen(HeadAt(hd, q)) \in {0, 2}
  BY <1>1, <1>4, <1>5, BasicIs, HeadLenIs, ExtIs
<1>7. PartLen(hd, q) \in Nat
  <2>1. PICK x \in Nat : x = BLen(q.c)
    BY <1>6
  <2>2. PICK y \in Nat : y = HeadLen[Fmt(hd, q)]
    BY <1>6
  <2>3. PICK z \in Nat : z = ELen(HeadAt(hd, q))
    BY <1>6
  <2>4. PICK n \in Nat : n = q.upto - q.from
    BY <1>1, <1>2
  <2>5. PartLen(hd, q) = x + y + z + n
    BY <2>1, <2>2, <2>3, <2>4 DEF PartLen, PayFrom, ExtFrom, HeadFrom
  <2> QED
    BY <2>5
<1>8. PICK b : b = S[q.c][q.num].body
  OBVIOUS
<1>9. PICK f \in 0 .. 3 : f = Fmt(hd, q)
  BY <1>4
<1>10. PICK h \in Heads : h = HeadAt(hd, q)
  BY <1>4
<1>11. /\ b \in Seq(Cells) /\ q.upto <= Len(b)
       /\ PartCells(S, hd, q) = ChunkOf(q.c, f, h, b, q.from, q.upto)
  BY <1>2, <1>8, <1>9, <1>10 DEF PartCells
<1>12. IsChunk(ChunkOf(q.c, f, h, b, q.from, q.upto), q.c, f, h, b, q.from, q.upto)
  BY <1>1, <1>2, <1>5, <1>11, ChunkIs
<1> DEFINE d == PartCells(S, hd, q)
<1>13. IsChunk(d, q.c, f, h, b, q.from, q.upto)
  BY <1>11, <1>12
<1> HIDE DEF d
<1>14. PICK x \in Nat : x = BLen(q.c)
  BY <1>6
<1>15. PICK y \in Nat : y = HeadLen[f]
  BY <1>6, <1>9
<1>16. PICK z \in Nat : z = ELen(h)
  BY <1>6, <1>10
<1>17. q.upto - q.from \in Nat
  BY <1>1, <1>2
<1>18. HeadFrom(q) = x /\ ExtFrom(hd, q) = x + y /\ PayFrom(hd, q) = x + y + z
       /\ PartLen(hd, q) = x + y + z + (q.upto - q.from)
  BY <1>9, <1>10, <1>14, <1>15, <1>16 DEF HeadFrom, ExtFrom, PayFrom, PartLen
<1>19. d \in Seq(Cells) /\ Len(d) = PartLen(hd, q)
  BY <1>13, <1>14, <1>15, <1>16, <1>18 DEF IsChunk
<1>20. /\ \A j \in 1 .. BLen(q.c) : d[0 + j] = BasicCells(q.c, Fmt(hd, q))[j]
       /\ \A j \in 1 .. HeadLen[Fmt(hd, q)] : d[0 + HeadFrom(q) + j].v = HeadField(HeadAt(hd, q), j)
  BY <1>9, <1>10, <1>13, <1>14, <1>15, <1>18 DEF IsChunk
<1>21. ELen(HeadAt(hd, q)) = 2 =>
          /\ d[0 + ExtFrom(hd, q) + 1].v = HeadAt(hd, q).ts \div ExtStamp
          /\ d[0 + ExtFrom(hd, q) + 2].v = HeadAt(hd, q).ts % ExtStamp
  <2>1. ELen(h) = 2 => /\ d[x + y + 1].v = h.ts \div ExtStamp
                       /\ d[x + y + 2].v = h.ts % ExtStamp
    BY <1>13, <1>14, <1>15, ZenonT(30) DEF IsChunk
  <2>2. 0 + ExtFrom(hd, q) + 1 = x + y + 1 /\ 0 + ExtFrom(hd, q) + 2 = x + y + 2
    BY <1>18
  <2> QED
    BY <1>10, <2>1, <2>2, ZenonT(30)
<1>22. \A j \in 1 .. (q.upto - q.from) : d[0 + PayFrom(hd, q) + j] = S[q.c][q.num].body[q.from + j]
  BY <1>8, <1>13, <1>14, <1>15, <1>16, <1>17, <1>18 DEF IsChunk
<1>23. Spells(S, hd, d, 0, q)
  BY <1>20, <1>21, <1>22 DEF Spells
<1> QED
  BY <1>4, <1>6, <1>7, <1>17, <1>19, <1>23 DEF PartSizes, d

\* The places a part goes on from, and those it leaves, are places of messages.
LEMMA PartsAppend ==
    ASSUME ChunkAssumption, NEW S \in [AllCsids -> Seq(Msgs)], Announced(S),
           NEW Q, NEW at, PartsFit(S, Q, at), NEW q \in PartRecs, NextPart(S, q, at[Len(Q)])
    PROVE  PartsFit(S, Append(Q, q), Longer(at, Len(Q), After(q, at[Len(Q)])))
<1> DEFINE n == Len(Q)
           R == Append(Q, q)
           s == at[n]
           t == After(q, s)
           bt == Longer(at, n, t)
<1>1. /\ Q \in Seq(PartRecs) /\ at \in [0 .. n -> Places] /\ n \in Nat
      /\ \A c \in AllCsids : at[0][c].num = 0
      /\ \A i \in 0 .. n : \A c \in AllCsids : PlaceFits(S, c, at[i][c])
      /\ \A i \in 1 .. n : NextPart(S, Q[i], at[i - 1]) /\ at[i] = After(Q[i], at[i - 1])
  BY DEF PartsFit
<1>2. s \in Places /\ \A c \in AllCsids : PlaceFits(S, c, s[c])
  BY <1>1
<1>3. q.c \in AllCsids /\ q.num \in Nat /\ q.upto \in Nat /\ [num |-> q.num, upto |-> q.upto] \in Place
  BY DEF PartRecs, Place
<1>4. t \in Places
  BY <1>2, <1>3 DEF After, Places, Place
<1>5. /\ t[q.c] = [num |-> q.num, upto |-> q.upto]
      /\ \A c \in AllCsids : c # q.c => t[c] = s[c]
  BY <1>2, <1>3 DEF After, Places
<1>6. \A c \in AllCsids : PlaceFits(S, c, t[c])
  <2>1. PlaceFits(S, q.c, t[q.c])
    <3>1. /\ q.num \in 1 .. Len(S[q.c]) /\ q.upto <= Len(S[q.c][q.num].body)
          /\ q.upto = 0 => Len(S[q.c][q.num].body) = 0
      BY <1>2, NextIs
    <3> QED
      BY <3>1, <1>5 DEF PlaceFits
  <2> QED
    BY <2>1, <1>2, <1>5
<1>7. /\ R \in Seq(PartRecs) /\ Len(R) = n + 1 /\ R[n + 1] = q
      /\ \A i \in 1 .. n : R[i] = Q[i]
  BY <1>1
<1> HIDE DEF n, R, s, t
<1>8. bt \in [0 .. (n + 1) -> Places] /\ bt[n + 1] = t /\ \A i \in 0 .. n : bt[i] = at[i]
  <2>1. at \in [0 .. n -> Places] /\ n \in Nat /\ t \in Places
    BY <1>1, <1>4
  <2> QED
    BY <2>1 DEF Longer
<1>9. NextPart(S, q, s)
  BY DEF s, n
<1> HIDE DEF bt
<1>10. \A i \in 0 .. (n + 1) : i \in 0 .. n \/ i = n + 1
  BY <1>1
<1>11. ASSUME NEW i \in 1 .. (n + 1) PROVE NextPart(S, R[i], bt[i - 1]) /\ bt[i] = After(R[i], bt[i - 1])
  <2>1. CASE i \in 1 .. n
    <3>1. i - 1 \in 0 .. n /\ i \in 0 .. n
      BY <1>1, <2>1
    <3>2. bt[i - 1] = at[i - 1] /\ bt[i] = at[i] /\ R[i] = Q[i]
      BY <1>7, <1>8, <2>1, <3>1
    <3> QED
      BY <1>1, <2>1, <3>2
  <2>2. CASE i = n + 1
    <3>1. i - 1 = n /\ n \in 0 .. n
      BY <1>1, <2>2
    <3>2. bt[i - 1] = s /\ bt[i] = t /\ R[i] = q
      BY <1>7, <1>8, <2>2, <3>1 DEF s
    <3> QED
      BY <1>9, <3>2 DEF t
  <2> QED
    BY <1>1, <2>1, <2>2
<1>12. \A i \in 0 .. (n + 1) : \A c \in AllCsids : PlaceFits(S, c, bt[i][c])
  BY <1>1, <1>6, <1>8, <1>10
<1>13. 0 \in 0 .. n
  BY <1>1
<1>14. PartsFit(S, R, bt)
  BY <1>1, <1>7, <1>8, <1>11, <1>12, <1>13 DEF PartsFit
<1> QED
  BY <1>14 DEF n, R, s, t, bt

\* Only the cells of a part say whether they spell it.
LEMMA SpellsMoved ==
    ASSUME NEW S, NEW hd, NEW A, NEW B, NEW o \in Nat, NEW u \in Nat, NEW q, PartSizes(hd, q),
           \A k \in 1 .. PartLen(hd, q) : B[u + k] = A[o + k], Spells(S, hd, A, o, q)
    PROVE  Spells(S, hd, B, u, q)
<1>1. PICK b \in 1 .. 2 : b = BLen(q.c)
  BY DEF PartSizes
<1>2. PICK l \in 0 .. 4 : l = HeadLen[Fmt(hd, q)]
  BY DEF PartSizes
<1>3. PICK e \in 0 .. 2 : e = ELen(HeadAt(hd, q)) /\ (e = 2 \/ e = 0)
  BY DEF PartSizes
<1>4. PICK p \in Nat : p = q.upto - q.from
  BY DEF PartSizes
<1>5. /\ HeadFrom(q) = b /\ ExtFrom(hd, q) = b + l /\ PayFrom(hd, q) = b + l + e
      /\ PartLen(hd, q) = b + l + e + p
  BY <1>1, <1>2, <1>3, <1>4 DEF HeadFrom, ExtFrom, PayFrom, PartLen
<1>6. \A k \in 1 .. b + l + e + p : B[u + k] = A[o + k]
  BY <1>5
<1>7. \A j \in 1 .. b : B[u + j] = A[o + j]
  BY <1>6
<1>8. \A j \in 1 .. l : B[u + b + j] = A[o + b + j]
  <2> TAKE j \in 1 .. l
  <2>1. b + j \in 1 .. b + l + e + p /\ u + (b + j) = u + b + j /\ o + (b + j) = o + b + j
    OBVIOUS
  <2> QED
    BY <2>1, <1>6
<1>9. e = 2 => B[u + (b + l) + 1] = A[o + (b + l) + 1] /\ B[u + (b + l) + 2] = A[o + (b + l) + 2]
  <2> HAVE e = 2
  <2>1. /\ b + l + 1 \in 1 .. b + l + e + p /\ b + l + 2 \in 1 .. b + l + e + p
        /\ u + (b + l + 1) = u + (b + l) + 1 /\ o + (b + l + 1) = o + (b + l) + 1
        /\ u + (b + l + 2) = u + (b + l) + 2 /\ o + (b + l + 2) = o + (b + l) + 2
    OBVIOUS
  <2>2. B[u + (b + l + 1)] = A[o + (b + l + 1)] /\ B[u + (b + l + 2)] = A[o + (b + l + 2)]
    BY <2>1, <1>6
  <2> QED
    BY <2>1, <2>2
<1>10. \A j \in 1 .. p : B[u + (b + l + e) + j] = A[o + (b + l + e) + j]
  <2> TAKE j \in 1 .. p
  <2>1. /\ b + l + e + j \in 1 .. b + l + e + p
        /\ u + (b + l + e + j) = u + (b + l + e) + j /\ o + (b + l + e + j) = o + (b + l + e) + j
    OBVIOUS
  <2> QED
    BY <2>1, <1>6
<1>11. \A j \in 1 .. b : B[u + j] = BasicCells(q.c, Fmt(hd, q))[j]
  BY <1>1, <1>7 DEF Spells
<1>12. \A j \in 1 .. l : B[u + HeadFrom(q) + j].v = HeadField(HeadAt(hd, q), j)
  BY <1>2, <1>5, <1>8 DEF Spells
<1>13. ELen(HeadAt(hd, q)) = 2 =>
          /\ B[u + ExtFrom(hd, q) + 1].v = HeadAt(hd, q).ts \div ExtStamp
          /\ B[u + ExtFrom(hd, q) + 2].v = HeadAt(hd, q).ts % ExtStamp
  BY <1>3, <1>5, <1>9 DEF Spells
<1>14. \A j \in 1 .. p : B[u + PayFrom(hd, q) + j] = S[q.c][q.num].body[q.from + j]
  BY <1>4, <1>5, <1>10 DEF Spells
<1> QED
  BY <1>1, <1>2, <1>4, <1>11, <1>12, <1>13, <1>14 DEF Spells

\* Two sequences in a row.
LEMMA ConcatIs ==
    ASSUME NEW V, NEW u \in Seq(V), NEW v \in Seq(V)
    PROVE  /\ u \o v \in Seq(V) /\ Len(u \o v) = Len(u) + Len(v)
           /\ \A j \in 1 .. Len(u) : (u \o v)[j] = u[j]
           /\ \A j \in 1 .. Len(v) : (u \o v)[Len(u) + j] = v[j]
OBVIOUS

LEMMA CellsAppend ==
    ASSUME ChunkAssumption, NEW S \in [AllCsids -> Seq(Msgs)], Announced(S),
           NEW hd, HeadsFit(S, hd), NEW Q, NEW at, PartsFit(S, Q, at),
           NEW A, NEW off, CellsFit(S, hd, A, Q, off),
           NEW q \in PartRecs, NextPart(S, q, at[Len(Q)])
    PROVE  LET d == PartCells(S, hd, q)
           IN  CellsFit(S, hd, A \o d, Append(Q, q), Longer(off, Len(Q), Len(A) + Len(d)))
<1> DEFINE d == PartCells(S, hd, q)
           n == Len(Q)
           R == Append(Q, q)
           B == A \o d
           z == Len(A) + Len(d)
           of == Longer(off, n, z)
<1>1. /\ Q \in Seq(PartRecs) /\ at \in [0 .. n -> Places] /\ n \in Nat
      /\ \A i \in 0 .. n : \A c \in AllCsids : PlaceFits(S, c, at[i][c])
      /\ \A i \in 1 .. n : NextPart(S, Q[i], at[i - 1])
  BY DEF PartsFit
<1>2. /\ A \in Seq(Cells) /\ off \in [0 .. n -> Nat] /\ Len(A) \in Nat
      /\ off[0] = 0 /\ off[n] = Len(A)
      /\ \A i \in 1 .. n : /\ off[i] = off[i - 1] + PartLen(hd, Q[i])
                           /\ off[i] <= Len(A)
                           /\ Spells(S, hd, A, off[i - 1], Q[i])
  BY DEF CellsFit
<1>3. at[n] \in Places /\ \A c \in AllCsids : PlaceFits(S, c, at[n][c])
  BY <1>1
<1>4. /\ d \in Seq(Cells) /\ Len(d) = PartLen(hd, q) /\ Len(d) \in Nat
      /\ PartSizes(hd, q) /\ Spells(S, hd, d, 0, q)
  <2>1. PICK s \in Places : s = at[n]
    BY <1>3
  <2>2. NextPart(S, q, s) /\ \A c \in AllCsids : PlaceFits(S, c, s[c])
    BY <1>3, <2>1
  <2>3. /\ d \in Seq(Cells) /\ Len(d) = PartLen(hd, q)
        /\ PartSizes(hd, q) /\ Spells(S, hd, d, 0, q)
    BY <2>2, PartCellsIs
  <2> HIDE DEF d
  <2> QED
    BY <2>3
<1>5. /\ R \in Seq(PartRecs) /\ Len(R) = n + 1 /\ R[n + 1] = q
      /\ \A i \in 1 .. n : R[i] = Q[i]
  BY <1>1
<1> HIDE DEF d, R, n
<1>6. /\ B \in Seq(Cells) /\ Len(B) = z
      /\ \A k \in 1 .. Len(A) : B[k] = A[k]
      /\ \A k \in 1 .. Len(d) : B[Len(A) + k] = d[k]
  <2>1. A \in Seq(Cells) /\ d \in Seq(Cells)
    BY <1>2, <1>4
  <2> QED
    BY <2>1, ConcatIs
<1>7. z \in Nat
  BY <1>2, <1>4
<1> HIDE DEF z, B
<1>8. of \in [0 .. (n + 1) -> Nat] /\ of[n + 1] = z /\ \A i \in 0 .. n : of[i] = off[i]
  <2>1. off \in [0 .. n -> Nat] /\ n \in Nat /\ z \in Nat
    BY <1>1, <1>2, <1>7
  <2> QED
    BY <2>1 DEF Longer
<1> HIDE DEF of
<1>9. ASSUME NEW i \in 1 .. (n + 1)
      PROVE  /\ of[i] = of[i - 1] + PartLen(hd, R[i])
             /\ of[i] <= Len(B)
             /\ Spells(S, hd, B, of[i - 1], R[i])
  <2>1. CASE i \in 1 .. n
    <3>1. i - 1 \in 0 .. n /\ i \in 0 .. n
      BY <1>1, <2>1
    <3>2. of[i - 1] = off[i - 1] /\ of[i] = off[i] /\ off[i - 1] \in Nat /\ off[i] \in Nat
      BY <1>2, <1>8, <3>1
    <3>3. PICK r \in PartRecs : r = Q[i] /\ r = R[i]
      BY <1>1, <1>5, <2>1
    <3>4. PICK s \in Places : s = at[i - 1]
      BY <1>1, <3>1
    <3>5. NextPart(S, r, s) /\ \A c \in AllCsids : PlaceFits(S, c, s[c])
      BY <1>1, <2>1, <3>1, <3>3, <3>4
    <3>6. PartSizes(hd, r)
      BY <3>5, PartCellsIs
    <3>7. PICK o \in Nat : o = off[i - 1]
      BY <3>2
    <3>8. off[i] = o + PartLen(hd, r) /\ off[i] <= Len(A) /\ Spells(S, hd, A, o, r)
      BY <1>2, <2>1, <3>3, <3>7
    <3>9. PartLen(hd, r) \in Nat
      BY <3>6 DEF PartSizes
    <3>10. \A k \in 1 .. PartLen(hd, r) : B[o + k] = A[o + k]
      <4> TAKE k \in 1 .. PartLen(hd, r)
      <4>1. o + k \in 1 .. Len(A)
        BY <1>2, <3>2, <3>8, <3>9
      <4> QED
        BY <4>1, <1>6
    <3>11. Spells(S, hd, B, o, r)
      BY <3>6, <3>8, <3>10, SpellsMoved
    <3>12. of[i] <= Len(B)
      BY <1>2, <1>4, <1>6, <3>2, <3>8 DEF z
    <3> QED
      BY <3>2, <3>3, <3>7, <3>8, <3>11, <3>12
  <2>2. CASE i = n + 1
    <3>1. i - 1 = n /\ n \in 0 .. n
      BY <1>1, <2>2
    <3>2. of[i - 1] = Len(A) /\ of[i] = z /\ R[i] = q
      BY <1>2, <1>5, <1>8, <2>2, <3>1
    <3>3. PICK o \in Nat : o = Len(A)
      BY <1>2
    <3>4. \A k \in 1 .. PartLen(hd, q) : B[o + k] = d[0 + k]
      BY <1>4, <1>6, <3>3
    <3>5. Spells(S, hd, B, o, q)
      BY <1>4, <3>4, SpellsMoved
    <3>6. z = Len(A) + PartLen(hd, q) /\ z <= Len(B)
      BY <1>4, <1>6, <1>7 DEF z
    <3> QED
      BY <3>2, <3>3, <3>5, <3>6
  <2> QED
    BY <1>1, <2>1, <2>2
<1>10. of[0] = 0 /\ of[Len(R)] = Len(B)
  BY <1>1, <1>2, <1>5, <1>6, <1>8
<1>11. CellsFit(S, hd, B, R, of)
  BY <1>5, <1>6, <1>8, <1>9, <1>10 DEF CellsFit
<1> QED
  BY <1>11 DEF d, R, n, z, B, of

-------------------------------------------------------------------------------
(* The steps of the writers.                                                 *)

\* What the reader has read it has read, whatever is written next.
LEMMA SettledGrows ==
    ASSUME NEW S \in [AllCsids -> Seq(Msgs)], NEW T \in [AllCsids -> Seq(Msgs)], Grows(S, T),
           NEW hd, NEW gd, Grows(hd, gd), NEW c \in AllCsids, Len(hd[c]) = Len(S[c]),
           NEW p \in Place, PlaceFits(S, c, p), Settled(S, hd, c, p)
    PROVE  Settled(T, gd, c, p)
<1>1. p.num \in Nat /\ p.num <= Len(S[c]) /\ Len(S[c]) \in Nat
  BY DEF Place, PlaceFits
<1>2. \A i \in 1 .. Len(S[c]) : T[c][i] = S[c][i] /\ gd[c][i] = hd[c][i]
  BY DEF Grows, Prefix
<1>3. Done(T, c, p) <=> Done(S, c, p)
  BY PlaceGrows
<1>4. CASE p.num = 0
  BY <1>4 DEF Settled, Rests
<1>5. CASE p.num > 0
  <2>1. p.num \in 1 .. Len(S[c])
    BY <1>1, <1>5
  <2>2. T[c][p.num] = S[c][p.num] /\ gd[c][p.num] = hd[c][p.num]
    BY <1>2, <2>1
  <2>3. CASE Done(S, c, p)
    <3>1. Kept(S, c, p.num + 1, 0, received[c], cks[c])
      BY <1>5, <2>3 DEF Settled, Rests
    <3>2. Kept(T, c, p.num + 1, 0, received[c], cks[c])
      <4>1. \A i \in 1 .. (p.num + 1) - 1 : T[c][i] = S[c][i]
        BY <1>1, <1>2
      <4>0. PICK k \in Nat : k = p.num + 1
        BY <1>1
      <4>2. k = p.num + 1 /\ k - 1 = p.num /\ k # 1
        BY <1>1, <1>5, <4>0
      <4>3. Kept(S, c, k, 0, received[c], cks[c])
        BY <3>1, <4>2
      <4>4. \A i \in 1 .. k - 1 : T[c][i] = S[c][i]
        BY <4>1, <4>2
      <4>5. T[c][k - 1] = S[c][k - 1]
        BY <2>2, <4>2
      <4>6. \A j \in 1 .. 0 : cks[c].message[j] = T[c][k].body[j]
        OBVIOUS
      <4>7. Kept(T, c, k, 0, received[c], cks[c])
        BY <4>2, <4>3, <4>4, <4>5, <4>6 DEF Kept
      <4> QED
        BY <4>2, <4>7
    <3> QED
      BY <1>3, <1>5, <2>2, <2>3, <3>2 DEF Settled, Rests
  <2>4. CASE ~Done(S, c, p)
    <3>1. Kept(S, c, p.num, p.upto, received[c], cks[c])
      BY <1>5, <2>4 DEF Settled, Rests
    <3>2. Kept(T, c, p.num, p.upto, received[c], cks[c])
      <4>1. \A i \in 1 .. p.num - 1 : T[c][i] = S[c][i]
        BY <1>1, <1>2
      <4>2. p.num # 1 => T[c][p.num - 1] = S[c][p.num - 1]
        <5> HAVE p.num # 1
        <5>1. p.num - 1 \in 1 .. p.num - 1
          BY <2>1
        <5> QED
          BY <4>1, <5>1
      <4> QED
        BY <3>1, <4>1, <4>2, <2>2 DEF Kept
    <3> QED
      BY <1>3, <1>5, <2>2, <2>4, <3>2 DEF Settled, Rests
  <2> QED
    BY <2>3, <2>4
<1> QED
  BY <1>1, <1>4, <1>5

LEMMA Inside ==
    ASSUME NEW o \in Nat, NEW b \in Nat, NEW l \in Nat, NEW m \in Nat, b + l <= m, NEW j \in 1 .. l
    PROVE  b + j \in 1 .. m /\ o + (b + j) = o + b + j
OBVIOUS

LEMMA ReadingGrows ==
    ASSUME NEW S \in [AllCsids -> Seq(Msgs)], NEW T \in [AllCsids -> Seq(Msgs)], Grows(S, T),
           NEW hd, NEW gd, Grows(hd, gd), NEW q \in PartRecs, q.num \in 1 .. Len(S[q.c]),
           Len(hd[q.c]) = Len(S[q.c]), NEW A, NEW B, NEW o \in Nat, PartSizes(hd, q),
           \A j \in 1 .. PartLen(hd, q) : B[o + j] = A[o + j],
           NEW k \in Nat, cks \in [DOMAIN cks -> StreamRecs], Reading(S, hd, A, o, q, k),
           hd[q.c][q.num].fmt = 0 \/ q.num > 1
    PROVE  Reading(T, gd, B, o, q, k)
<1>1. /\ q.c \in AllCsids /\ Len(S[q.c]) \in Nat
      /\ \A i \in 1 .. Len(S[q.c]) : T[q.c][i] = S[q.c][i] /\ gd[q.c][i] = hd[q.c][i]
  BY DEF Grows, Prefix, PartRecs
<1>2. T[q.c][q.num] = S[q.c][q.num] /\ gd[q.c][q.num] = hd[q.c][q.num]
  BY <1>1
<1>3. q.num > 1 => T[q.c][q.num - 1] = S[q.c][q.num - 1] /\ gd[q.c][q.num - 1] = hd[q.c][q.num - 1]
  <2> HAVE q.num > 1
  <2>1. q.num - 1 \in 1 .. Len(S[q.c])
    BY <1>1
  <2> QED
    BY <1>1, <2>1
<1>4. /\ Fmt(gd, q) = Fmt(hd, q) /\ HeadAt(gd, q) = HeadAt(hd, q)
      /\ ExtFrom(gd, q) = ExtFrom(hd, q) /\ PayFrom(gd, q) = PayFrom(hd, q)
  BY <1>2 DEF Fmt, HeadAt, ExtFrom, PayFrom
<1> DEFINE cs == cks[q.c]
<1>5. /\ q.c \in DOMAIN cks /\ cs \in StreamRecs
      /\ Kept(S, q.c, q.num, q.from + cs.chunkRead, received[q.c], cs)
      /\ cs.fmt = Fmt(hd, q) /\ cs.first = hd[q.c][q.num].fmt
  BY DEF Reading, Within
<1>6. Kept(T, q.c, q.num, q.from + cs.chunkRead, received[q.c], cs)
  <2>1. \A i \in 1 .. q.num - 1 : T[q.c][i] = S[q.c][i]
    BY <1>1
  <2>2. q.num # 1 => q.num > 1
    BY <1>1
  <2> QED
    BY <1>2, <1>3, <1>5, <2>1, <2>2 DEF Kept
<1>7. PICK b \in 1 .. 2 : b = BLen(q.c) /\ HeadFrom(q) = b
  BY DEF PartSizes, HeadFrom
<1>8. PICK l \in 0 .. 4 : l = HeadLen[Fmt(hd, q)] /\ ExtFrom(hd, q) = b + l
  BY <1>7 DEF PartSizes, ExtFrom
<1>9. PICK e \in {0, 2} : e = ELen(HeadAt(hd, q)) /\ PayFrom(hd, q) = b + l + e
  BY <1>8 DEF PartSizes, PayFrom
<1>10. PartLen(hd, q) \in Nat /\ b + l + e <= PartLen(hd, q)
  BY <1>9 DEF PartSizes, PartLen
<1>11. cs.hdr \in Seq(Cells) /\ Len(cs.hdr) \in Nat
  BY <1>5 DEF StreamRecs
<1>12. CASE state = "head"
  <2>1. /\ cs.fmt # 3 /\ cs.chunkRead = 0
        /\ cs.fmt # 0 => HeadIs(cs, hd[q.c][q.num - 1].head)
        /\ k = HeadFrom(q) + Len(cs.hdr) /\ Len(cs.hdr) < HeadLen[cs.fmt]
        /\ \A j \in 1 .. Len(cs.hdr) : cs.hdr[j] = A[o + HeadFrom(q) + j]
    BY <1>12 DEF Reading, Within, AtHead
  <2>2. \A j \in 1 .. Len(cs.hdr) : cs.hdr[j] = B[o + HeadFrom(q) + j]
    <3> TAKE j \in 1 .. Len(cs.hdr)
    <3>a. PICK m \in Nat : m = PartLen(hd, q) /\ b + l <= m
      BY <1>9, <1>10
    <3>b. PICK x \in Nat : x = Len(cs.hdr) /\ x < l
      BY <1>5, <1>8, <1>11, <2>1
    <3>c. j \in 1 .. x
      BY <3>b
    <3>d. j \in 1 .. l
      BY <3>b, <3>c
    <3>1. b + j \in 1 .. m /\ o + (b + j) = o + b + j
      BY <3>a, <3>d, Inside, SMTT(30)
    <3>2. B[o + (b + j)] = A[o + (b + j)]
      BY <3>1, <3>a
    <3> QED
      BY <1>7, <2>1, <3>1, <3>2
  <2>3. cs.fmt # 0 => HeadIs(cs, gd[q.c][q.num - 1].head)
    <3> HAVE cs.fmt # 0
    <3>1. hd[q.c][q.num].fmt # 0
      BY <1>5, <2>1 DEF Fmt
    <3> QED
      BY <1>3, <2>1, <3>1
  <2> QED
    BY <1>2, <1>4, <1>5, <1>6, <1>12, <2>1, <2>2, <2>3 DEF Reading, Within, AtHead
<1>13. CASE state = "ext"
  <2>1. /\ ELen(HeadAt(hd, q)) = 2 /\ cs.chunkRead = 0
        /\ HeadBut(cs, HeadAt(hd, q)) /\ cs.hasExt = TRUE
        /\ k = ExtFrom(hd, q) + Len(cs.hdr) /\ Len(cs.hdr) < 2
        /\ \A j \in 1 .. Len(cs.hdr) : cs.hdr[j] = A[o + ExtFrom(hd, q) + j]
    BY <1>13 DEF Reading, Within, AtExt
  <2>2. \A j \in 1 .. Len(cs.hdr) : cs.hdr[j] = B[o + ExtFrom(hd, q) + j]
    <3> TAKE j \in 1 .. Len(cs.hdr)
    <3>a. PICK m \in Nat : m = PartLen(hd, q) /\ b + l + 2 <= m
      BY <1>9, <1>10, <2>1
    <3>b. j \in 1 .. 1
      BY <1>11, <2>1
    <3>1. b + l + j \in 1 .. m /\ o + (b + l + j) = o + (b + l) + j
      BY <3>a, <3>b, SMTT(30)
    <3>2. B[o + (b + l + j)] = A[o + (b + l + j)]
      BY <3>1, <3>a
    <3> QED
      BY <1>8, <2>1, <3>1, <3>2
  <2> QED
    BY <1>2, <1>4, <1>5, <1>6, <1>13, <2>1, <2>2 DEF Reading, Within, AtExt
<1>14. CASE state = "payload"
  <2>1. /\ HeadIs(cs, HeadAt(hd, q)) /\ cs.hdr = <<>>
        /\ k = PayFrom(hd, q) + cs.chunkRead
        /\ cs.chunkRead < q.upto - q.from \/ (cs.chunkRead = 0 /\ q.upto = q.from)
    BY <1>14 DEF Reading, Within, AtPayload
  <2> QED
    BY <1>2, <1>4, <1>5, <1>6, <1>14, <2>1 DEF Reading, Within, AtPayload
<1> QED
  BY <1>12, <1>13, <1>14 DEF Reading, Within

\* The part q begins after the o-th cell of A and the places s.
PartAt(S, hd, A, o, q, s) ==
    /\ q \in PartRecs /\ s \in Places /\ o \in Nat
    /\ \A c \in AllCsids : PlaceFits(S, c, s[c])
    /\ NextPart(S, q, s)
    /\ q.num \in 1 .. Len(S[q.c])
    /\ PartSizes(hd, q) /\ Spells(S, hd, A, o, q)
    /\ o + PartLen(hd, q) <= Len(A)
    /\ hd[q.c][q.num] \in [fmt : 0 .. 3, head : Heads] /\ Len(hd[q.c]) = Len(S[q.c])
    /\ HeadFits(S, hd, q.c, q.num)

LEMMA PartIs ==
    ASSUME ChunkAssumption, NEW S \in [AllCsids -> Seq(Msgs)],
           NEW hd, NEW A, NEW Q, NEW off, NEW at, History(S, hd, A, Q, off, at),
           NEW n \in 0 .. Len(Q), n < Len(Q)
    PROVE  PartAt(S, hd, A, off[n], Q[n + 1], at[n]) /\ off[n + 1] = off[n] + PartLen(hd, Q[n + 1])
<1>1. /\ Q \in Seq(PartRecs) /\ at \in [0 .. Len(Q) -> Places] /\ Len(Q) \in Nat
      /\ \A i \in 0 .. Len(Q) : \A c \in AllCsids : PlaceFits(S, c, at[i][c])
      /\ \A i \in 1 .. Len(Q) : NextPart(S, Q[i], at[i - 1])
  BY DEF History, PartsFit
<1>2. n + 1 \in 1 .. Len(Q) /\ (n + 1) - 1 = n
  BY <1>1
<1>3. PICK q \in PartRecs : q = Q[n + 1]
  BY <1>1, <1>2
<1>4. PICK s \in Places : s = at[n]
  BY <1>1
<1>5. NextPart(S, q, s) /\ \A c \in AllCsids : PlaceFits(S, c, s[c])
  BY <1>1, <1>2, <1>3, <1>4
<1>6. /\ off \in [0 .. Len(Q) -> Nat] /\ A \in Seq(Cells)
      /\ off[n + 1] = off[n] + PartLen(hd, q) /\ off[n + 1] <= Len(A)
      /\ Spells(S, hd, A, off[n], q)
  BY <1>2, <1>3 DEF History, CellsFit
<1>7. Announced(S) /\ HeadsFit(S, hd)
  BY DEF History
<1>8. PartSizes(hd, q) /\ q.num \in 1 .. Len(S[q.c])
  BY <1>5, <1>7, PartCellsIs, NextIs
<1>9. q.c \in AllCsids
  BY DEF PartRecs
<1>10. hd[q.c] \in Seq([fmt : 0 .. 3, head : Heads]) /\ Len(hd[q.c]) = Len(S[q.c])
       /\ HeadFits(S, hd, q.c, q.num)
  BY <1>7, <1>8, <1>9 DEF HeadsFit
<1>11. hd[q.c][q.num] \in [fmt : 0 .. 3, head : Heads]
  BY <1>8, <1>10, ElementOfSeq
<1>12. off[n] \in Nat
  BY <1>6
<1>13. PartAt(S, hd, A, off[n], q, s)
  BY <1>5, <1>6, <1>8, <1>10, <1>11, <1>12 DEF PartAt
<1> QED
  BY <1>3, <1>4, <1>6, <1>13

\* More cells, parts and places after those there were.
Further(A, Q, off, at, B, R, of, bt) ==
    /\ R \in Seq(PartRecs)
    /\ Len(Q) <= Len(R) /\ \A i \in 1 .. Len(Q) : R[i] = Q[i]
    /\ \A i \in 0 .. Len(Q) : bt[i] = at[i] /\ of[i] = off[i]
    /\ \A j \in 1 .. Len(A) : B[j] = A[j]

LEMMA ReaderGrows ==
    ASSUME ChunkAssumption, NEW S \in [AllCsids -> Seq(Msgs)], NEW T \in [AllCsids -> Seq(Msgs)],
           Grows(S, T), NEW hd, NEW gd, Grows(hd, gd),
           NEW A, NEW Q, NEW off, NEW at, History(S, hd, A, Q, off, at),
           NEW B, NEW R, NEW of, NEW bt, Further(A, Q, off, at, B, R, of, bt),
           NEW n, NEW k, cks \in [DOMAIN cks -> StreamRecs], Reader(S, hd, A, Q, off, at, n, k)
    PROVE  Reader(T, gd, B, R, of, bt, n, k)
<1>1. /\ Q \in Seq(PartRecs) /\ Len(Q) \in Nat /\ at \in [0 .. Len(Q) -> Places]
      /\ \A i \in 0 .. Len(Q) : \A c \in AllCsids : PlaceFits(S, c, at[i][c])
      /\ \A c \in AllCsids : Len(hd[c]) = Len(S[c])
      /\ A \in Seq(Cells) /\ Len(A) \in Nat
  BY DEF History, PartsFit, HeadsFit, CellsFit
<1>2. /\ R \in Seq(PartRecs) /\ Len(R) \in Nat /\ Len(Q) <= Len(R)
      /\ \A i \in 1 .. Len(Q) : R[i] = Q[i]
      /\ \A i \in 0 .. Len(Q) : bt[i] = at[i] /\ of[i] = off[i]
      /\ \A j \in 1 .. Len(A) : B[j] = A[j]
  BY DEF Further
<1>3. n \in 0 .. Len(Q) /\ k \in Nat /\ headCache \in Seq(Cells)
  BY DEF Reader
<1>4. bt[n] = at[n] /\ of[n] = off[n] /\ n \in 0 .. Len(R)
  BY <1>1, <1>2, <1>3
<1>5. PICK s \in Places : s = at[n] /\ \A c \in AllCsids : PlaceFits(S, c, s[c])
  BY <1>1, <1>3
<1>6. Ctrl \in AllCsids /\ \A c \in AllCsids : s[c] \in Place
  BY DEF AllCsids, Places, Place
<1>7. SizeAfter(T, s[Ctrl].num) = SizeAfter(S, s[Ctrl].num)
  <2>1. s[Ctrl].num \in 0 .. Len(S[Ctrl])
    BY <1>5, <1>6 DEF PlaceFits, Place
  <2> QED
    BY <2>1, SizeGrows
<1>8. ASSUME NEW c \in AllCsids, state = "basic" \/ c # current
      PROVE  Settled(T, gd, c, s[c])
  <2>1. Settled(S, hd, c, s[c])
    BY <1>5, <1>8 DEF Reader
  <2>2. s[c] \in Place /\ PlaceFits(S, c, s[c]) /\ Len(hd[c]) = Len(S[c])
    BY <1>1, <1>5, <1>6
  <2> QED
    BY <2>1, <2>2, SettledGrows
<1>9. n < Len(Q) => /\ n + 1 \in 1 .. Len(Q) /\ R[n + 1] = Q[n + 1] /\ n < Len(R)
                    /\ PartAt(S, hd, A, off[n], Q[n + 1], at[n])
  <2> HAVE n < Len(Q)
  <2>1. n + 1 \in 1 .. Len(Q) /\ n < Len(R)
    BY <1>1, <1>2, <1>3
  <2>2. PartAt(S, hd, A, off[n], Q[n + 1], at[n])
    BY <1>3, PartIs
  <2> QED
    BY <1>2, <2>1, <2>2
<1>10. ASSUME state = "basic"
       PROVE  /\ IF n = Len(R) THEN k = 0 ELSE k < BLen(R[n + 1].c)
              /\ \A j \in 1 .. k : headCache[j] = B[of[n] + j]
  <2>1. IF n = Len(Q) THEN k = 0 ELSE k < BLen(Q[n + 1].c)
    BY <1>10 DEF Reader
  <2>2. \A j \in 1 .. k : headCache[j] = A[off[n] + j]
    BY <1>10 DEF Reader
  <2>3. CASE n = Len(Q)
    <3>1. n < Len(R) => R[n + 1].c \in AllCsids
      <4> HAVE n < Len(R)
      <4>1. n + 1 \in 1 .. Len(R)
        BY <1>2, <1>4
      <4>2. R[n + 1] \in PartRecs
        BY <4>1, <1>2
      <4> QED
        BY <4>2 DEF PartRecs
    <3>2. n < Len(R) => BLen(R[n + 1].c) > 0
      BY DEF BLen
    <3>3. k = 0
      BY <2>1, <2>3
    <3> QED
      BY <1>2, <1>3, <2>3, <3>2, <3>3
  <2>4. CASE n < Len(Q)
    <3>1. PICK q \in PartRecs : q = Q[n + 1] /\ q = R[n + 1] /\ PartAt(S, hd, A, off[n], q, at[n])
      BY <1>9, <2>4 DEF PartAt
    <3>2. k < BLen(q.c)
      BY <2>1, <2>4, <3>1
    <3>3. PICK o \in Nat : o = off[n]
      BY <3>1 DEF PartAt
    <3>4. o + PartLen(hd, q) <= Len(A) /\ PartSizes(hd, q)
      BY <3>1, <3>3 DEF PartAt
    <3>5. PICK b \in 1 .. 2 : b = BLen(q.c)
      BY <3>4 DEF PartSizes
    <3>6. o + b <= Len(A)
      <4>1. PICK l \in Nat : l = HeadLen[Fmt(hd, q)]
        BY <3>4 DEF PartSizes
      <4>2. PICK e \in Nat : e = ELen(HeadAt(hd, q))
        BY <3>4 DEF PartSizes
      <4>3. PICK p \in Nat : p = q.upto - q.from
        BY <3>4 DEF PartSizes
      <4>4. PartLen(hd, q) = b + l + e + p
        BY <3>5, <4>1, <4>2, <4>3 DEF PartLen, PayFrom, ExtFrom, HeadFrom
      <4>5. PICK a \in Nat : a = Len(A)
        BY <1>1
      <4>6. o + (b + l + e + p) <= a
        BY <3>4, <4>4, <4>5
      <4>7. o + b <= a
        BY <4>6
      <4> QED
        BY <4>5, <4>7
    <3>7. \A j \in 1 .. k : B[o + j] = A[o + j]
      <4> TAKE j \in 1 .. k
      <4>1. o + j \in 1 .. Len(A)
        BY <1>1, <1>3, <3>2, <3>5, <3>6
      <4> QED
        BY <4>1, <1>2
    <3> QED
      BY <1>2, <1>3, <1>4, <2>2, <2>4, <3>1, <3>2, <3>3, <3>7
  <2> QED
    BY <1>1, <1>3, <2>3, <2>4
<1>11. ASSUME state # "basic"
       PROVE  n < Len(R) /\ current = R[n + 1].c /\ Reading(T, gd, B, of[n], R[n + 1], k)
  <2>1. n < Len(Q) /\ current = Q[n + 1].c /\ Reading(S, hd, A, off[n], Q[n + 1], k)
    BY <1>11 DEF Reader
  <2>2. PICK q \in PartRecs : q = Q[n + 1] /\ q = R[n + 1] /\ PartAt(S, hd, A, off[n], q, at[n])
    BY <1>9, <2>1 DEF PartAt
  <2>3. PICK o \in Nat : o = off[n] /\ o = of[n]
    BY <1>4, <2>2 DEF PartAt
  <2>4. /\ o + PartLen(hd, q) <= Len(A) /\ PartSizes(hd, q) /\ q.num \in 1 .. Len(S[q.c])
        /\ Len(hd[q.c]) = Len(S[q.c]) /\ (hd[q.c][q.num].fmt = 0 \/ q.num > 1)
    BY <2>2, <2>3 DEF PartAt, HeadFits
  <2>5. \A j \in 1 .. PartLen(hd, q) : B[o + j] = A[o + j]
    <3> TAKE j \in 1 .. PartLen(hd, q)
    <3>1. PICK p \in Nat : p = PartLen(hd, q)
      BY <2>4 DEF PartSizes
    <3>2. o + j \in 1 .. Len(A)
      BY <1>1, <2>4, <3>1
    <3> QED
      BY <3>2, <1>2
  <2>6. Reading(S, hd, A, o, q, k)
    BY <2>1, <2>2, <2>3
  <2>7. Reading(T, gd, B, o, q, k)
    BY <1>3, <2>4, <2>5, <2>6, ReadingGrows
  <2> QED
    BY <1>9, <2>1, <2>2, <2>3, <2>7
<1>12. Len(headCache) = (IF state = "basic" THEN k ELSE 0)
  BY DEF Reader
<1>13. readSize = SizeAfter(T, bt[n][Ctrl].num)
  BY <1>4, <1>5, <1>7 DEF Reader
<1> QED
  BY <1>3, <1>4, <1>5, <1>8, <1>10, <1>11, <1>12, <1>13 DEF Reader

\* A step that does not touch the reader, or only its input.
LEMMA ReaderStays ==
    ASSUME UNCHANGED <<state, headCache, current, cks, readSize, received>>,
           NEW S, NEW hd, NEW A, NEW Q, NEW off, NEW at, NEW n, NEW k,
           Reader(S, hd, A, Q, off, at, n, k)
    PROVE  Reader(S, hd, A, Q, off, at, n, k)'
<1>1. /\ headCache' = headCache /\ current' = current /\ state' = state /\ readSize' = readSize
      /\ cks' = cks /\ received' = received
  OBVIOUS
<1>2. ASSUME NEW c, NEW p PROVE Settled(S, hd, c, p)' <=> Settled(S, hd, c, p)
  BY <1>1 DEF Settled
<1>3. ASSUME NEW o, NEW q, NEW i PROVE Reading(S, hd, A, o, q, i)' <=> Reading(S, hd, A, o, q, i)
  BY <1>1 DEF Reading
<1> QED
  BY <1>1, <1>2, <1>3 DEF Reader

LEMMA ReaderSame ==
    ASSUME UNCHANGED readerVars, NEW S, NEW hd, NEW A, NEW Q, NEW off, NEW at, NEW n, NEW k,
           Reader(S, hd, A, Q, off, at, n, k)
    PROVE  Reader(S, hd, A, Q, off, at, n, k)'
<1>1. UNCHANGED <<state, headCache, current, cks, readSize, received>>
  BY DEF readerVars
<1> QED
  BY <1>1, ReaderStays

\* Where the chunks of a message of length l begin, of size z each.
CutAt(z, l, j) == Cut((j - 1) * z, l)

LEMMA Times ==
    ASSUME NEW a \in Nat, NEW b \in Nat, a <= b, NEW z \in Nat
    PROVE  a * z <= b * z
<1>1. PICK d \in Nat : b = a + d
  <2>1. b - a \in Nat /\ b = a + (b - a)
    OBVIOUS
  <2> QED
    BY <2>1
<1>2. b * z = a * z + d * z
  BY <1>1
<1>3. d * z \in Nat /\ a * z \in Nat
  OBVIOUS
<1> QED
  BY <1>2, <1>3

\* The number of chunks is right (writeData).
LEMMA CountFits ==
    ASSUME NEW l \in Nat \ {0}, NEW z \in Nat \ {0}
    PROVE  LET n == (l + z - 1) \div z
           IN  n \in Nat \ {0} /\ (n - 1) * z < l /\ l <= n * z
<1> DEFINE n == (l + z - 1) \div z
           r == (l + z - 1) % z
<1>1. l + z - 1 \in Nat
  OBVIOUS
<1>2. n \in Nat /\ r \in 0 .. (z - 1) /\ n * z + r = l + z - 1
  BY <1>1, DivMod
<1> HIDE DEF n, r
<1>3. n * z >= l
  BY <1>2
<1>4. n # 0
  <2> SUFFICES ASSUME n = 0 PROVE FALSE
    OBVIOUS
  <2>1. n * z = 0
    OBVIOUS
  <2> QED
    BY <1>3, <2>1
<1>5. (n - 1) * z = n * z - z
  BY <1>2
<1> QED
  BY <1>2, <1>3, <1>4, <1>5 DEF n

LEMMA CutsAre ==
    ASSUME NEW z \in Nat \ {0}, NEW l \in Nat, NEW n \in Nat \ {0},
           n = 1 \/ (n - 1) * z < l, l <= n * z
    PROVE  /\ CutAt(z, l, 1) = 0 /\ CutAt(z, l, n + 1) = l
           /\ \A j \in 1 .. n :
                 /\ CutAt(z, l, j) = (j - 1) * z /\ CutAt(z, l, j) \in Nat
                 /\ CutAt(z, l, j + 1) = Cut(CutAt(z, l, j) + z, l)
                 /\ j > 1 => 0 < CutAt(z, l, j) /\ CutAt(z, l, j) < l
<1>1. CutAt(z, l, 1) = 0
  <2>1. (1 - 1) * z = 0
    OBVIOUS
  <2> QED
    BY <2>1 DEF CutAt, Cut
<1>2. CutAt(z, l, n + 1) = l
  <2>1. n * z \in Nat /\ (n + 1) - 1 = n
    OBVIOUS
  <2> QED
    BY <2>1 DEF CutAt, Cut
<1>3. ASSUME NEW j \in 1 .. n
      PROVE  /\ CutAt(z, l, j) = (j - 1) * z /\ CutAt(z, l, j) \in Nat
             /\ CutAt(z, l, j + 1) = Cut(CutAt(z, l, j) + z, l)
             /\ j > 1 => 0 < CutAt(z, l, j) /\ CutAt(z, l, j) < l
  <2>1. PICK a \in Nat : a = j - 1
    OBVIOUS
  <2>2. j = a + 1 /\ a <= n - 1 /\ n - 1 \in Nat
    BY <2>1
  <2>3. a * z \in Nat /\ (a + 1) * z = a * z + z
    OBVIOUS
  <2>4. CASE a = 0
    <3>1. a * z = 0
      BY <2>4
    <3>2. CutAt(z, l, j) = 0
      BY <1>1, <2>2, <2>4
    <3>3. CutAt(z, l, j + 1) = Cut(z, l)
      BY <2>2, <2>3, <3>1 DEF CutAt
    <3> QED
      BY <2>1, <2>2, <2>4, <3>1, <3>2, <3>3
  <2>5. CASE a > 0
    <3>1. n # 1
      BY <2>2, <2>5
    <3>2. a * z <= (n - 1) * z
      BY <2>2, Times
    <3>3. 1 * z <= a * z
      BY <2>5, Times
    <3>4. (n - 1) * z \in Nat
      BY <2>2
    <3>5. 0 < a * z /\ a * z < l
      BY <2>3, <3>1, <3>2, <3>3, <3>4
    <3>6. CutAt(z, l, j) = a * z
      BY <2>1, <2>3, <3>5 DEF CutAt, Cut
    <3>7. CutAt(z, l, j + 1) = Cut(a * z + z, l)
      <4>1. (j + 1) - 1 = a + 1
        BY <2>2
      <4> QED
        BY <2>3, <4>1 DEF CutAt
    <3> QED
      BY <2>1, <2>3, <3>5, <3>6, <3>7
  <2> QED
    BY <2>4, <2>5
<1> QED
  BY <1>1, <1>2, <1>3

\* What is queued of a chunk stream is the same when others are written to.
LEMMA QueueSame ==
    ASSUME NEW S, NEW T, NEW hd, NEW gd, NEW c, T[c] = S[c], gd[c] = hd[c],
           SizeAfter(T, Len(T[Ctrl])) = SizeAfter(S, Len(S[Ctrl])), NEW p, NEW qs,
           QueueFits(S, hd, c, p, qs)
    PROVE  QueueFits(T, gd, c, p, qs)
<1>1. Done(T, c, p) <=> Done(S, c, p)
  BY DEF Done
<1>2. ASSUME NEW cut, Pending(S, hd, c, p, qs, cut) PROVE Pending(T, gd, c, p, qs, cut)
  BY <1>1, <1>2 DEF Pending
<1> QED
  BY <1>1, <1>2 DEF QueueFits

\* The chunks of a message (writeData).
LEMMA ChunksPending ==
    ASSUME ChunkAssumption, NEW T \in [AllCsids -> Seq(Msgs)], NEW gd, NEW c \in AllCsids,
           NEW m \in Msgs, NEW w \in WriterRecs,
           Len(T[c]) > 0, T[c][Len(T[c])] = m, gd[c][Len(T[c])] = Entry(w, m),
           w.size = SizeAfter(T, Len(T[Ctrl])), peer \in {"own", "foreign"},
           m.body = <<>> => peer = "foreign",
           NEW p \in Place, p.num = Len(T[c]) - 1, Done(T, c, p)
    PROVE  QueueFits(T, gd, c, p, Chunks(c, w, m)) /\ Chunks(c, w, m) \in Seq(Seq(Cells)) /\ Count(w, m) # 0
<1> DEFINE num == Len(T[c])
           n == Count(w, m)
           qs == Chunks(c, w, m)
<1>1. m.body \in Seq(Cells)
  BY DEF Msgs
<1>2. PICK l \in Nat : l = Len(m.body)
  BY <1>1
<1>3. PICK z \in Nat \ {0} : z = w.size
  BY DEF WriterRecs
<1>4. n \in Nat \ {0} /\ (n = 1 \/ (n - 1) * z < l) /\ l <= n * z
  <2>1. CASE l = 0
    <3>1. m.body = <<>>
      BY <1>1, <1>2, <2>1, EmptySeq
    <3>2. n = 1
      BY <3>1 DEF Count
    <3> HIDE DEF n
    <3> QED
      BY <2>1, <3>2
  <2>2. CASE l # 0
    <3>1. n = (l + z - 1) \div z
      BY <1>1, <1>2, <1>3, <2>2 DEF Count
    <3> HIDE DEF n
    <3> QED
      BY <2>2, <3>1, CountFits
  <2> QED
    BY <2>1, <2>2
<1> DEFINE cut == [j \in 1 .. n + 1 |-> CutAt(z, l, j)]
<1> HIDE DEF n
<1>5. /\ CutAt(z, l, 1) = 0 /\ CutAt(z, l, n + 1) = l
      /\ \A j \in 1 .. n :
            /\ CutAt(z, l, j) = (j - 1) * z /\ CutAt(z, l, j) \in Nat
            /\ CutAt(z, l, j + 1) = Cut(CutAt(z, l, j) + z, l)
            /\ j > 1 => 0 < CutAt(z, l, j) /\ CutAt(z, l, j) < l
  BY <1>4, CutsAre
<1>6. /\ cut[1] = 0 /\ cut[n + 1] = l
      /\ \A j \in 1 .. n :
            /\ cut[j] = (j - 1) * z /\ cut[j] \in Nat
            /\ cut[j + 1] = Cut(cut[j] + z, l)
            /\ j > 1 => 0 < cut[j] /\ cut[j] < l
      /\ cut \in [1 .. n + 1 -> Nat]
  <2>1. \A j \in 1 .. n : j \in 1 .. n + 1 /\ j + 1 \in 1 .. n + 1
    BY <1>4
  <2>2. 1 \in 1 .. n + 1 /\ n + 1 \in 1 .. n + 1
    BY <1>4
  <2>3. \A j \in 1 .. n + 1 : cut[j] = CutAt(z, l, j)
    OBVIOUS
  <2>4. \A j \in 1 .. n + 1 : j \in 1 .. n \/ j = n + 1
    BY <1>4
  <2>5. \A j \in 1 .. n + 1 : CutAt(z, l, j) \in Nat
    BY <1>5, <2>4
  <2>6. cut \in [1 .. n + 1 -> Nat]
    BY <2>5
  <2> HIDE DEF cut
  <2> QED
    BY <1>5, <2>1, <2>2, <2>3, <2>6
<1>7. DOMAIN qs = 1 .. n /\ Len(qs) = n
  <2>1. DOMAIN qs = 1 .. n
    BY DEF Chunks, n
  <2> QED
    BY <1>4, <2>1 DEF Chunks, n
<1>8. ASSUME NEW j \in 1 .. n
      PROVE  qs[j] = HeadCells(c, IF cut[j] = 0 THEN gd[c][num].fmt ELSE 3, gd[c][num].head)
                     \o SubSeq(m.body, cut[j] + 1, cut[j + 1])
  <2>1. qs[j] = HeadCells(c, IF j = 1 THEN Format(w, m) ELSE 3, HeadOf(w, m))
                \o SubSeq(m.body, (j - 1) * z + 1, IF j * z <= l THEN j * z ELSE l)
    BY <1>2, <1>3 DEF Chunks, n
  <2>2. gd[c][num].fmt = Format(w, m) /\ gd[c][num].head = HeadOf(w, m)
    BY DEF Entry
  <2>3. cut[j] = 0 <=> j = 1
    <3>1. j = 1 \/ j > 1
      OBVIOUS
    <3> HIDE DEF cut
    <3> QED
      BY <1>6, <3>1
  <2>4. cut[j] = (j - 1) * z
    BY <1>6
  <2>5. cut[j + 1] = IF j * z <= l THEN j * z ELSE l
    <3>1. PICK a \in Nat : a = (j - 1) * z
      BY <1>6
    <3>2. j * z = a + z
      BY <1>4, <3>1
    <3>3. cut[j + 1] = Cut(a + z, l)
      BY <1>6, <3>1
    <3> HIDE DEF cut
    <3> QED
      BY <3>2, <3>3 DEF Cut
  <2> HIDE DEF cut, qs
  <2> QED
    BY <2>1, <2>2, <2>3, <2>4, <2>5
<1>9. T[c][num].body = m.body /\ num \in Nat
  OBVIOUS
<1>10. ASSUME NEW j \in 1 .. n PROVE qs[j] \in Seq(Cells)
  <2>1. PICK from \in Nat : from = cut[j] /\ from <= l
    <3>1. j = 1 \/ j > 1
      OBVIOUS
    <3> HIDE DEF cut
    <3> QED
      BY <1>6, <3>1
  <2>2. PICK upto \in Nat : upto = cut[j + 1] /\ from <= upto /\ upto <= l
    <3>1. cut[j + 1] = Cut(from + z, l)
      BY <1>6, <2>1
    <3>2. Cut(from + z, l) \in Nat /\ from <= Cut(from + z, l) /\ Cut(from + z, l) <= l
      BY <2>1 DEF Cut
    <3> HIDE DEF cut
    <3> QED
      BY <3>1, <3>2
  <2>3. PICK f \in 0 .. 3 : f = IF from = 0 THEN gd[c][num].fmt ELSE 3
    BY FormatIs DEF Entry
  <2>4. gd[c][num].head \in Heads
    BY FormatIs DEF Entry
  <2>5. qs[j] = ChunkOf(c, f, gd[c][num].head, m.body, from, upto)
    <3> HIDE DEF cut, qs
    <3> QED
      BY <1>8, <2>1, <2>2, <2>3 DEF ChunkOf
  <2>6. ExtStamp \in Nat \ {0}
    BY DEF ChunkAssumption
  <2> HIDE DEF cut, qs
  <2>7. IsChunk(ChunkOf(c, f, gd[c][num].head, m.body, from, upto), c, f, gd[c][num].head, m.body, from, upto)
    BY <1>1, <1>2, <2>1, <2>2, <2>4, <2>6, ChunkIs
  <2> QED
    BY <2>5, <2>7 DEF IsChunk
<1>11. qs \in Seq(Seq(Cells))
  <2>1. qs \in [1 .. n -> Seq(Cells)]
    <3>1. qs = [j \in 1 .. n |-> qs[j]]
      BY DEF Chunks, n
    <3> HIDE DEF qs
    <3> QED
      BY <1>10, <3>1
  <2> HIDE DEF qs, cut
  <2>2. n \in Nat
    BY <1>4
  <2> QED
    BY <2>1, <2>2, SeqDef
<1> HIDE DEF cut, qs
<1>12. Pending(T, gd, c, p, qs, cut)
  <2>1. cut \in [1 .. Len(qs) + 1 -> Nat] /\ cut[Len(qs) + 1] = Len(m.body)
    BY <1>2, <1>6, <1>7
  <2>2. \A j \in 1 .. Len(qs) :
              /\ cut[j + 1] = Cut(cut[j] + SizeAfter(T, Len(T[Ctrl])), Len(m.body))
              /\ j > 1 => 0 < cut[j] /\ cut[j] < Len(m.body)
    BY <1>2, <1>3, <1>6, <1>7
  <2>3. Len(qs) > 0 /\ num > 0
    BY <1>4, <1>7
  <2>4. \A j \in 1 .. Len(qs) :
            qs[j] = HeadCells(c, IF cut[j] = 0 THEN gd[c][num].fmt ELSE 3, gd[c][num].head)
                     \o SubSeq(m.body, cut[j] + 1, cut[j + 1])
    BY <1>7, <1>8
  <2>5. cut[1] = 0
    BY <1>6
  <2> QED
    BY <1>9, <2>1, <2>2, <2>3, <2>4, <2>5 DEF Pending
<1>13. QueueFits(T, gd, c, p, qs)
  BY <1>6, <1>7, <1>12 DEF QueueFits
<1>14. n # 0
  BY <1>4
<1> QED
  BY <1>11, <1>13, <1>14 DEF qs, n

\* writeData, with the message m.
Writes(c, m) ==
    /\ queued[c] = <<>>
    /\ writers' = [writers EXCEPT ![c] = Written(@, m)]
    /\ queued' = [queued EXCEPT ![c] = Chunks(c, writers[c], m)]
    /\ sent' = IF Count(writers[c], m) = 0 THEN sent ELSE [sent EXCEPT ![c] = Append(@, m)]
    /\ UNCHANGED <<peer, midway, wire, readerVars>>

LEMMA WriteIs ==
    ASSUME ChunkAssumption, OwnHasPayload, peer \in Peers, sent \in [AllCsids -> Seq(Msgs)],
           NEW c \in Csids, NEW type \in Types, NEW stream \in Streams, NEW len \in Lens, NEW ts \in Stamps,
           WriteData(c, type, stream, len, ts)
    PROVE  \E m \in Msgs : m.type \in Types /\ (m.body = <<>> => peer = "foreign") /\ Writes(c, m)
<1> DEFINE body == [i \in 1 .. len |-> Cell("pay", <<c, Len(sent[c]), i>>)]
           m == Msg(type, stream, ts, body)
<1>1. len \in Nat /\ ts \in 0 .. (StampMod - 1) /\ peer \in {"own", "foreign"} /\ Len(sent[c]) \in Nat
  BY DEF ChunkAssumption, AllCsids
<1>2. ASSUME NEW i \in 1 .. len PROVE Cell("pay", <<c, Len(sent[c]), i>>) \in Cells
  <2>1. <<c, Len(sent[c]), i>> \in Fields
    BY <1>1 DEF Fields, AllCsids
  <2> QED
    BY <2>1, CellIn DEF Kinds
<1>3. body \in [1 .. len -> Cells]
  BY <1>2
<1>4. body \in Seq(Cells) /\ Len(body) = len
  BY <1>1, <1>3, SeqDef
<1>5. Writes(c, m) /\ (len > 0 \/ peer \in Empties)
  BY DEF WriteData, Writes
<1> HIDE DEF body
<1>6. m \in Msgs /\ m.type \in Types /\ m.body = body
  BY <1>1, <1>4 DEF Msgs, Msg, AllTypes, AllStreams
<1>7. body = <<>> => peer = "foreign"
  <2> HAVE body = <<>>
  <2>1. len = 0
    BY <1>4
  <2> QED
    BY <1>1, <1>5, <2>1 DEF OwnHasPayload
<1> HIDE DEF m
<1> QED
  BY <1>5, <1>6, <1>7

\* Nothing is queued: the chunk stream has been sent.
LEMMA NoneQueued ==
    ASSUME NEW S, NEW hd, NEW c, NEW p, QueueFits(S, hd, c, p, <<>>)
    PROVE  p.num = Len(S[c]) /\ Done(S, c, p)
<1>1. Len(<<>>) = 0
  OBVIOUS
<1>2. \A cut : ~Pending(S, hd, c, p, <<>>, cut)
  BY <1>1 DEF Pending
<1> QED
  BY <1>2 DEF QueueFits

\* What has been written and sent before stays so when more is written.
LEMMA HistoryGrows ==
    ASSUME ChunkAssumption, NEW S \in [AllCsids -> Seq(Msgs)], NEW T \in [AllCsids -> Seq(Msgs)],
           Grows(S, T), NEW hd, NEW gd, Grows(hd, gd), Announced(T), HeadsFit(T, gd),
           NEW A, NEW Q, NEW off, NEW at, History(S, hd, A, Q, off, at)
    PROVE  History(T, gd, A, Q, off, at)
<1>1. Announced(S) /\ HeadsFit(S, hd) /\ PartsFit(S, Q, at) /\ CellsFit(S, hd, A, Q, off)
  BY DEF History
<1>2. /\ Q \in Seq(PartRecs) /\ Len(Q) \in Nat
      /\ at \in [0 .. Len(Q) -> Places]
      /\ \A i \in 0 .. Len(Q) : \A d \in AllCsids : PlaceFits(S, d, at[i][d])
      /\ \A i \in 1 .. Len(Q) : NextPart(S, Q[i], at[i - 1])
  BY <1>1 DEF PartsFit
<1>3. \A d \in AllCsids : Len(hd[d]) = Len(S[d])
  BY <1>1 DEF HeadsFit
<1>4. PartsFit(T, Q, at)
  BY <1>1, PartsGrow
<1>5. \A i \in 1 .. Len(Q) : Q[i].num \in 1 .. Len(S[Q[i].c])
  <2> TAKE i \in 1 .. Len(Q)
  <2>1. PICK q \in PartRecs : q = Q[i]
    BY <1>2
  <2>2. i - 1 \in 0 .. Len(Q)
    BY <1>2
  <2>3. PICK t \in Places : t = at[i - 1]
    BY <1>2, <2>2
  <2>4. NextPart(S, q, t) /\ \A d \in AllCsids : PlaceFits(S, d, t[d])
    BY <1>2, <2>1, <2>2, <2>3
  <2>5. q.num \in 1 .. Len(S[q.c])
    BY <1>1, <2>4, NextIs
  <2> QED
    BY <2>1, <2>5
<1>6. CellsFit(T, gd, A, Q, off)
  BY <1>1, <1>2, <1>3, <1>5, CellsGrow
<1> QED
  BY <1>4, <1>6 DEF History

\* A message is written and its chunks queued.
LEMMA WriteKeeps ==
    ASSUME ChunkAssumption, peer \in Peers, sent \in [AllCsids -> Seq(Msgs)], cks \in [DOMAIN cks -> StreamRecs],
           NEW hd, NEW A, NEW Q, NEW off, NEW at, NEW n, NEW k, Sound(hd, A, Q, off, at, n, k),
           NEW c \in Csids, NEW m \in Msgs, m.type \in Types, m.body = <<>> => peer = "foreign", Writes(c, m)
    PROVE  sent' = Add(sent, c, m) /\ \E gd : Sound(gd, A, Q, off, at, n, k)'
<1>a. PICK S \in [AllCsids -> Seq(Msgs)] : S = sent
  OBVIOUS
<1>b. PICK w : w = writers[c]
  OBVIOUS
<1>c. PICK T : T = Add(S, c, m)
  OBVIOUS
<1>d. PICK gd : gd = Add(hd, c, Entry(w, m))
  OBVIOUS
<1>e. PICK s : s = at[Len(Q)]
  OBVIOUS
<1>1. /\ c \in AllCsids /\ Ctrl \in AllCsids /\ c # Ctrl /\ peer \in {"own", "foreign"}
      /\ m.type # SetSize
  BY DEF AllCsids, ChunkAssumption
<1>2. /\ Announced(S) /\ HeadsFit(S, hd) /\ PartsFit(S, Q, at) /\ CellsFit(S, hd, A, Q, off)
      /\ History(S, hd, A, Q, off, at)
      /\ WritersFit(S, hd, s) /\ Reader(S, hd, A, Q, off, at, n, k) /\ Supply(A, off[n] + k)
  BY <1>a, <1>e DEF Sound, History
<1>3. /\ writers \in [AllCsids -> WriterRecs]
      /\ queued \in [AllCsids -> Seq(Seq(Cells))] /\ queued[Ctrl] = <<>>
      /\ \A d \in AllCsids : WriterFits(S, hd, d, writers[d]) /\ QueueFits(S, hd, d, s[d], queued[d])
  BY <1>2 DEF WritersFit
<1>4. /\ s \in Places /\ \A d \in AllCsids : PlaceFits(S, d, s[d]) /\ s[d] \in Place
      /\ Q \in Seq(PartRecs) /\ Len(Q) \in Nat
      /\ at \in [0 .. Len(Q) -> Places]
      /\ \A i \in 0 .. Len(Q) : \A d \in AllCsids : PlaceFits(S, d, at[i][d])
      /\ \A i \in 1 .. Len(Q) : NextPart(S, Q[i], at[i - 1])
  <2>1. /\ Q \in Seq(PartRecs) /\ Len(Q) \in Nat
        /\ at \in [0 .. Len(Q) -> Places]
        /\ \A i \in 0 .. Len(Q) : \A d \in AllCsids : PlaceFits(S, d, at[i][d])
        /\ \A i \in 1 .. Len(Q) : NextPart(S, Q[i], at[i - 1])
    BY <1>2 DEF PartsFit
  <2>2. s \in Places /\ \A d \in AllCsids : PlaceFits(S, d, s[d])
    BY <1>e, <2>1
  <2> QED
    BY <2>1, <2>2 DEF Places, Place
<1>5. w \in WriterRecs /\ WriterFits(S, hd, c, w)
  BY <1>1, <1>3, <1>b
<1>6. S \in [AllCsids -> Seq(Msgs)] /\ \A d \in AllCsids : Len(S[d]) \in Nat
  BY <1>a
<1>7. /\ writers' = [writers EXCEPT ![c] = Written(w, m)]
      /\ queued' = [queued EXCEPT ![c] = Chunks(c, w, m)]
      /\ queued[c] = <<>>
      /\ sent' = IF Count(w, m) = 0 THEN S ELSE T
      /\ UNCHANGED <<peer, midway, wire, readerVars>>
  BY <1>a, <1>b, <1>c DEF Writes, Add
<1>f. S \in [AllCsids -> Seq(Msgs)]
  BY <1>6
<1>g. c \in AllCsids
  BY <1>1
<1>8. /\ T \in [AllCsids -> Seq(Msgs)] /\ Grows(S, T) /\ Grows(hd, gd) /\ HeadsFit(T, gd)
      /\ gd[c][Len(S[c]) + 1] = Entry(w, m)
  <2>1. /\ Add(S, c, m) \in [AllCsids -> Seq(Msgs)] /\ Grows(S, Add(S, c, m))
        /\ Grows(hd, Add(hd, c, Entry(w, m))) /\ HeadsFit(Add(S, c, m), Add(hd, c, Entry(w, m)))
        /\ Add(hd, c, Entry(w, m))[c][Len(S[c]) + 1] = Entry(w, m)
    <3>1. HeadsFit(S, hd)
      BY <1>2
    <3>2. WriterFits(S, hd, c, w)
      BY <1>5
    <3> QED
      BY <3>1, <3>2, <1>f, <1>g, HeadsFitWritten
  <2> QED
    BY <1>c, <1>d, <2>1
<1>9. /\ Len(T[c]) = Len(S[c]) + 1 /\ T[c][Len(S[c]) + 1] = m
      /\ \A d \in AllCsids : d # c => T[d] = S[d]
  <2>1. /\ Len(Add(S, c, m)[c]) = Len(S[c]) + 1 /\ Add(S, c, m)[c][Len(S[c]) + 1] = m
        /\ \A d \in AllCsids : d # c => Add(S, c, m)[d] = S[d]
    BY <1>f, <1>g, Appended, SMTT(30)
  <2> QED
    BY <1>c, <2>1
<1>10. /\ Len(S[c]) \in Nat /\ hd \in [AllCsids -> Seq([fmt : 0 .. 3, head : Heads])]
       /\ \A d \in AllCsids : Len(hd[d]) = Len(S[d])
  BY <1>1, <1>2, <1>6 DEF HeadsFit
<1>11. \A d \in AllCsids : d # c => gd[d] = hd[d]
  BY <1>10, <1>d DEF Add
<1>12. T[Ctrl] = S[Ctrl] /\ SizeAfter(T, Len(T[Ctrl])) = SizeAfter(S, Len(S[Ctrl]))
  BY <1>1, <1>9 DEF SizeAfter
<1>13. Announced(T)
  <2> SUFFICES ASSUME NEW d \in AllCsids, NEW i \in 1 .. Len(T[d])
               PROVE  IF d = Ctrl THEN /\ T[d][i].type = SetSize /\ Len(T[d][i].body) = 1
                                       /\ T[d][i].body[1].v \in Sizes
                      ELSE T[d][i].type # SetSize
    BY DEF Announced
  <2>1. CASE d # c
    BY <1>2, <1>9, <2>1 DEF Announced
  <2>2. CASE d = c
    <3>1. i \in 1 .. Len(S[c]) \/ i = Len(S[c]) + 1
      BY <1>9, <1>10, <2>2
    <3>2. CASE i \in 1 .. Len(S[c])
      <4>1. T[c][i] = S[c][i]
        BY <1>1, <1>8, <3>2, GrowsIs
      <4> QED
        BY <1>1, <1>2, <2>2, <3>2, <4>1 DEF Announced
    <3>3. CASE i = Len(S[c]) + 1
      BY <1>1, <1>9, <2>2, <3>3
    <3> QED
      BY <3>1, <3>2, <3>3
  <2> QED
    BY <2>1, <2>2
<1>17. History(T, gd, A, Q, off, at)
  <2>1. T \in [AllCsids -> Seq(Msgs)] /\ Grows(S, T) /\ Grows(hd, gd) /\ HeadsFit(T, gd)
    BY <1>8
  <2>2. History(S, hd, A, Q, off, at)
    BY <1>2
  <2> QED
    BY <1>f, <1>13, <2>1, <2>2, HistoryGrows
<1>18. /\ QueueFits(T, gd, c, s[c], Chunks(c, w, m)) /\ Chunks(c, w, m) \in Seq(Seq(Cells))
       /\ Count(w, m) # 0
  <2>1. s[c] \in Place /\ PlaceFits(S, c, s[c])
    BY <1>1, <1>4
  <2>2. s[c].num = Len(S[c]) /\ Done(S, c, s[c])
    BY <1>1, <1>3, <1>7, NoneQueued
  <2>3. Done(T, c, s[c])
    BY <1>1, <1>6, <1>8, <2>1, <2>2, PlaceGrows
  <2>4. w.size = SizeAfter(T, Len(T[Ctrl]))
    BY <1>5, <1>12 DEF WriterFits
  <2>5. /\ Len(T[c]) > 0 /\ T[c][Len(T[c])] = m /\ gd[c][Len(T[c])] = Entry(w, m)
        /\ s[c].num = Len(T[c]) - 1
    BY <1>8, <1>9, <1>10, <2>2
  <2> QED
    BY <1>1, <1>5, <1>8, <2>1, <2>3, <2>4, <2>5, ChunksPending
<1>19. sent' = T
  BY <1>7, <1>18
<1>20. WriterFits(T, gd, c, Written(w, m))
  <2>1. HeadOf(w, m) \in Heads
    BY <1>5, FormatIs
  <2>2. m.ts \in Nat
    BY DEF Msgs, ChunkAssumption
  <2>3. Written(w, m) \in WriterRecs /\ Written(w, m).size = w.size
        /\ Written(w, m).head = HeadOf(w, m) /\ Written(w, m).ts = m.ts
    BY <1>5, <2>1, <2>2 DEF Written, WriterRecs
  <2>4. Len(T[c]) # 0 /\ T[c] # <<>>
    BY <1>9, <1>10
  <2>5. gd[c][Len(T[c])].head = HeadOf(w, m) /\ T[c][Len(T[c])].ts = m.ts
    BY <1>8, <1>9 DEF Entry
  <2> QED
    BY <1>5, <1>12, <2>3, <2>4, <2>5 DEF WriterFits
<1>21. WritersFit(T, gd, s)'
  <2>1. writers' \in [AllCsids -> WriterRecs] /\ writers'[c] = Written(w, m)
        /\ \A d \in AllCsids : d # c => writers'[d] = writers[d]
    BY <1>1, <1>3, <1>7, <1>20 DEF WriterFits
  <2>2. queued' \in [AllCsids -> Seq(Seq(Cells))] /\ queued'[c] = Chunks(c, w, m)
        /\ \A d \in AllCsids : d # c => queued'[d] = queued[d]
    BY <1>1, <1>3, <1>7, <1>18
  <2>3. ASSUME NEW d \in AllCsids, d # c
        PROVE  WriterFits(T, gd, d, writers[d]) /\ QueueFits(T, gd, d, s[d], queued[d])
    <3>1. T[d] = S[d] /\ gd[d] = hd[d]
      BY <1>9, <1>11, <2>3
    <3>2. WriterFits(S, hd, d, writers[d]) /\ QueueFits(S, hd, d, s[d], queued[d])
      BY <1>3
    <3>3. QueueFits(T, gd, d, s[d], queued[d])
      BY <1>12, <3>1, <3>2, QueueSame
    <3>4. WriterFits(T, gd, d, writers[d])
      BY <1>12, <3>1, <3>2 DEF WriterFits
    <3> QED
      BY <3>3, <3>4
  <2>4. ASSUME NEW d \in AllCsids
        PROVE  WriterFits(T, gd, d, writers'[d]) /\ QueueFits(T, gd, d, s[d], queued'[d])
    <3>1. CASE d = c
      BY <1>18, <1>20, <2>1, <2>2, <3>1
    <3>2. CASE d # c
      BY <2>1, <2>2, <2>3, <3>2
    <3> QED
      BY <3>1, <3>2
  <2>5. queued'[Ctrl] = <<>>
    BY <1>1, <1>3, <2>2
  <2> QED
    BY <2>1, <2>2, <2>4, <2>5 DEF WritersFit
<1>22. Reader(T, gd, A, Q, off, at, n, k)'
  <2>1. Further(A, Q, off, at, A, Q, off, at)
    BY <1>4 DEF Further
  <2>2. Reader(T, gd, A, Q, off, at, n, k)
    BY <1>2, <1>8, <2>1, ReaderGrows
  <2> QED
    BY <1>7, <2>2, ReaderSame
<1>23. Supply(A, off[n] + k)'
  BY <1>2, <1>7 DEF Supply, readerVars
<1>24. Sound(gd, A, Q, off, at, n, k)'
  BY <1>17, <1>19, <1>21, <1>22, <1>23, <1>e DEF Sound
<1> QED
  BY <1>a, <1>c, <1>19, <1>24

\* A part is sent: its cells follow those sent before.
LEMMA PartSent ==
    ASSUME ChunkAssumption, NEW S \in [AllCsids -> Seq(Msgs)],
           NEW hd, NEW A, NEW Q, NEW off, NEW at, History(S, hd, A, Q, off, at),
           NEW q \in PartRecs, NextPart(S, q, at[Len(Q)])
    PROVE  /\ PartCells(S, hd, q) \in Seq(Cells)
           /\ \E R, of, bt : /\ History(S, hd, A \o PartCells(S, hd, q), R, of, bt)
                             /\ Further(A, Q, off, at, A \o PartCells(S, hd, q), R, of, bt)
                             /\ bt[Len(R)] = After(q, at[Len(Q)])
<1> DEFINE d  == PartCells(S, hd, q)
           B  == A \o d
           R  == Append(Q, q)
           of == Longer(off, Len(Q), Len(A) + Len(d))
           t  == After(q, at[Len(Q)])
           bt == Longer(at, Len(Q), t)
<1>1. Announced(S) /\ HeadsFit(S, hd) /\ PartsFit(S, Q, at) /\ CellsFit(S, hd, A, Q, off)
  BY DEF History
<1>2. PartsFit(S, R, bt)
  BY <1>1, PartsAppend
<1>3. CellsFit(S, hd, B, R, of)
  BY <1>1, CellsAppend
<1>4. History(S, hd, B, R, of, bt)
  BY <1>1, <1>2, <1>3 DEF History
<1>5. Q \in Seq(PartRecs) /\ Len(Q) \in Nat /\ A \in Seq(Cells)
  BY <1>1 DEF PartsFit, CellsFit
<1>6. d \in Seq(Cells)
  <2>1. PICK s \in Places : s = at[Len(Q)] /\ \A c \in AllCsids : PlaceFits(S, c, s[c])
    BY <1>1, <1>5 DEF PartsFit
  <2>2. NextPart(S, q, s)
    BY <2>1
  <2> QED
    BY <1>1, <2>1, <2>2, PartCellsIs
<1>7. R \in Seq(PartRecs) /\ Len(R) = Len(Q) + 1 /\ \A i \in 1 .. Len(Q) : R[i] = Q[i]
  BY <1>5
<1>8. \A j \in 1 .. Len(A) : B[j] = A[j]
  <2> HIDE DEF d
  <2> QED
    BY <1>5, <1>6, ConcatIs
<1>9. /\ \A i \in 0 .. Len(Q) : bt[i] = at[i] /\ of[i] = off[i]
      /\ bt[Len(Q) + 1] = t
  <2> HIDE DEF t, d
  <2> QED
    BY <1>5 DEF Longer
<1> HIDE DEF d, B, R, of, t, bt
<1>10. Further(A, Q, off, at, B, R, of, bt)
  BY <1>5, <1>7, <1>8, <1>9 DEF Further
<1>11. bt[Len(R)] = t
  BY <1>7, <1>9
<1> QED
  BY <1>4, <1>6, <1>10, <1>11 DEF d, B, t

\* Its cells are put on the wire.
LEMMA SupplyGrows ==
    ASSUME NEW A \in Seq(Cells), NEW pos \in Nat, Supply(A, pos), NEW d \in Seq(Cells),
           wire' = wire \o d, data' = data
    PROVE  Supply(A \o d, pos)'
<1>1. PICK v \in Seq(Cells) : v = wire
  BY DEF Supply
<1>2. PICK u \in Seq(Cells) : u = data
  BY DEF Supply
<1>3. PICK x \in Nat : x = Len(u)
  BY <1>2
<1>4. PICK y \in Nat : y = Len(v)
  BY <1>1
<1>5. /\ Len(A) = pos + x + y
      /\ \A i \in 1 .. x : u[i] = A[pos + i]
      /\ \A i \in 1 .. y : v[i] = A[pos + x + i]
  BY <1>1, <1>2, <1>3, <1>4 DEF Supply
<1>6. PICK B : B = A \o d
  OBVIOUS
<1>7. PICK w : w = v \o d
  OBVIOUS
<1>8. /\ B \in Seq(Cells) /\ Len(B) = Len(A) + Len(d)
      /\ \A j \in 1 .. Len(A) : B[j] = A[j]
      /\ \A j \in 1 .. Len(d) : B[Len(A) + j] = d[j]
  BY <1>6, ConcatIs
<1>9. v \in Seq(Cells)
  BY <1>1
<1>10. /\ w \in Seq(Cells) /\ Len(w) = Len(v) + Len(d)
       /\ \A j \in 1 .. Len(v) : w[j] = v[j]
       /\ \A j \in 1 .. Len(d) : w[Len(v) + j] = d[j]
  BY <1>7, <1>9, ConcatIs
<1>11. PICK z \in Nat : z = Len(d)
  OBVIOUS
<1>12. \A i \in 1 .. x : u[i] = B[pos + i]
  <2> TAKE i \in 1 .. x
  <2>1. pos + i \in 1 .. Len(A)
    BY <1>3, <1>4, <1>5
  <2> QED
    BY <1>5, <1>8, <2>1
<1>13. \A i \in 1 .. y + z : w[i] = B[pos + x + i]
  <2> TAKE i \in 1 .. y + z
  <2>1. CASE i \in 1 .. y
    <3>1. pos + x + i \in 1 .. Len(A)
      BY <1>3, <1>4, <1>5, <2>1
    <3> QED
      BY <1>4, <1>5, <1>8, <1>10, <2>1, <3>1
  <2>2. CASE ~(i \in 1 .. y)
    <3>1. PICK j \in 1 .. z : i = y + j
      <4>1. i - y \in 1 .. z /\ i = y + (i - y)
        BY <1>4, <1>11, <2>2
      <4> QED
        BY <4>1
    <3>2. w[y + j] = d[j]
      <4>1. j \in 1 .. Len(d)
        BY <1>11, <3>1
      <4>2. w[Len(v) + j] = d[j]
        BY <1>10, <4>1
      <4> QED
        BY <1>1, <1>4, <4>2
    <3>3. B[Len(A) + j] = d[j]
      BY <1>8, <1>11, <3>1
    <3>4. Len(A) + j = pos + x + (y + j)
      BY <1>3, <1>4, <1>5, <3>1, <1>11
    <3> QED
      BY <3>1, <3>2, <3>3, <3>4
  <2> QED
    BY <2>1, <2>2
<1>14. Len(B) = pos + x + (y + z) /\ Len(w) = y + z
  BY <1>3, <1>4, <1>5, <1>8, <1>10, <1>11
<1>15. wire' = w /\ data' = u
  BY <1>1, <1>2, <1>7
<1>16. Supply(B, pos)'
  BY <1>2, <1>3, <1>10, <1>12, <1>13, <1>14, <1>15 DEF Supply
<1> QED
  BY <1>6, <1>16

\* The first of the queued chunks, and what is queued after it.
FirstPart(S, c, cut) == [c |-> c, num |-> Len(S[c]), from |-> cut[1], upto |-> cut[2]]

\* All that Ctrl was given has been sent.
AllTold(S, s) == s[Ctrl].num = Len(S[Ctrl])

Begins(S, hd, c, qs, cut) == qs[1] = PartCells(S, hd, FirstPart(S, c, cut))

LEMMA FirstPartIs ==
    ASSUME NEW S \in [AllCsids -> Seq(Msgs)], NEW hd, NEW c \in AllCsids, NEW s \in Places,
           NEW qs, NEW cut, Len(qs) \in Nat,
           Pending(S, hd, c, s[c], qs, cut), AllTold(S, s)
    PROVE  /\ FirstPart(S, c, cut) \in PartRecs /\ NextPart(S, FirstPart(S, c, cut), s)
           /\ Begins(S, hd, c, qs, cut)
<1>1. PICK num \in Nat : num = Len(S[c])
  OBVIOUS
<1>2. PICK n \in Nat : n = Len(qs)
  OBVIOUS
<1>3. PICK body : body = S[c][num].body
  OBVIOUS
<1>4. /\ num > 0 /\ n > 0 /\ cut \in [1 .. n + 1 -> Nat]
      /\ IF cut[1] = 0 THEN s[c].num = num - 1 /\ Done(S, c, s[c])
         ELSE s[c].num = num /\ s[c].upto = cut[1] /\ cut[1] < Len(body)
      /\ \A j \in 1 .. n :
            /\ cut[j + 1] = Cut(cut[j] + SizeAfter(S, Len(S[Ctrl])), Len(body))
            /\ qs[j] = HeadCells(c, IF cut[j] = 0 THEN hd[c][num].fmt ELSE 3, hd[c][num].head)
                         \o SubSeq(body, cut[j] + 1, cut[j + 1])
  BY <1>1, <1>2, <1>3 DEF Pending
<1>5. 1 \in 1 .. n /\ 1 \in 1 .. n + 1 /\ 2 \in 1 .. n + 1 /\ 1 + 1 = 2
  BY <1>2, <1>4
<1>6. PICK a \in Nat : a = cut[1]
  BY <1>4, <1>5
<1>7. PICK b \in Nat : b = cut[2]
  BY <1>4, <1>5
<1>8. PICK q : q = FirstPart(S, c, cut)
  OBVIOUS
<1>9. q = [c |-> c, num |-> num, from |-> a, upto |-> b]
  BY <1>1, <1>6, <1>7, <1>8 DEF FirstPart
<1>10. q.c = c /\ q.num = num /\ q.from = a /\ q.upto = b
  BY <1>9
<1>11. q \in PartRecs
  BY <1>1, <1>4, <1>6, <1>7, <1>9 DEF PartRecs
<1>12. b = Cut(a + SizeAfter(S, s[Ctrl].num), Len(body))
  BY <1>4, <1>5, <1>6, <1>7 DEF AllTold
<1>13. NextPart(S, q, s)
  <2>1. num <= Len(S[c])
    BY <1>1
  <2>2. IF a = 0 THEN num = s[c].num + 1 /\ Done(S, c, s[c])
        ELSE num = s[c].num /\ a = s[c].upto /\ a < Len(body)
    BY <1>1, <1>4, <1>6
  <2> QED
    BY <1>3, <1>10, <1>12, <2>1, <2>2 DEF NextPart
<1>14. qs[1] = PartCells(S, hd, q)
  <2>1. qs[1] = HeadCells(c, IF a = 0 THEN hd[c][num].fmt ELSE 3, hd[c][num].head) \o SubSeq(body, a + 1, b)
    BY <1>4, <1>5, <1>6, <1>7
  <2> QED
    BY <1>3, <1>10, <2>1 DEF PartCells, ChunkOf, Fmt, HeadAt
<1> QED
  BY <1>8, <1>11, <1>13, <1>14 DEF Begins

LEMMA QueueTail ==
    ASSUME NEW S \in [AllCsids -> Seq(Msgs)], NEW hd, NEW c \in AllCsids, NEW p,
           NEW qs \in Seq(Seq(Cells)), NEW cut, Pending(S, hd, c, p, qs, cut)
    PROVE  QueueFits(S, hd, c, [num |-> Len(S[c]), upto |-> cut[2]], Tail(qs))
<1>1. PICK num \in Nat : num = Len(S[c])
  OBVIOUS
<1>2. PICK n \in Nat : n = Len(qs)
  OBVIOUS
<1>3. PICK body : body = S[c][num].body
  OBVIOUS
<1>4. PICK z : z = SizeAfter(S, Len(S[Ctrl]))
  OBVIOUS
<1>5. /\ num > 0 /\ n > 0 /\ cut \in [1 .. n + 1 -> Nat]
      /\ cut[n + 1] = Len(body)
      /\ \A j \in 1 .. n :
            /\ cut[j + 1] = Cut(cut[j] + z, Len(body))
            /\ j > 1 => 0 < cut[j] /\ cut[j] < Len(body)
            /\ qs[j] = HeadCells(c, IF cut[j] = 0 THEN hd[c][num].fmt ELSE 3, hd[c][num].head)
                         \o SubSeq(body, cut[j] + 1, cut[j + 1])
  BY <1>1, <1>2, <1>3, <1>4 DEF Pending
<1>6. PICK b : b = cut[2]
  OBVIOUS
<1>7. PICK r : r = [num |-> num, upto |-> b]
  OBVIOUS
<1>8. r.num = num /\ r.upto = b
  BY <1>7
<1>9. PICK ts : ts = Tail(qs)
  OBVIOUS
<1>10. qs # <<>>
  BY <1>2, <1>5
<1>11. /\ ts \in Seq(Seq(Cells)) /\ Len(ts) = n - 1
       /\ \A i \in 1 .. n - 1 : ts[i] = qs[i + 1]
  BY <1>2, <1>9, <1>10, HeadTailProperties
<1>12. CASE n = 1
  <2>1. ts = <<>>
    BY <1>11, <1>12, EmptySeq
  <2>2. b = Len(body)
    BY <1>5, <1>6, <1>12
  <2>3. Done(S, c, r)
    BY <1>3, <1>8, <2>2 DEF Done
  <2> QED
    BY <1>1, <1>6, <1>7, <1>8, <1>9, <2>1, <2>3 DEF QueueFits
<1>13. CASE n > 1
  <2> DEFINE dut == [j \in 1 .. n |-> cut[j + 1]]
  <2>1. \A j \in 1 .. n : j + 1 \in 1 .. n + 1 /\ dut[j] = cut[j + 1]
    BY <1>2
  <2>2. dut \in [1 .. n -> Nat]
    BY <1>5, <2>1
  <2>3. 1 \in 1 .. n /\ 2 \in 1 .. n /\ n \in 1 .. n
    BY <1>2, <1>13
  <2>4. dut[1] = b /\ dut[n] = Len(body)
    BY <1>5, <1>6, <2>1, <2>3
  <2> HIDE DEF dut
  <2>5. 0 < b /\ b < Len(body)
    BY <1>5, <1>6, <2>3
  <2>6. ASSUME NEW j \in 1 .. n - 1
        PROVE  /\ dut[j + 1] = Cut(dut[j] + z, Len(body))
               /\ j > 1 => 0 < dut[j] /\ dut[j] < Len(body)
               /\ ts[j] = HeadCells(c, IF dut[j] = 0 THEN hd[c][num].fmt ELSE 3, hd[c][num].head)
                         \o SubSeq(body, dut[j] + 1, dut[j + 1])
    <3>1. j \in 1 .. n /\ j + 1 \in 1 .. n /\ j + 1 > 1
      BY <1>2
    <3>2. dut[j] = cut[j + 1] /\ dut[j + 1] = cut[(j + 1) + 1] /\ ts[j] = qs[j + 1]
      BY <1>11, <2>1, <3>1
    <3> QED
      BY <1>5, <3>1, <3>2
  <2>7. Pending(S, hd, c, r, ts, dut)
    <3>1. (n - 1) + 1 = n /\ n - 1 > 0
      BY <1>2, <1>13
    <3>2. b # 0
      BY <2>2, <2>3, <2>4, <2>5
    <3> QED
      BY <1>1, <1>3, <1>4, <1>5, <1>8, <1>11, <2>2, <2>4, <2>5, <2>6, <3>1, <3>2, ZenonT(30) DEF Pending
  <2>8. dut \in [1 .. Len(ts) + 1 -> Nat]
    <3>1. Len(ts) + 1 = n
      BY <1>2, <1>11
    <3> QED
      BY <2>2, <3>1
  <2> QED
    BY <1>1, <1>6, <1>7, <1>9, <2>7, <2>8 DEF QueueFits
<1> QED
  BY <1>5, <1>12, <1>13, <1>2

\* The parts of Sound, with the history of the messages as a constant.
LEMMA SoundIs ==
    ASSUME NEW S, S = sent, NEW hd, NEW A, NEW Q, NEW off, NEW at, NEW n, NEW k, Sound(hd, A, Q, off, at, n, k)
    PROVE  /\ History(S, hd, A, Q, off, at) /\ WritersFit(S, hd, at[Len(Q)])
           /\ Reader(S, hd, A, Q, off, at, n, k) /\ Supply(A, off[n] + k)
           /\ A \in Seq(Cells) /\ Q \in Seq(PartRecs) /\ Len(Q) \in Nat
           /\ at \in [0 .. Len(Q) -> Places] /\ off \in [0 .. Len(Q) -> Nat]
           /\ n \in 0 .. Len(Q) /\ k \in Nat /\ off[n] \in Nat /\ off[n] + k \in Nat
<1>1. /\ History(S, hd, A, Q, off, at) /\ WritersFit(S, hd, at[Len(Q)])
      /\ Reader(S, hd, A, Q, off, at, n, k) /\ Supply(A, off[n] + k)
  BY DEF Sound
<1>2. /\ A \in Seq(Cells) /\ Q \in Seq(PartRecs) /\ Len(Q) \in Nat
      /\ at \in [0 .. Len(Q) -> Places] /\ off \in [0 .. Len(Q) -> Nat]
  BY <1>1 DEF History, PartsFit, CellsFit
<1>3. n \in 0 .. Len(Q) /\ k \in Nat
  BY <1>1 DEF Reader
<1>4. off[n] \in Nat
  BY <1>2, <1>3
<1> QED
  BY <1>1, <1>2, <1>3, <1>4

\* What the writers and the queues are is seen from what they are primed.
LEMMA WritersNext ==
    ASSUME NEW T, NEW hd, NEW s,
           writers' \in [AllCsids -> WriterRecs], queued' \in [AllCsids -> Seq(Seq(Cells))],
           queued'[Ctrl] = <<>>,
           \A d \in AllCsids : WriterFits(T, hd, d, writers'[d]) /\ QueueFits(T, hd, d, s[d], queued'[d])
    PROVE  WritersFit(T, hd, s)'
BY DEF WritersFit

\* A chunk is sent (SendChunk).
LEMMA SendKeeps ==
    ASSUME ChunkAssumption, sent \in [AllCsids -> Seq(Msgs)], cks \in [DOMAIN cks -> StreamRecs],
           NEW hd, NEW A, NEW Q, NEW off, NEW at, NEW n, NEW k, Sound(hd, A, Q, off, at, n, k),
           NEW c \in Csids, SendChunk(c)
    PROVE  \E B, R, of, bt : Sound(hd, B, R, of, bt, n, k)'
<1>a. PICK S \in [AllCsids -> Seq(Msgs)] : S = sent
  OBVIOUS
<1>b. S \in [AllCsids -> Seq(Msgs)]
  BY <1>a
<1>1. c \in AllCsids /\ Ctrl \in AllCsids /\ c # Ctrl
  BY DEF AllCsids, ChunkAssumption
<1>2. /\ History(S, hd, A, Q, off, at) /\ WritersFit(S, hd, at[Len(Q)])
      /\ Reader(S, hd, A, Q, off, at, n, k) /\ Supply(A, off[n] + k)
      /\ A \in Seq(Cells) /\ Q \in Seq(PartRecs) /\ Len(Q) \in Nat
      /\ at \in [0 .. Len(Q) -> Places] /\ off \in [0 .. Len(Q) -> Nat]
      /\ n \in 0 .. Len(Q) /\ k \in Nat /\ off[n] \in Nat /\ off[n] + k \in Nat
  BY <1>a, SoundIs
<1>3. PICK s \in Places : s = at[Len(Q)]
  <2>1. Len(Q) \in 0 .. Len(Q)
    BY <1>2
  <2>2. at[Len(Q)] \in Places
    BY <1>2, <2>1
  <2> QED
    BY <2>2
<1>4. /\ writers \in [AllCsids -> WriterRecs]
      /\ queued \in [AllCsids -> Seq(Seq(Cells))] /\ queued[Ctrl] = <<>>
      /\ \A d \in AllCsids : WriterFits(S, hd, d, writers[d]) /\ QueueFits(S, hd, d, s[d], queued[d])
  BY <1>2, <1>3 DEF WritersFit
<1>5. PICK qs \in Seq(Seq(Cells)) : qs = queued[c]
  BY <1>1, <1>4
<1>6. /\ qs # <<>> /\ wire' = wire \o qs[1] /\ queued' = [queued EXCEPT ![c] = Tail(qs)]
      /\ UNCHANGED <<peer, writers, sent, readerVars>>
  BY <1>5 DEF SendChunk
<1>7. PICK cut : Pending(S, hd, c, s[c], qs, cut)
  BY <1>1, <1>4, <1>5, <1>6 DEF QueueFits
<1>8. AllTold(S, s)
  <2>1. QueueFits(S, hd, Ctrl, s[Ctrl], <<>>)
    BY <1>1, <1>4
  <2> QED
    BY <2>1, NoneQueued DEF AllTold
<1>9. PICK q : q = FirstPart(S, c, cut)
  OBVIOUS
<1>10. q \in PartRecs /\ NextPart(S, q, s) /\ qs[1] = PartCells(S, hd, q)
  <2>1. s \in Places
    BY <1>3
  <2>2. Len(qs) \in Nat
    BY <1>5
  <2>3. c \in AllCsids
    BY <1>1
  <2>4. FirstPart(S, c, cut) \in PartRecs
    BY <1>7, <1>8, <1>b, <2>1, <2>2, <2>3, FirstPartIs, ZenonT(30)
  <2>5. NextPart(S, FirstPart(S, c, cut), s)
    BY <1>7, <1>8, <1>b, <2>1, <2>2, <2>3, FirstPartIs, ZenonT(30)
  <2>6. Begins(S, hd, c, qs, cut)
    BY <1>7, <1>8, <1>b, <2>1, <2>2, <2>3, FirstPartIs, ZenonT(30)
  <2> QED
    BY <1>9, <2>4, <2>5, <2>6 DEF Begins
<1>11. /\ PartCells(S, hd, q) \in Seq(Cells)
       /\ \E R, of, bt : /\ History(S, hd, A \o PartCells(S, hd, q), R, of, bt)
                         /\ Further(A, Q, off, at, A \o PartCells(S, hd, q), R, of, bt)
                         /\ bt[Len(R)] = After(q, at[Len(Q)])
  <2>1. History(S, hd, A, Q, off, at)
    BY <1>2
  <2>2. q \in PartRecs /\ NextPart(S, q, at[Len(Q)])
    BY <1>3, <1>10
  <2> QED
    BY <2>1, <2>2, <1>b, PartSent
<1>12. PICK d \in Seq(Cells) : d = PartCells(S, hd, q)
  BY <1>11
<1>13. PICK B : B = A \o d
  OBVIOUS
<1>14. PICK R, of, bt : /\ History(S, hd, B, R, of, bt) /\ Further(A, Q, off, at, B, R, of, bt)
                        /\ bt[Len(R)] = After(q, s)
  BY <1>3, <1>11, <1>12, <1>13
<1>15. PICK t : t = bt[Len(R)]
  OBVIOUS
<1>16. /\ t[c] = [num |-> Len(S[c]), upto |-> cut[2]]
       /\ \A e \in AllCsids : e # c => t[e] = s[e]
  <2>1. t = After(q, s) /\ q = [c |-> c, num |-> Len(S[c]), from |-> cut[1], upto |-> cut[2]]
    BY <1>9, <1>14, <1>15 DEF FirstPart
  <2>2. q.c = c /\ q.num = Len(S[c]) /\ q.upto = cut[2]
    BY <2>1
  <2> QED
    BY <1>1, <1>3, <2>1, <2>2 DEF After, Places
<1>17. WritersFit(S, hd, t)'
  <2>1. QueueFits(S, hd, c, t[c], Tail(qs))
    <3>1. qs \in Seq(Seq(Cells))
      BY <1>5
    <3>2. QueueFits(S, hd, c, [num |-> Len(S[c]), upto |-> cut[2]], Tail(qs))
      BY <1>1, <1>7, <1>b, <3>1, QueueTail
    <3> QED
      BY <1>16, <3>2
  <2>2. Tail(qs) \in Seq(Seq(Cells))
    BY <1>5, <1>6, HeadTailProperties
  <2>3. /\ queued' \in [AllCsids -> Seq(Seq(Cells))] /\ queued'[c] = Tail(qs)
        /\ \A e \in AllCsids : e # c => queued'[e] = queued[e]
    BY <1>1, <1>4, <1>6, <2>2
  <2>4. ASSUME NEW e \in AllCsids PROVE QueueFits(S, hd, e, t[e], queued'[e])
    <3>1. CASE e = c
      BY <2>1, <2>3, <3>1
    <3>2. CASE e # c
      BY <1>4, <1>16, <2>3, <3>2
    <3> QED
      BY <3>1, <3>2
  <2>5. queued'[Ctrl] = <<>>
    BY <1>1, <1>4, <2>3
  <2>6. writers' = writers
    BY <1>6
  <2> QED
    BY <1>4, <2>3, <2>4, <2>5, <2>6, WritersNext
<1>18. Reader(S, hd, B, R, of, bt, n, k)'
  <2>1. History(S, hd, A, Q, off, at) /\ Further(A, Q, off, at, B, R, of, bt)
    BY <1>2, <1>14
  <2>2. Grows(S, S) /\ Grows(hd, hd)
    <3>1. \A e \in AllCsids : Len(S[e]) \in Nat /\ Len(hd[e]) = Len(S[e])
      BY <1>b, <2>1 DEF History, HeadsFit
    <3> QED
      BY <3>1 DEF Grows, Prefix
  <2>3. Reader(S, hd, A, Q, off, at, n, k)
    BY <1>2
  <2>4. Reader(S, hd, B, R, of, bt, n, k)
    BY <1>b, <2>1, <2>2, <2>3, ReaderGrows
  <2>5. UNCHANGED readerVars
    BY <1>6
  <2> QED
    BY <2>4, <2>5, ReaderSame
<1>19. Supply(B, of[n] + k)'
  <2>1. of[n] = off[n]
    BY <1>2, <1>14 DEF Further
  <2>2. PICK pos \in Nat : pos = off[n] + k
    BY <1>2
  <2>3. Supply(A, pos) /\ A \in Seq(Cells) /\ d \in Seq(Cells)
    BY <1>2, <1>12, <2>2
  <2>4. wire' = wire \o d /\ data' = data
    BY <1>6, <1>10, <1>12 DEF readerVars
  <2>5. Supply(A \o d, pos)'
    BY <2>2, <2>3, <2>4, SupplyGrows
  <2> QED
    BY <1>13, <2>1, <2>2, <2>5
<1>20. sent' = S
  BY <1>a, <1>6
<1>21. Sound(hd, B, R, of, bt, n, k)'
  BY <1>14, <1>15, <1>17, <1>18, <1>19, <1>20 DEF Sound
<1> QED
  BY <1>21

\* The message SET_CHUNK_SIZE.
SizeMsg(z) == Msg(SetSize, 0, 0, <<Cell("size", z)>>)

LEMMA SizeMsgIs ==
    ASSUME ChunkAssumption, NEW z \in Sizes
    PROVE  /\ SizeMsg(z) \in Msgs /\ SizeMsg(z).type = SetSize /\ SizeMsg(z).ts = 0
           /\ SizeMsg(z).body \in Seq(Cells) /\ Len(SizeMsg(z).body) = 1
           /\ SizeMsg(z).body # <<>> /\ SizeMsg(z).body[1].v = z
<1>1. z \in Nat /\ StampMod \in Nat \ {0}
  BY DEF ChunkAssumption
<1>2. z \in Fields
  BY <1>1 DEF Fields
<1>3. PICK x \in Cells : x = Cell("size", z) /\ x.v = z
  BY <1>2, CellIn DEF Kinds
<1>4. PICK b : b = <<x>>
  OBVIOUS
<1>5. b \in Seq(Cells) /\ Len(b) = 1 /\ b # <<>> /\ b[1].v = z
  BY <1>3, <1>4
<1>6. SizeMsg(z) = [type |-> SetSize, stream |-> 0, ts |-> 0, body |-> b]
  BY <1>3, <1>4 DEF SizeMsg, Msg
<1> QED
  BY <1>1, <1>5, <1>6 DEF Msgs, AllTypes, AllStreams

\* It goes out as one chunk.
LEMMA SizeChunkIs ==
    ASSUME ChunkAssumption, NEW z \in Sizes, NEW w \in WriterRecs
    PROVE  Chunks(Ctrl, w, SizeMsg(z))[1] =
              ChunkOf(Ctrl, Format(w, SizeMsg(z)), HeadOf(w, SizeMsg(z)), SizeMsg(z).body, 0, 1)
<1>1. PICK m : m = SizeMsg(z)
  OBVIOUS
<1>2. Len(m.body) = 1 /\ m.body # <<>>
  BY <1>1, SizeMsgIs
<1>3. PICK y \in Nat \ {0} : y = w.size
  BY DEF WriterRecs
<1>4. Count(w, m) = (1 + y - 1) \div y
  BY <1>2, <1>3 DEF Count
<1>5. (1 + y - 1) \div y \in Nat \ {0}
  <2>1. 1 \in Nat \ {0} /\ y \in Nat \ {0}
    BY <1>3
  <2> QED
    BY <2>1, CountFits
<1>6. 1 \in 1 .. Count(w, m)
  BY <1>4, <1>5
<1>7. Chunks(Ctrl, w, m)[1] = HeadCells(Ctrl, Format(w, m), HeadOf(w, m))
          \o SubSeq(m.body, (1 - 1) * y + 1, IF 1 * y <= Len(m.body) THEN 1 * y ELSE Len(m.body))
  BY <1>3, <1>6 DEF Chunks
<1>8. (1 - 1) * y + 1 = 0 + 1 /\ (IF 1 * y <= Len(m.body) THEN 1 * y ELSE Len(m.body)) = 1
  <2>1. 1 * y = y /\ (1 - 1) * y = 0
    BY <1>3
  <2>2. y <= 1 => y = 1
    BY <1>3
  <2> QED
    BY <1>2, <2>1, <2>2
<1> QED
  BY <1>1, <1>7, <1>8 DEF ChunkOf

\* A message added to the history, and its header.
IsAdded(S, c, m) ==
    /\ Len(Add(S, c, m)[c]) = Len(S[c]) + 1 /\ Add(S, c, m)[c][Len(S[c]) + 1] = m
    /\ \A d \in AllCsids : d # c => Add(S, c, m)[d] = S[d]

LEMMA AddedIs ==
    ASSUME NEW S \in [AllCsids -> Seq(Msgs)], NEW c \in AllCsids, NEW m \in Msgs
    PROVE  IsAdded(S, c, m)
BY Appended DEF IsAdded

HeadAdded(S, hd, c, m, w) ==
    /\ Add(S, c, m) \in [AllCsids -> Seq(Msgs)] /\ Grows(S, Add(S, c, m))
    /\ Grows(hd, Add(hd, c, Entry(w, m))) /\ HeadsFit(Add(S, c, m), Add(hd, c, Entry(w, m)))
    /\ Add(hd, c, Entry(w, m))[c][Len(S[c]) + 1] = Entry(w, m)

LEMMA HeadAddedIs ==
    ASSUME ChunkAssumption, NEW S \in [AllCsids -> Seq(Msgs)], NEW hd, HeadsFit(S, hd),
           NEW c \in AllCsids, NEW m \in Msgs, NEW w, WriterFits(S, hd, c, w)
    PROVE  HeadAdded(S, hd, c, m, w)
BY HeadsFitWritten DEF HeadAdded

\* The chunk size changes: everything before it has been sent (WriteSetChunkSize).
LEMMA SizeKeeps ==
    ASSUME ChunkAssumption, sent \in [AllCsids -> Seq(Msgs)], cks \in [DOMAIN cks -> StreamRecs],
           NEW hd, NEW A, NEW Q, NEW off, NEW at, NEW n, NEW k, Sound(hd, A, Q, off, at, n, k),
           NEW z \in Sizes, WriteSetChunkSize(z)
    PROVE  /\ sent' = Add(sent, Ctrl, SizeMsg(z))
           /\ \E gd, B, R, of, bt : Sound(gd, B, R, of, bt, n, k)'
<1>a. PICK S \in [AllCsids -> Seq(Msgs)] : S = sent
  OBVIOUS
<1>b. S \in [AllCsids -> Seq(Msgs)]
  BY <1>a
<1>1. Ctrl \in AllCsids
  BY DEF AllCsids
<1>2. /\ History(S, hd, A, Q, off, at) /\ WritersFit(S, hd, at[Len(Q)])
      /\ Reader(S, hd, A, Q, off, at, n, k) /\ Supply(A, off[n] + k)
      /\ A \in Seq(Cells) /\ Q \in Seq(PartRecs) /\ Len(Q) \in Nat
      /\ at \in [0 .. Len(Q) -> Places] /\ off \in [0 .. Len(Q) -> Nat]
      /\ n \in 0 .. Len(Q) /\ k \in Nat /\ off[n] \in Nat /\ off[n] + k \in Nat
  BY <1>a, SoundIs
<1>3. PICK s \in Places : s = at[Len(Q)] /\ \A d \in AllCsids : PlaceFits(S, d, s[d])
  <2>1. Len(Q) \in 0 .. Len(Q)
    BY <1>2
  <2>2. at[Len(Q)] \in Places
    BY <1>2, <2>1
  <2>3. \A d \in AllCsids : PlaceFits(S, d, at[Len(Q)][d])
    BY <1>2, <2>1 DEF History, PartsFit
  <2> QED
    BY <2>2, <2>3
<1>4. /\ writers \in [AllCsids -> WriterRecs]
      /\ queued \in [AllCsids -> Seq(Seq(Cells))]
      /\ \A d \in AllCsids : WriterFits(S, hd, d, writers[d]) /\ QueueFits(S, hd, d, s[d], queued[d])
  BY <1>2, <1>3 DEF WritersFit
<1>5. PICK w \in WriterRecs : w = writers[Ctrl] /\ WriterFits(S, hd, Ctrl, w)
  BY <1>1, <1>4
<1>6. PICK m \in Msgs : m = SizeMsg(z)
  BY SizeMsgIs
<1>7. m.type = SetSize /\ m.ts = 0 /\ m.body \in Seq(Cells) /\ Len(m.body) = 1 /\ m.body[1].v = z
  BY <1>6, SizeMsgIs
<1>8. /\ \A d \in AllCsids : queued[d] = <<>>
      /\ wire' = wire \o Chunks(Ctrl, w, m)[1]
      /\ writers' = [d \in AllCsids |->
            [(IF d = Ctrl THEN Written(writers[d], m) ELSE writers[d]) EXCEPT !.size = z]]
      /\ sent' = Add(S, Ctrl, m)
      /\ UNCHANGED <<peer, queued, midway, readerVars>>
  BY <1>a, <1>5, <1>6 DEF WriteSetChunkSize, SizeMsg, Add
<1>9. PICK T : T = Add(S, Ctrl, m)
  OBVIOUS
<1>10. PICK gd : gd = Add(hd, Ctrl, Entry(w, m))
  OBVIOUS
<1>11. /\ T \in [AllCsids -> Seq(Msgs)] /\ Grows(S, T) /\ Grows(hd, gd) /\ HeadsFit(T, gd)
       /\ gd[Ctrl][Len(S[Ctrl]) + 1] = Entry(w, m)
  <2>1. HeadsFit(S, hd)
    BY <1>2 DEF History
  <2>2. WriterFits(S, hd, Ctrl, w)
    BY <1>5
  <2>3. /\ Add(S, Ctrl, m) \in [AllCsids -> Seq(Msgs)] /\ Grows(S, Add(S, Ctrl, m))
        /\ Grows(hd, Add(hd, Ctrl, Entry(w, m))) /\ HeadsFit(Add(S, Ctrl, m), Add(hd, Ctrl, Entry(w, m)))
        /\ Add(hd, Ctrl, Entry(w, m))[Ctrl][Len(S[Ctrl]) + 1] = Entry(w, m)
    <3>1. m \in Msgs
      BY <1>6
    <3>2. HeadAdded(S, hd, Ctrl, m, w)
      BY <1>1, <1>b, <2>1, <2>2, <3>1, HeadAddedIs
    <3> QED
      BY <3>2 DEF HeadAdded
  <2> QED
    BY <1>9, <1>10, <2>3
<1>12. /\ Len(T[Ctrl]) = Len(S[Ctrl]) + 1 /\ T[Ctrl][Len(S[Ctrl]) + 1] = m
       /\ \A d \in AllCsids : d # Ctrl => T[d] = S[d]
  <2>1. m \in Msgs
    BY <1>6
  <2>2. IsAdded(S, Ctrl, m)
    BY <1>1, <1>b, <2>1, AddedIs
  <2> QED
    BY <1>9, <2>2 DEF IsAdded
<1>13. PICK num \in Nat : num = Len(S[Ctrl])
  BY <1>1, <1>b
<1>14. \A d \in AllCsids : d # Ctrl => gd[d] = hd[d]
  BY <1>2, <1>10 DEF Add, History, HeadsFit
<1>15. Announced(T)
  <2> SUFFICES ASSUME NEW d \in AllCsids, NEW i \in 1 .. Len(T[d])
               PROVE  IF d = Ctrl THEN /\ T[d][i].type = SetSize /\ Len(T[d][i].body) = 1
                                       /\ T[d][i].body[1].v \in Sizes
                      ELSE T[d][i].type # SetSize
    BY DEF Announced
  <2>0. Announced(S)
    BY <1>2 DEF History
  <2>1. CASE d # Ctrl
    BY <1>12, <2>0, <2>1 DEF Announced
  <2>2. CASE d = Ctrl
    <3>1. i \in 1 .. Len(S[Ctrl]) \/ i = Len(S[Ctrl]) + 1
      BY <1>12, <1>13, <2>2
    <3>2. CASE i \in 1 .. Len(S[Ctrl])
      <4>1. T[Ctrl][i] = S[Ctrl][i]
        BY <1>1, <1>11, <3>2, GrowsIs
      <4> QED
        BY <1>1, <2>0, <2>2, <3>2, <4>1 DEF Announced
    <3>3. CASE i = Len(S[Ctrl]) + 1
      BY <1>7, <1>12, <2>2, <3>3
    <3> QED
      BY <3>1, <3>2, <3>3
  <2> QED
    BY <2>1, <2>2
<1>16. History(T, gd, A, Q, off, at)
  <2>1. T \in [AllCsids -> Seq(Msgs)] /\ Grows(S, T) /\ Grows(hd, gd) /\ HeadsFit(T, gd)
    BY <1>11
  <2>2. History(S, hd, A, Q, off, at)
    BY <1>2
  <2> QED
    BY <1>b, <1>15, <2>1, <2>2, HistoryGrows
<1>17. \A d \in AllCsids : s[d].num = Len(S[d]) /\ Done(S, d, s[d]) /\ Done(T, d, s[d])
  <2> TAKE d \in AllCsids
  <2>1. QueueFits(S, hd, d, s[d], <<>>)
    BY <1>4, <1>8
  <2>2. s[d].num = Len(S[d]) /\ Done(S, d, s[d])
    BY <2>1, NoneQueued
  <2>3. s[d] \in Place /\ PlaceFits(S, d, s[d])
    BY <1>3 DEF Places, Place
  <2>4. T \in [AllCsids -> Seq(Msgs)] /\ Grows(S, T)
    BY <1>11
  <2>5. Done(T, d, s[d])
    BY <1>b, <2>2, <2>3, <2>4, PlaceGrows
  <2> QED
    BY <2>2, <2>5
<1>18. PICK q : q = [c |-> Ctrl, num |-> num + 1, from |-> 0, upto |-> 1]
  OBVIOUS
<1>19. q.c = Ctrl /\ q.num = num + 1 /\ q.from = 0 /\ q.upto = 1 /\ q \in PartRecs
  BY <1>1, <1>13, <1>18 DEF PartRecs
<1>20. NextPart(T, q, s)
  <2>1. PICK y \in Nat \ {0} : y = SizeAfter(T, s[Ctrl].num)
    <3>1. s[Ctrl].num \in Nat /\ s[Ctrl].num <= Len(T[Ctrl]) /\ Len(T[Ctrl]) \in Nat
      BY <1>1, <1>12, <1>13, <1>17
    <3> QED
      BY <1>15, <3>1, SizeIs
  <2>2. 1 = Cut(0 + y, 1)
    BY <2>1 DEF Cut
  <2>3. T[Ctrl][num + 1] = m /\ num + 1 = s[Ctrl].num + 1 /\ num + 1 <= Len(T[Ctrl])
    BY <1>1, <1>12, <1>13, <1>17
  <2> QED
    BY <1>1, <1>7, <1>17, <1>19, <2>1, <2>2, <2>3 DEF NextPart
<1>21. Chunks(Ctrl, w, m)[1] = PartCells(T, gd, q)
  <2>1. Chunks(Ctrl, w, m)[1] = ChunkOf(Ctrl, Format(w, m), HeadOf(w, m), m.body, 0, 1)
    BY <1>5, <1>6, SizeChunkIs
  <2>2. T[Ctrl][num + 1] = m /\ gd[Ctrl][num + 1].fmt = Format(w, m) /\ gd[Ctrl][num + 1].head = HeadOf(w, m)
    BY <1>11, <1>12, <1>13 DEF Entry
  <2> QED
    BY <1>19, <2>1, <2>2 DEF PartCells, Fmt, HeadAt
<1>22. /\ PartCells(T, gd, q) \in Seq(Cells)
       /\ \E R, of, bt : /\ History(T, gd, A \o PartCells(T, gd, q), R, of, bt)
                         /\ Further(A, Q, off, at, A \o PartCells(T, gd, q), R, of, bt)
                         /\ bt[Len(R)] = After(q, at[Len(Q)])
  <2>1. q \in PartRecs /\ NextPart(T, q, at[Len(Q)])
    BY <1>3, <1>19, <1>20
  <2>2. T \in [AllCsids -> Seq(Msgs)]
    BY <1>11
  <2> QED
    BY <1>16, <2>1, <2>2, PartSent
<1>23. PICK d \in Seq(Cells) : d = PartCells(T, gd, q)
  BY <1>22
<1>24. PICK B : B = A \o d
  OBVIOUS
<1>25. PICK R, of, bt : /\ History(T, gd, B, R, of, bt) /\ Further(A, Q, off, at, B, R, of, bt)
                        /\ bt[Len(R)] = After(q, s)
  BY <1>3, <1>22, <1>23, <1>24
<1>26. PICK t : t = bt[Len(R)]
  OBVIOUS
<1>27. /\ t[Ctrl] = [num |-> num + 1, upto |-> 1]
       /\ \A e \in AllCsids : e # Ctrl => t[e] = s[e]
  BY <1>1, <1>3, <1>19, <1>25, <1>26 DEF After, Places
<1>28. SizeAfter(T, Len(T[Ctrl])) = z
  BY <1>7, <1>12, <1>13 DEF SizeAfter
<1>29. ASSUME NEW e \in AllCsids PROVE writers'[e] \in WriterRecs /\ WriterFits(T, gd, e, writers'[e])
  <2>0. z \in Nat \ {0}
    BY DEF ChunkAssumption
  <2>1. CASE e = Ctrl
    <3>1. HeadOf(w, m) \in Heads
      BY <1>5, <1>6, FormatIs
    <3>2. PICK v : v = writers'[Ctrl]
      OBVIOUS
    <3>3. v = [Written(w, m) EXCEPT !.size = z]
      BY <1>1, <1>5, <1>8, <3>2
    <3>4. v = [head |-> HeadOf(w, m), ts |-> 0, size |-> z]
      BY <1>5, <1>7, <3>3 DEF Written, WriterRecs
    <3>5. v \in WriterRecs /\ v.size = z /\ v.head = HeadOf(w, m) /\ v.ts = 0
      BY <2>0, <3>1, <3>4 DEF WriterRecs
    <3>6. T[Ctrl] # <<>>
      <4>1. Len(T[Ctrl]) # 0
        BY <1>12, <1>13
      <4> QED
        BY <4>1
    <3>7. gd[Ctrl][Len(T[Ctrl])].head = HeadOf(w, m) /\ T[Ctrl][Len(T[Ctrl])].ts = 0
      BY <1>7, <1>11, <1>12 DEF Entry
    <3>8. WriterFits(T, gd, Ctrl, v)
      BY <1>28, <3>5, <3>6, <3>7 DEF WriterFits
    <3> QED
      BY <2>1, <3>2, <3>5, <3>8
  <2>2. CASE e # Ctrl
    <3>1. PICK u \in WriterRecs : u = writers[e] /\ WriterFits(S, hd, e, u)
      BY <1>4
    <3>2. PICK v : v = writers'[e]
      OBVIOUS
    <3>3. v = [u EXCEPT !.size = z]
      BY <1>8, <2>2, <3>1, <3>2
    <3>4. v \in WriterRecs /\ v.size = z /\ v.head = u.head /\ v.ts = u.ts
      BY <2>0, <3>1, <3>3 DEF WriterRecs
    <3>5. T[e] = S[e] /\ gd[e] = hd[e]
      BY <1>12, <1>14, <2>2
    <3>6. WriterFits(T, gd, e, v)
      BY <1>28, <3>1, <3>4, <3>5 DEF WriterFits
    <3> QED
      BY <3>2, <3>4, <3>6
  <2> QED
    BY <2>1, <2>2
<1>30. WritersFit(T, gd, t)'
  <2>1. queued' = queued
    BY <1>8
  <2>2. ASSUME NEW e \in AllCsids PROVE QueueFits(T, gd, e, t[e], queued'[e])
    <3>1. queued'[e] = <<>>
      BY <1>8, <2>1
    <3>2. t[e].num = Len(T[e]) /\ Done(T, e, t[e])
      <4>1. CASE e = Ctrl
        <5>1. t[Ctrl].num = num + 1 /\ t[Ctrl].upto = 1
          BY <1>27
        <5>2. Done(T, Ctrl, t[Ctrl])
          BY <1>7, <1>12, <1>13, <5>1 DEF Done
        <5> QED
          BY <1>12, <1>13, <4>1, <5>1, <5>2
      <4>2. CASE e # Ctrl
        BY <1>12, <1>17, <1>27, <4>2
      <4> QED
        BY <4>1, <4>2
    <3> QED
      BY <3>1, <3>2 DEF QueueFits
  <2>3. writers' \in [AllCsids -> WriterRecs]
    <3>1. writers' = [e \in AllCsids |-> writers'[e]]
      BY <1>8
    <3> QED
      BY <1>29, <3>1
  <2>4. queued'[Ctrl] = <<>>
    BY <1>1, <1>8, <2>1
  <2> QED
    BY <1>4, <1>29, <2>1, <2>2, <2>3, <2>4, WritersNext
<1>31. Reader(T, gd, B, R, of, bt, n, k)'
  <2>1. History(S, hd, A, Q, off, at) /\ Further(A, Q, off, at, B, R, of, bt)
    BY <1>2, <1>25
  <2>2. T \in [AllCsids -> Seq(Msgs)] /\ Grows(S, T) /\ Grows(hd, gd)
    BY <1>11
  <2>3. Reader(S, hd, A, Q, off, at, n, k)
    BY <1>2
  <2>4. Reader(T, gd, B, R, of, bt, n, k)
    BY <1>b, <2>1, <2>2, <2>3, ReaderGrows
  <2>5. UNCHANGED readerVars
    BY <1>8
  <2> QED
    BY <2>4, <2>5, ReaderSame
<1>32. Supply(B, of[n] + k)'
  <2>1. of[n] = off[n]
    BY <1>2, <1>25 DEF Further
  <2>2. PICK pos \in Nat : pos = off[n] + k
    BY <1>2
  <2>3. Supply(A, pos) /\ A \in Seq(Cells) /\ d \in Seq(Cells)
    BY <1>2, <1>23, <2>2
  <2>4. wire' = wire \o d /\ data' = data
    BY <1>8, <1>21, <1>23 DEF readerVars
  <2>5. Supply(A \o d, pos)'
    BY <2>2, <2>3, <2>4, SupplyGrows
  <2> QED
    BY <1>24, <2>1, <2>2, <2>5
<1>33. sent' = T
  BY <1>8, <1>9
<1>34. Sound(gd, B, R, of, bt, n, k)'
  BY <1>25, <1>26, <1>30, <1>31, <1>32, <1>33 DEF Sound
<1> QED
  BY <1>a, <1>6, <1>8, <1>34

-------------------------------------------------------------------------------
(* The steps of the reader.                                                  *)

LEMMA WritersStay ==
    ASSUME UNCHANGED writerVars, NEW S, NEW hd, NEW s, WritersFit(S, hd, s)
    PROVE  WritersFit(S, hd, s)'
<1>1. writers' = writers /\ queued' = queued
  BY DEF writerVars
<1>2. /\ writers' \in [AllCsids -> WriterRecs] /\ queued' \in [AllCsids -> Seq(Seq(Cells))]
      /\ queued'[Ctrl] = <<>>
  BY <1>1 DEF WritersFit
<1>3. \A d \in AllCsids : WriterFits(S, hd, d, writers'[d]) /\ QueueFits(S, hd, d, s[d], queued'[d])
  BY <1>1 DEF WritersFit
<1> QED
  BY <1>2, <1>3, WritersNext

\* A step of the reader keeps what was written and sent.
LEMMA ReadSound ==
    ASSUME UNCHANGED writerVars,
           NEW hd, NEW A, NEW Q, NEW off, NEW at, NEW n, NEW k, Sound(hd, A, Q, off, at, n, k),
           NEW S, S = sent, NEW i, NEW j,
           Reader(S, hd, A, Q, off, at, i, j)', Supply(A, off[i] + j)'
    PROVE  Sound(hd, A, Q, off, at, i, j)'
<1>1. sent' = S
  BY DEF writerVars
<1>2. History(S, hd, A, Q, off, at) /\ WritersFit(S, hd, at[Len(Q)])
  BY DEF Sound
<1>3. PICK s : s = at[Len(Q)]
  OBVIOUS
<1>4. WritersFit(S, hd, s)
  BY <1>2, <1>3
<1>5. WritersFit(S, hd, s)'
  BY <1>4, WritersStay
<1> QED
  BY <1>1, <1>2, <1>3, <1>5 DEF Sound

LEMMA TakeDrop ==
    ASSUME NEW u \in Seq(Cells), NEW m \in 0 .. Len(u)
    PROVE  /\ Take(u, m) \in Seq(Cells) /\ Len(Take(u, m)) = m /\ \A i \in 1 .. m : Take(u, m)[i] = u[i]
           /\ Drop(u, m) \in Seq(Cells) /\ Len(Drop(u, m)) = Len(u) - m
           /\ \A i \in 1 .. Len(u) - m : Drop(u, m)[i] = u[m + i]
<1>1. PICK l \in Nat : l = Len(u)
  OBVIOUS
<1>2. m \in 0 .. l
  BY <1>1
<1>3. \A i \in 1 .. l : u[i] \in Cells
  BY <1>1
<1>4. /\ SubSeq(u, 1, m) \in Seq(Cells) /\ Len(SubSeq(u, 1, m)) = m
      /\ \A i \in 1 .. m : SubSeq(u, 1, m)[i] = u[i]
  <2>1. \A i \in 1 .. m : u[i] \in Cells
    BY <1>2, <1>3
  <2> QED
    BY <1>2, <2>1, SubSeqProperties
<1>5. /\ SubSeq(u, m + 1, l) \in Seq(Cells) /\ Len(SubSeq(u, m + 1, l)) = l - m
      /\ \A i \in 1 .. l - m : SubSeq(u, m + 1, l)[i] = u[m + i]
  <2>1. \A i \in m + 1 .. l : u[i] \in Cells
    BY <1>2, <1>3
  <2>2. /\ SubSeq(u, m + 1, l) \in Seq(Cells)
        /\ Len(SubSeq(u, m + 1, l)) = IF m + 1 <= l THEN l - (m + 1) + 1 ELSE 0
        /\ \A i \in 1 .. l - (m + 1) + 1 : SubSeq(u, m + 1, l)[i] = u[(m + 1) + i - 1]
    BY <1>2, <2>1, SubSeqProperties
  <2>3. l - (m + 1) + 1 = l - m /\ \A i \in Int : (m + 1) + i - 1 = m + i
    BY <1>2
  <2> QED
    BY <1>2, <2>2, <2>3
<1> QED
  BY <1>1, <1>4, <1>5 DEF Take, Drop

\* The next m cells of the input are the next m cells sent.
LEMMA SupplyTaken ==
    ASSUME NEW A \in Seq(Cells), NEW pos \in Nat, Supply(A, pos), NEW m \in 0 .. Len(data),
           data' = Drop(data, m), wire' = wire
    PROVE  Supply(A, pos + m)'
<1>1. PICK u \in Seq(Cells) : u = data
  BY DEF Supply
<1>2. PICK x \in Nat : x = Len(u)
  BY <1>1
<1>3. PICK v \in Seq(Cells) : v = wire
  BY DEF Supply
<1>4. PICK y \in Nat : y = Len(v)
  BY <1>3
<1>5. /\ Len(A) = pos + x + y
      /\ \A i \in 1 .. x : u[i] = A[pos + i]
      /\ \A i \in 1 .. y : v[i] = A[pos + x + i]
  BY <1>1, <1>2, <1>3, <1>4 DEF Supply
<1>6. m \in 0 .. x
  BY <1>1, <1>2
<1>7. PICK w : w = Drop(u, m)
  OBVIOUS
<1>8. w \in Seq(Cells) /\ Len(w) = x - m /\ \A i \in 1 .. x - m : w[i] = u[m + i]
  <2>1. u \in Seq(Cells) /\ m \in 0 .. Len(u)
    BY <1>1, <1>2, <1>6
  <2> QED
    BY <1>2, <1>7, <2>1, TakeDrop
<1>9. \A i \in 1 .. x - m : w[i] = A[pos + m + i]
  <2> TAKE i \in 1 .. x - m
  <2>1. m + i \in 1 .. x /\ pos + (m + i) = pos + m + i
    BY <1>2, <1>6
  <2>2. w[i] = u[m + i]
    BY <1>8
  <2>3. u[m + i] = A[pos + (m + i)]
    BY <1>5, <2>1
  <2> QED
    BY <2>1, <2>2, <2>3
<1>10. \A i \in 1 .. y : v[i] = A[pos + m + (x - m) + i]
  <2> TAKE i \in 1 .. y
  <2>1. pos + x + i = pos + m + (x - m) + i
    BY <1>2, <1>4, <1>6
  <2> QED
    BY <1>5, <2>1
<1>11. Len(A) = pos + m + (x - m) + y
  BY <1>2, <1>4, <1>5, <1>6
<1>12. data' = w /\ wire' = v
  BY <1>1, <1>3, <1>7
<1> QED
  BY <1>3, <1>4, <1>8, <1>9, <1>10, <1>11, <1>12, ZenonT(30) DEF Supply

\* readRtmpMessage is called (Input).
LEMMA InputKeeps ==
    ASSUME NEW hd, NEW A, NEW Q, NEW off, NEW at, NEW n, NEW k, Sound(hd, A, Q, off, at, n, k),
           NEW m \in 1 .. Len(wire), Input(m)
    PROVE  Sound(hd, A, Q, off, at, n, k)'
<1>a. PICK S : S = sent
  OBVIOUS
<1>1. /\ Reader(S, hd, A, Q, off, at, n, k) /\ Supply(A, off[n] + k)
      /\ off[n] + k \in Nat /\ A \in Seq(Cells)
  BY <1>a, SoundIs
<1>2. /\ data' = Take(wire, m) /\ wire' = Drop(wire, m) /\ data = <<>>
      /\ UNCHANGED writerVars /\ UNCHANGED <<state, headCache, current, cks, readSize, received>>
  BY DEF Input, Parsing
<1>3. Reader(S, hd, A, Q, off, at, n, k)'
  <2>1. Reader(S, hd, A, Q, off, at, n, k)
    BY <1>1
  <2>2. UNCHANGED <<state, headCache, current, cks, readSize, received>>
    BY <1>2
  <2> QED
    BY <2>1, <2>2, ReaderStays
<1>4. Supply(A, off[n] + k)'
  <2>1. PICK pos \in Nat : pos = off[n] + k
    BY <1>1
  <2>2. PICK v \in Seq(Cells) : v = wire
    BY <1>1 DEF Supply
  <2>3. PICK y \in Nat : y = Len(v)
    BY <2>2
  <2>4. Len(A) = pos + y /\ \A i \in 1 .. y : v[i] = A[pos + i]
    <3>1. Len(data) = 0
      BY <1>2
    <3>2. Len(A) = pos + Len(data) + Len(wire) /\ \A i \in 1 .. Len(wire) : wire[i] = A[pos + Len(data) + i]
      BY <1>1, <2>1 DEF Supply
    <3>3. Len(A) = pos + 0 + y /\ \A i \in 1 .. y : v[i] = A[pos + 0 + i]
      BY <2>2, <2>3, <3>1, <3>2
    <3>4. pos + 0 = pos
      BY <2>1
    <3> QED
      BY <3>3, <3>4
  <2>5. m \in 0 .. y
    BY <2>2, <2>3
  <2>6. PICK u : u = Take(v, m)
    OBVIOUS
  <2>7. PICK w : w = Drop(v, m)
    OBVIOUS
  <2>8. /\ u \in Seq(Cells) /\ Len(u) = m /\ \A i \in 1 .. m : u[i] = v[i]
        /\ w \in Seq(Cells) /\ Len(w) = y - m /\ \A i \in 1 .. y - m : w[i] = v[m + i]
    <3>1. v \in Seq(Cells) /\ m \in 0 .. Len(v)
      BY <2>2, <2>3, <2>5
    <3> QED
      BY <2>3, <2>6, <2>7, <3>1, TakeDrop
  <2>9. \A i \in 1 .. m : u[i] = A[pos + i]
    <3> TAKE i \in 1 .. m
    <3>1. i \in 1 .. y
      BY <2>3, <2>5
    <3> QED
      BY <2>4, <2>8, <3>1
  <2>10. \A i \in 1 .. y - m : w[i] = A[pos + m + i]
    <3> TAKE i \in 1 .. y - m
    <3>1. m + i \in 1 .. y /\ pos + (m + i) = pos + m + i
      BY <2>1, <2>3, <2>5
    <3>2. w[i] = v[m + i]
      BY <2>8
    <3>3. v[m + i] = A[pos + (m + i)]
      BY <2>4, <3>1
    <3> QED
      BY <3>1, <3>2, <3>3
  <2>11. Len(A) = pos + m + (y - m)
    <3>1. pos + y = pos + m + (y - m)
      BY <2>1, <2>3, <2>5, SMTT(30)
    <3> QED
      BY <2>4, <3>1
  <2>12. data' = u /\ wire' = w
    BY <1>2, <2>2, <2>6, <2>7
  <2> QED
    BY <2>1, <2>8, <2>9, <2>10, <2>11, <2>12 DEF Supply
<1> QED
  BY <1>a, <1>2, <1>3, <1>4, ReadSound

\* A step that leaves what the reader has of the chunk stream c alone.
Same(c) ==
    /\ c \in DOMAIN cks' <=> c \in DOMAIN cks
    /\ c \in DOMAIN cks => cks'[c] = cks[c]
    /\ received'[c] = received[c]

LEMMA SettledSame ==
    ASSUME NEW S, NEW hd, NEW c, NEW p, Same(c), Settled(S, hd, c, p)
    PROVE  Settled(S, hd, c, p)'
<1>1. /\ c \in DOMAIN cks' <=> c \in DOMAIN cks
      /\ c \in DOMAIN cks => cks'[c] = cks[c]
      /\ received'[c] = received[c]
  BY DEF Same
<1>2. CASE p.num = 0
  BY <1>1, <1>2 DEF Settled
<1>3. CASE p.num # 0
  <2>1. c \in DOMAIN cks /\ Rests(S, hd, c, p, received[c], cks[c])
    BY <1>3 DEF Settled
  <2>2. c \in DOMAIN cks' /\ Rests(S, hd, c, p, received'[c], cks'[c])
    BY <1>1, <2>1
  <2> QED
    BY <1>3, <2>2 DEF Settled
<1> QED
  BY <1>2, <1>3

\* The next m cells are read in the middle of a part, that is of chunk stream c.
ReadsOn(c, m) ==
    /\ UNCHANGED writerVars /\ wire' = wire /\ m \in 0 .. Len(data) /\ data' = Drop(data, m)
    /\ headCache' = <<>> /\ state' # "basic" /\ current' = c /\ readSize' = readSize
    /\ c \in DOMAIN cks' /\ \A d \in AllCsids : d # c => Same(d)

LEMMA ReadsOnKeeps ==
    ASSUME NEW hd, NEW A, NEW Q, NEW off, NEW at, NEW n, NEW k, Sound(hd, A, Q, off, at, n, k),
           NEW S, S = sent, n < Len(Q), NEW m, ReadsOn(Q[n + 1].c, m),
           Within(S, hd, A, off[n], Q[n + 1], k + m, state', received'[Q[n + 1].c], cks'[Q[n + 1].c])
    PROVE  Sound(hd, A, Q, off, at, n, k + m)'
<1>1. /\ Reader(S, hd, A, Q, off, at, n, k) /\ Supply(A, off[n] + k)
      /\ off[n] \in Nat /\ off[n] + k \in Nat /\ k \in Nat /\ A \in Seq(Cells) /\ n \in 0 .. Len(Q)
  BY SoundIs
<1>2. PICK c : c = Q[n + 1].c
  OBVIOUS
<1>3. /\ UNCHANGED writerVars /\ wire' = wire /\ m \in 0 .. Len(data) /\ data' = Drop(data, m)
      /\ headCache' = <<>> /\ state' # "basic" /\ current' = c /\ readSize' = readSize
      /\ c \in DOMAIN cks' /\ \A d \in AllCsids : d # c => Same(d)
  BY <1>2 DEF ReadsOn
<1>4. Reading(S, hd, A, off[n], Q[n + 1], k + m)'
  BY <1>2, <1>3 DEF Reading
<1>5. \A d \in AllCsids : d # c => Settled(S, hd, d, at[n][d])'
  <2> TAKE d \in AllCsids
  <2> HAVE d # c
  <2>1. Same(d)
    BY <1>3
  <2>2. state # "basic" => current = c
    BY <1>1, <1>2 DEF Reader
  <2>3. Settled(S, hd, d, at[n][d])
    BY <1>1, <2>2 DEF Reader
  <2>4. PICK p : p = at[n][d]
    OBVIOUS
  <2>5. Settled(S, hd, d, p)
    BY <2>3, <2>4
  <2>6. Settled(S, hd, d, p)'
    BY <2>1, <2>5, SettledSame
  <2> QED
    BY <2>4, <2>6
<1>6. readSize' = SizeAfter(S, at[n][Ctrl].num)
  BY <1>1, <1>3 DEF Reader
<1>7. k + m \in Nat
  BY <1>1, <1>3, SMTT(30) DEF Supply
<1>8. Len(headCache') = 0 /\ headCache' \in Seq(Cells)
  BY <1>3
<1>9. Reader(S, hd, A, Q, off, at, n, k + m)'
  BY <1>1, <1>2, <1>3, <1>4, <1>5, <1>6, <1>7, <1>8 DEF Reader
<1>10. Supply(A, off[n] + (k + m))'
  <2>1. PICK pos \in Nat : pos = off[n] + k
    BY <1>1
  <2>2. Supply(A, pos)
    BY <1>1, <2>1
  <2>3. data' = Drop(data, m) /\ wire' = wire /\ m \in 0 .. Len(data)
    BY <1>3
  <2>4. Supply(A, pos + m)'
    BY <1>1, <2>2, <2>3, SupplyTaken
  <2>5. data \in Seq(Cells)
    BY <1>1 DEF Supply
  <2>6. pos + m = off[n] + (k + m)
    BY <1>1, <1>3, <2>1, <2>5
  <2> QED
    BY <2>4, <2>6
<1>11. UNCHANGED writerVars
  BY <1>3
<1>12. PICK j : j = k + m
  OBVIOUS
<1>13. Reader(S, hd, A, Q, off, at, n, j)' /\ Supply(A, off[n] + j)'
  BY <1>9, <1>10, <1>12
<1>14. Sound(hd, A, Q, off, at, n, j)'
  BY <1>11, <1>13, ReadSound
<1> QED
  BY <1>12, <1>14

\* There is input for the next part only if it has been sent.
LEMMA DataHas ==
    ASSUME NEW hd, NEW A, NEW Q, NEW off, NEW at, NEW n, NEW k, Sound(hd, A, Q, off, at, n, k),
           data # <<>> \/ state # "basic"
    PROVE  n < Len(Q)
<1>1. PICK S : S = sent
  OBVIOUS
<1>2. /\ Reader(S, hd, A, Q, off, at, n, k) /\ Supply(A, off[n] + k)
      /\ off[n] \in Nat /\ k \in Nat /\ A \in Seq(Cells) /\ n \in 0 .. Len(Q) /\ Len(Q) \in Nat
      /\ off[Len(Q)] = Len(A)
  BY <1>1, SoundIs DEF History, CellsFit
<1>3. CASE state # "basic"
  BY <1>2, <1>3 DEF Reader
<1>4. CASE state = "basic"
  <2> SUFFICES ASSUME n = Len(Q) PROVE FALSE
    BY <1>2
  <2>1. k = 0
    BY <1>2, <1>4 DEF Reader
  <2>2. data \in Seq(Cells) /\ wire \in Seq(Cells) /\ Len(A) = (off[n] + k) + Len(data) + Len(wire)
    BY <1>2 DEF Supply
  <2>3. Len(data) \in Nat /\ Len(wire) \in Nat /\ Len(data) # 0
    BY <1>4, <2>2, EmptySeq
  <2> QED
    BY <1>2, <2>1, <2>2, <2>3
<1> QED
  BY <1>3, <1>4

\* The cells of u are those of A after the p-th.
Follows(u, A, p) == \A i \in 1 .. Len(u) : u[i] = A[p + i]

\* What was kept and the next m cells of the input (readRtmpMessage's caches).
LEMMA GatheredSome ==
    ASSUME NEW A, NEW u \in Seq(Cells), NEW d \in Seq(Cells), NEW p \in Nat,
           Follows(u, A, p), NEW m \in 0 .. Len(d), \A i \in 1 .. m : d[i] = A[(p + Len(u)) + i]
    PROVE  /\ u \o Take(d, m) \in Seq(Cells) /\ Len(u \o Take(d, m)) = Len(u) + m
           /\ Follows(u \o Take(d, m), A, p)
<1>1. PICK v : v = Take(d, m)
  OBVIOUS
<1>2. v \in Seq(Cells) /\ Len(v) = m /\ \A i \in 1 .. m : v[i] = d[i]
  BY <1>1, TakeDrop
<1>3. PICK x \in Nat : x = Len(u)
  OBVIOUS
<1>4. PICK w : w = u \o v
  OBVIOUS
<1>5. /\ w \in Seq(Cells) /\ Len(w) = x + m
      /\ \A i \in 1 .. x : w[i] = u[i]
      /\ \A i \in 1 .. x + m : i > x => w[i] = v[i - x]
  <2>1. /\ w \in Seq(Cells) /\ Len(w) = x + m
        /\ \A i \in 1 .. x + m : w[i] = IF i <= x THEN u[i] ELSE v[i - x]
    <3>1. u \in Seq(Cells) /\ v \in Seq(Cells)
      BY <1>2
    <3>2. /\ u \o v \in Seq(Cells) /\ Len(u \o v) = Len(u) + Len(v)
          /\ \A i \in 1 .. Len(u) + Len(v) : (u \o v)[i] = IF i <= Len(u) THEN u[i] ELSE v[i - Len(u)]
      BY <3>1, ConcatProperties
    <3> QED
      BY <3>2, <1>2, <1>3, <1>4
  <2>2. \A i \in 1 .. x : i \in 1 .. x + m /\ i <= x
    BY <1>3
  <2>3. \A i \in 1 .. x + m : i > x => ~(i <= x)
    BY <1>3
  <2> QED
    BY <2>1, <2>2, <2>3
<1>6. \A i \in 1 .. x + m : w[i] = A[p + i]
  <2> TAKE i \in 1 .. x + m
  <2>1. CASE i <= x
    <3>1. i \in 1 .. x
      BY <1>3, <2>1
    <3> QED
      BY <1>3, <1>5, <3>1 DEF Follows
  <2>2. CASE i > x
    <3>1. i - x \in 1 .. m /\ (p + x) + (i - x) = p + i
      BY <1>3, <2>2
    <3>2. d[i - x] = A[(p + x) + (i - x)]
      BY <1>3, <3>1
    <3> QED
      BY <1>2, <1>5, <2>2, <3>1, <3>2
  <2> QED
    BY <1>3, <2>1, <2>2
<1> QED
  BY <1>1, <1>3, <1>4, <1>5, <1>6 DEF Follows

LEMMA Gathered ==
    ASSUME NEW A, NEW u \in Seq(Cells), NEW d \in Seq(Cells), NEW p \in Nat,
           Follows(u, A, p), Follows(d, A, p + Len(u)), NEW m \in 0 .. Len(d)
    PROVE  /\ u \o Take(d, m) \in Seq(Cells) /\ Len(u \o Take(d, m)) = Len(u) + m
           /\ Follows(u \o Take(d, m), A, p)
<1>1. \A i \in 1 .. m : i \in 1 .. Len(d)
  OBVIOUS
<1>2. \A i \in 1 .. m : d[i] = A[(p + Len(u)) + i]
  BY <1>1 DEF Follows
<1> QED
  BY <1>2, GatheredSome

\* What the reader finds in the basic header.
LEMMA BasicRead ==
    ASSUME ChunkAssumption, NEW c \in AllCsids, NEW f \in 0 .. 3
    PROVE  /\ BasicCells(c, f)[1].v[1] = f
           /\ (IF BasicCells(c, f)[1].v[2] = None THEN 2 ELSE 1) = BLen(c)
           /\ (IF BLen(c) = 2 THEN BasicCells(c, f)[2].v ELSE BasicCells(c, f)[1].v[2]) = c
<1>1. c # None
  BY DEF ChunkAssumption, AllCsids
<1>2. CASE c \in Wide
  BY <1>2 DEF BasicCells, BLen, Cell
<1>3. CASE c \notin Wide
  BY <1>1, <1>3 DEF BasicCells, BLen, Cell
<1> QED
  BY <1>2, <1>3

\* What the basic header changes of a chunk stream, and the state it leads to.
Headed(f, cs)    == [cs EXCEPT !.fmt = f, !.first = IF cs.message = <<>> THEN f ELSE @]
HeadState(f, cs) == IF f # 3 THEN "head" ELSE IF cs.hasExt THEN "ext" ELSE "payload"

\* What the reader has of a chunk stream at the place p, new ones included.
Known(S, hd, c, p, r, cs) ==
    IF p.num = 0 THEN cs = NewStream /\ r = <<>> ELSE cs \in StreamRecs /\ Rests(S, hd, c, p, r, cs)

LEMMA NewIs == ASSUME ChunkAssumption PROVE NewStream \in StreamRecs
<1>1. 0 \in 0 .. (StampMod - 1)
  BY DEF ChunkAssumption
<1>2. [ts |-> 0, len |-> 0, type |-> None, stream |-> None] \in Heads
  BY DEF Heads
<1>3. <<>> \in Seq(Cells)
  OBVIOUS
<1> QED
  BY <1>1, <1>2, <1>3 DEF NewStream, StreamRecs

LEMMA HeadedIs ==
    ASSUME NEW cs \in StreamRecs, NEW f \in 0 .. 3
    PROVE  /\ Headed(f, cs) \in StreamRecs
           /\ Headed(f, cs).fmt = f /\ Headed(f, cs).first = IF cs.message = <<>> THEN f ELSE cs.first
           /\ Headed(f, cs).hdr = cs.hdr /\ Headed(f, cs).message = cs.message
           /\ Headed(f, cs).chunkRead = cs.chunkRead /\ Headed(f, cs).hasExt = cs.hasExt
           /\ Headed(f, cs).ts = cs.ts /\ Headed(f, cs).head = cs.head
BY DEF Headed, StreamRecs

\* A header that is not whole agrees with the one before it on what it leaves out.
LEMMA LikeTheLast ==
    ASSUME NEW S, NEW hd, NEW c, NEW i, HeadFits(S, hd, c, i), hd[c][i].fmt # 0,
           NEW cs, HeadIs(cs, hd[c][i - 1].head)
    PROVE  /\ cs.head.stream = hd[c][i].head.stream
           /\ hd[c][i].fmt \in {2, 3} => /\ cs.head.len = hd[c][i].head.len
                                        /\ cs.head.type = hd[c][i].head.type
           /\ hd[c][i].fmt = 3 => HeadIs(cs, hd[c][i].head)
<1> DEFINE f == hd[c][i].fmt
           h == hd[c][i].head
           g == hd[c][i - 1].head
<1>1. /\ h.stream = g.stream
      /\ f \in {2, 3} => h.len = g.len /\ h.type = g.type
      /\ f = 3 => h.ts = g.ts
  BY ZenonT(30) DEF HeadFits
<1>2. /\ cs.head.len = g.len /\ cs.head.type = g.type /\ cs.head.stream = g.stream
      /\ cs.head.ts = g.ts /\ cs.hasExt = (g.ts >= ExtStamp)
  BY ZenonT(30) DEF HeadIs, HeadBut
<1> HIDE DEF f, h, g
<1>3. /\ cs.head.stream = h.stream
      /\ f \in {2, 3} => cs.head.len = h.len /\ cs.head.type = h.type
  BY <1>1, <1>2
<1>4. f = 3 => HeadIs(cs, h)
  <2> HAVE f = 3
  <2>1. f \in {2, 3}
    OBVIOUS
  <2>2. h.stream = g.stream /\ h.len = g.len /\ h.type = g.type /\ h.ts = g.ts
    BY <1>1, <2>1
  <2> QED
    BY <1>2, <2>2 DEF HeadIs, HeadBut
<1> QED
  BY <1>3, <1>4 DEF f, h

\* The chunk stream of the next part is as its first message or the one before left it.
LEMMA KnownIs ==
    ASSUME ChunkAssumption, NEW S \in [AllCsids -> Seq(Msgs)], NEW hd, NEW A, NEW o, NEW q, NEW s,
           PartAt(S, hd, A, o, q, s), NEW r, NEW cs, Known(S, hd, q.c, s[q.c], r, cs)
    PROVE  /\ cs \in StreamRecs /\ cs.hdr = <<>> /\ cs.chunkRead = 0
           /\ Kept(S, q.c, q.num, q.from, r, cs)
           /\ q.from # 0 => cs.first = hd[q.c][q.num].fmt
           /\ Fmt(hd, q) \in {1, 2} => HeadIs(cs, hd[q.c][q.num - 1].head)
           /\ Fmt(hd, q) = 3 => HeadIs(cs, HeadAt(hd, q))
<1> DEFINE c == q.c
           p == s[q.c]
<1>1. /\ q \in PartRecs /\ NextPart(S, q, s) /\ q.num \in 1 .. Len(S[q.c]) /\ s \in Places
      /\ HeadFits(S, hd, q.c, q.num) /\ hd[q.c][q.num] \in [fmt : 0 .. 3, head : Heads]
      /\ c \in AllCsids /\ q.from \in Nat /\ q.num \in Nat /\ p.num \in Nat
  BY DEF PartAt, PartRecs, Places
<1>2. /\ q.from = 0 => q.num = p.num + 1 /\ Done(S, c, p)
      /\ q.from # 0 => q.num = p.num /\ q.from = p.upto /\ q.from < Len(S[c][q.num].body)
  BY <1>1 DEF NextPart
<1>3. CASE p.num = 0
  <2>1. cs = NewStream /\ r = <<>>
    BY <1>3 DEF Known
  <2>2. q.from = 0 /\ q.num = 1
    BY <1>1, <1>2, <1>3
  <2>3. Fmt(hd, q) = 0
    BY <1>1, <2>2 DEF Fmt, HeadFits
  <2>4. cs \in StreamRecs /\ cs.hdr = <<>> /\ cs.chunkRead = 0 /\ cs.ts = 0 /\ cs.message = <<>>
    BY <2>1, NewIs DEF NewStream
  <2>5. Kept(S, c, 1, 0, r, cs)
    <3>1. \A i \in 1 .. 1 - 1 : r[i] = S[c][i]
      OBVIOUS
    <3>2. \A j \in 1 .. 0 : cs.message[j] = S[c][1].body[j]
      OBVIOUS
    <3>3. Len(r) = 1 - 1 /\ Len(cs.message) = 0
      BY <2>1, <2>4
    <3> QED
      BY <2>4, <3>1, <3>2, <3>3 DEF Kept
  <2> QED
    BY <2>2, <2>3, <2>4, <2>5
<1>4. CASE p.num # 0
  <2>1. /\ cs \in StreamRecs /\ cs.hdr = <<>> /\ cs.chunkRead = 0 /\ HeadIs(cs, hd[c][p.num].head)
        /\ IF Done(S, c, p) THEN Kept(S, c, p.num + 1, 0, r, cs)
           ELSE Kept(S, c, p.num, p.upto, r, cs) /\ cs.first = hd[c][p.num].fmt
    BY <1>4 DEF Known, Rests
  <2>2. CASE q.from = 0
    <3>1. Kept(S, c, q.num, q.from, r, cs)
      BY <1>2, <2>1, <2>2
    <3>2. q.num - 1 = p.num
      BY <1>1, <1>2, <2>2
    <3>3. HeadIs(cs, hd[c][q.num - 1].head)
      BY <2>1, <3>2
    <3>4. Fmt(hd, q) = 3 => HeadIs(cs, HeadAt(hd, q))
      <4> HAVE Fmt(hd, q) = 3
      <4>1. hd[c][q.num].fmt = 3
        BY <2>2 DEF Fmt
      <4>2. hd[c][q.num].fmt # 0
        BY <4>1
      <4> QED
        BY <1>1, <3>3, <4>1, <4>2, LikeTheLast DEF HeadAt
    <3> QED
      BY <2>1, <2>2, <3>1, <3>3, <3>4
  <2>3. CASE q.from # 0
    <3>1. ~Done(S, c, p)
      BY <1>2, <1>4, <2>3 DEF Done
    <3>2. Fmt(hd, q) = 3 /\ HeadAt(hd, q) = hd[c][p.num].head
      BY <1>2, <2>3 DEF Fmt, HeadAt
    <3> QED
      <4>1. Kept(S, c, q.num, q.from, r, cs) /\ cs.first = hd[c][q.num].fmt
        BY <1>2, <2>1, <2>3, <3>1
      <4>2. HeadIs(cs, HeadAt(hd, q))
        BY <2>1, <3>2
      <4>3. cs \in StreamRecs /\ cs.hdr = <<>> /\ cs.chunkRead = 0
        BY <2>1
      <4>4. Fmt(hd, q) \notin {1, 2}
        BY <3>2
      <4> QED
        BY <4>1, <4>2, <4>3, <4>4
  <2> QED
    BY <2>2, <2>3
<1> QED
  BY <1>3, <1>4

\* After the basic header of the next part the reader is within it.
LEMMA Readied ==
    ASSUME ChunkAssumption, NEW S \in [AllCsids -> Seq(Msgs)], NEW hd, NEW A, NEW o, NEW q, NEW s,
           PartAt(S, hd, A, o, q, s), NEW r, NEW cs, Known(S, hd, q.c, s[q.c], r, cs)
    PROVE  Within(S, hd, A, o, q, BLen(q.c), HeadState(Fmt(hd, q), cs), r, Headed(Fmt(hd, q), cs))
<1>1. /\ cs \in StreamRecs /\ cs.hdr = <<>> /\ cs.chunkRead = 0
      /\ Kept(S, q.c, q.num, q.from, r, cs)
      /\ q.from # 0 => cs.first = hd[q.c][q.num].fmt
      /\ Fmt(hd, q) \in {1, 2} => HeadIs(cs, hd[q.c][q.num - 1].head)
      /\ Fmt(hd, q) = 3 => HeadIs(cs, HeadAt(hd, q))
  BY KnownIs
<1>2. PICK f \in 0 .. 3 : f = Fmt(hd, q)
  BY DEF PartAt, PartSizes
<1>3. PICK ds : ds = Headed(f, cs)
  OBVIOUS
<1>4. /\ ds \in StreamRecs /\ ds.fmt = f /\ ds.first = (IF cs.message = <<>> THEN f ELSE cs.first)
      /\ ds.hdr = <<>> /\ ds.message = cs.message /\ ds.chunkRead = 0
      /\ ds.hasExt = cs.hasExt /\ ds.ts = cs.ts /\ ds.head = cs.head
  BY <1>1, <1>2, <1>3, HeadedIs
<1>5. q.from \in Nat /\ q.upto - q.from \in Nat /\ q \in PartRecs /\ q.upto \in Nat
  BY DEF PartAt, PartRecs, PartSizes
<1>6. Kept(S, q.c, q.num, q.from + ds.chunkRead, r, ds)
  <2>1. q.from + ds.chunkRead = q.from
    BY <1>4, <1>5
  <2> QED
    BY <1>1, <1>4, <2>1 DEF Kept
<1>7. ds.first = hd[q.c][q.num].fmt
  <2>1. Len(cs.message) = q.from
    BY <1>1 DEF Kept
  <2>2. cs.message \in Seq(Cells)
    BY <1>1 DEF StreamRecs
  <2>3. CASE q.from = 0
    <3>1. cs.message = <<>>
      BY <2>1, <2>2, <2>3, EmptySeq
    <3>2. Fmt(hd, q) = hd[q.c][q.num].fmt
      BY <2>3 DEF Fmt
    <3> QED
      BY <1>2, <1>4, <3>1, <3>2
  <2>4. CASE q.from # 0
    <3>1. cs.message # <<>>
      BY <2>1, <2>4
    <3> QED
      BY <1>1, <1>4, <2>4, <3>1
  <2> QED
    BY <2>3, <2>4
<1>8. PICK b \in 1 .. 2 : b = BLen(q.c) /\ b = HeadFrom(q)
  BY DEF PartAt, PartSizes, HeadFrom
<1>9. CASE f # 3
  <2>1. HeadState(f, cs) = "head"
    BY <1>9 DEF HeadState
  <2>2. ds.fmt # 0 => HeadIs(ds, hd[q.c][q.num - 1].head)
    <3> HAVE ds.fmt # 0
    <3>1. Fmt(hd, q) \in {1, 2}
      BY <1>2, <1>4, <1>9
    <3>2. HeadIs(cs, hd[q.c][q.num - 1].head)
      BY <1>1, <3>1
    <3> QED
      BY <1>4, <3>2 DEF HeadIs, HeadBut
  <2>3. b = HeadFrom(q) + Len(ds.hdr) /\ Len(ds.hdr) < HeadLen[f]
    <3>1. Len(ds.hdr) = 0 /\ HeadLen[f] > 0
      BY <1>4, <1>9, HeadLenIs
    <3> QED
      BY <1>8, <3>1, HeadLenIs
  <2>4. \A j \in 1 .. Len(ds.hdr) : ds.hdr[j] = A[o + HeadFrom(q) + j]
    <3>1. 1 .. Len(ds.hdr) = {}
      BY <1>4
    <3> QED
      BY <3>1
  <2>5. AtHead(hd, A, o, q, b, ds)
    BY <1>4, <1>9, <2>2, <2>3, <2>4 DEF AtHead
  <2> QED
    BY <1>2, <1>3, <1>4, <1>6, <1>7, <1>8, <2>1, <2>5 DEF Within
<1>10. CASE f = 3
  <2>1. HeadIs(cs, HeadAt(hd, q))
    BY <1>1, <1>2, <1>10
  <2>2. HeadIs(ds, HeadAt(hd, q)) /\ HeadBut(ds, HeadAt(hd, q))
    BY <1>4, <2>1 DEF HeadIs, HeadBut
  <2>3. HeadAt(hd, q).ts \in Nat /\ ExtStamp \in Nat
    BY DEF PartAt, PartSizes, Heads, ChunkAssumption
  <2>4. PICK e \in {0, 2} : e = ELen(HeadAt(hd, q)) /\ (e = 2 <=> cs.hasExt = TRUE)
    <3>1. cs.hasExt = (HeadAt(hd, q).ts >= ExtStamp)
      BY <2>1 DEF HeadIs
    <3>2. PICK t \in Nat : t = HeadAt(hd, q).ts
      BY <2>3
    <3>3. ELen(HeadAt(hd, q)) \in {0, 2} /\ (ELen(HeadAt(hd, q)) = 2 <=> t >= ExtStamp)
      BY <2>3, <3>2 DEF ELen
    <3>4. cs.hasExt = TRUE <=> t >= ExtStamp
      <4>1. cs.hasExt \in BOOLEAN
        BY <1>1 DEF StreamRecs
      <4> QED
        BY <4>1, <3>1, <3>2
    <3> QED
      BY <3>3, <3>4
  <2>5. ExtFrom(hd, q) = b
    BY <1>2, <1>8, <1>10, HeadLenIs DEF ExtFrom
  <2>6. Len(ds.hdr) = 0
    BY <1>4
  <2>7. CASE e = 2
    <3>1. HeadState(f, cs) = "ext"
      BY <1>10, <2>4, <2>7 DEF HeadState
    <3>2. b = ExtFrom(hd, q) + Len(ds.hdr) /\ Len(ds.hdr) < 2
      BY <2>5, <2>6
    <3>3. \A j \in 1 .. Len(ds.hdr) : ds.hdr[j] = A[o + ExtFrom(hd, q) + j]
      BY <2>6
    <3>4. AtExt(hd, A, o, q, b, ds)
      BY <1>4, <2>2, <2>4, <2>7, <3>2, <3>3 DEF AtExt
    <3> QED
      BY <1>2, <1>3, <1>4, <1>6, <1>7, <1>8, <3>1, <3>4 DEF Within
  <2>8. CASE e = 0
    <3>1. HeadState(f, cs) = "payload"
      <4>1. ~cs.hasExt
        <5>1. cs.hasExt \in BOOLEAN
          BY <1>1 DEF StreamRecs
        <5> QED
          BY <5>1, <2>4, <2>8
      <4> QED
        BY <1>10, <4>1 DEF HeadState
    <3>2. b = PayFrom(hd, q) + ds.chunkRead
      BY <1>4, <2>4, <2>5, <2>8 DEF PayFrom
    <3>3. ds.chunkRead < q.upto - q.from \/ (ds.chunkRead = 0 /\ q.upto = q.from)
      BY <1>4, <1>5
    <3>4. AtPayload(hd, q, b, ds)
      BY <1>4, <2>2, <3>2, <3>3 DEF AtPayload
    <3> QED
      BY <1>2, <1>3, <1>4, <1>6, <1>7, <1>8, <3>1, <3>4 DEF Within
  <2> QED
    BY <2>7, <2>8
<1> QED
  BY <1>9, <1>10

\* The rest of the input is shorter than what it is asked for: all of it is taken.
LEMMA DropAll ==
    ASSUME NEW u \in Seq(Cells)
    PROVE  Drop(u, Len(u)) = <<>> /\ Len(u) \in 0 .. Len(u)
<1>1. Len(u) \in 0 .. Len(u)
  OBVIOUS
<1>2. Drop(u, Len(u)) \in Seq(Cells) /\ Len(Drop(u, Len(u))) = Len(u) - Len(u)
  BY <1>1, TakeDrop
<1>3. Len(u) - Len(u) = 0
  OBVIOUS
<1> QED
  BY <1>1, <1>2, <1>3, EmptySeq

\* What can be told from Sound of the part that is read next.
At(S, hd, A, o, q, s, k) ==
    /\ PartAt(S, hd, A, o, q, s) /\ q.c \in AllCsids /\ o \in Nat /\ k \in Nat
    /\ data \in Seq(Cells) /\ Follows(data, A, o + k)
    /\ headCache \in Seq(Cells)
    /\ state = "basic" =>
          /\ Len(headCache) = k /\ k < BLen(q.c) /\ Follows(headCache, A, o)
          /\ \A c \in AllCsids : Settled(S, hd, c, s[c])
    /\ state # "basic" => /\ headCache = <<>> /\ current = q.c /\ q.c \in DOMAIN cks
                          /\ Within(S, hd, A, o, q, k, state, received[q.c], cks[q.c])
    /\ readSize = SizeAfter(S, s[Ctrl].num)

LEMMA AtIs ==
    ASSUME ChunkAssumption, NEW S \in [AllCsids -> Seq(Msgs)], S = sent,
           NEW hd, NEW A, NEW Q, NEW off, NEW at, NEW n, NEW k, Sound(hd, A, Q, off, at, n, k),
           data # <<>> \/ state # "basic"
    PROVE  At(S, hd, A, off[n], Q[n + 1], at[n], k)
<1>1. /\ History(S, hd, A, Q, off, at) /\ Reader(S, hd, A, Q, off, at, n, k) /\ Supply(A, off[n] + k)
      /\ n \in 0 .. Len(Q) /\ k \in Nat /\ off[n] \in Nat
  BY SoundIs
<1>2. n < Len(Q)
  BY DataHas
<1>3. PartAt(S, hd, A, off[n], Q[n + 1], at[n])
  BY <1>1, <1>2, PartIs
<1>4. Q[n + 1].c \in AllCsids
  BY <1>3 DEF PartAt, PartRecs
<1>5. data \in Seq(Cells) /\ Follows(data, A, off[n] + k)
  BY <1>1 DEF Supply, Follows
<1>6. headCache \in Seq(Cells) /\ readSize = SizeAfter(S, at[n][Ctrl].num)
  BY <1>1 DEF Reader
<1>7. ASSUME state = "basic"
      PROVE  /\ Len(headCache) = k /\ k < BLen(Q[n + 1].c) /\ Follows(headCache, A, off[n])
             /\ \A c \in AllCsids : Settled(S, hd, c, at[n][c])
  <2>1. Len(headCache) = k
    BY <1>1, <1>7 DEF Reader
  <2>2. k < BLen(Q[n + 1].c)
    BY <1>1, <1>2, <1>7 DEF Reader
  <2>3. Follows(headCache, A, off[n])
    BY <1>1, <1>7, <2>1 DEF Reader, Follows
  <2>4. \A c \in AllCsids : Settled(S, hd, c, at[n][c])
    BY <1>1, <1>7 DEF Reader
  <2> QED
    BY <2>1, <2>2, <2>3, <2>4
<1>8. ASSUME state # "basic"
      PROVE  /\ headCache = <<>> /\ current = Q[n + 1].c /\ Q[n + 1].c \in DOMAIN cks
             /\ Within(S, hd, A, off[n], Q[n + 1], k, state, received[Q[n + 1].c], cks[Q[n + 1].c])
  <2>1. Len(headCache) = 0
    BY <1>1, <1>8 DEF Reader
  <2>2. current = Q[n + 1].c /\ Reading(S, hd, A, off[n], Q[n + 1], k)
    BY <1>1, <1>8 DEF Reader
  <2> QED
    BY <1>6, <2>1, <2>2, EmptySeq DEF Reading
<1> QED
  BY <1>1, <1>3, <1>4, <1>5, <1>6, <1>7, <1>8 DEF At

LEMMA Assoc == \A a \in Nat, b \in Nat, c \in Nat : (a + b) + c = a + (b + c)
OBVIOUS

LEMMA RestOf == \A b \in Nat, x \in Nat, z \in Nat : (b + x) + (z - x) = b + z
OBVIOUS

\* More of the basic header, that is not complete yet (ReadBasicHead).
LEMMA BasicMore ==
    ASSUME NEW hd, NEW A, NEW Q, NEW off, NEW at, NEW n, NEW k, Sound(hd, A, Q, off, at, n, k),
           NEW S, S = sent, state = "basic", data # <<>>,
           UNCHANGED writerVars, wire' = wire, data' = <<>>,
           headCache' \in Seq(Cells), Len(headCache') = k + Len(data), Follows(headCache', A, off[n]),
           k + Len(data) < BLen(Q[n + 1].c),
           UNCHANGED <<state, current, cks, readSize, received>>
    PROVE  \E j : Sound(hd, A, Q, off, at, n, j)'
<1>1. /\ Reader(S, hd, A, Q, off, at, n, k) /\ Supply(A, off[n] + k)
      /\ off[n] \in Nat /\ off[n] + k \in Nat /\ k \in Nat /\ A \in Seq(Cells) /\ n \in 0 .. Len(Q)
  BY SoundIs
<1>2. n < Len(Q)
  BY DataHas
<1>3. data \in Seq(Cells)
  BY <1>1 DEF Supply
<1>4. PICK l \in Nat : l = Len(data)
  BY <1>3
<1>5. PICK j \in Nat : j = k + l
  BY <1>1
<1>6. Reader(S, hd, A, Q, off, at, n, j)'
  <2>1. \A d \in AllCsids : Settled(S, hd, d, at[n][d])'
    <3> TAKE d \in AllCsids
    <3>1. Same(d)
      BY DEF Same
    <3>2. PICK p : p = at[n][d]
      OBVIOUS
    <3>3. Settled(S, hd, d, p)
      BY <1>1, <3>2 DEF Reader
    <3>4. Settled(S, hd, d, p)'
      BY <3>1, <3>3, SettledSame
    <3> QED
      BY <3>2, <3>4
  <2>2. readSize' = SizeAfter(S, at[n][Ctrl].num)
    BY <1>1 DEF Reader
  <2>3. state' = "basic" /\ Len(headCache') = j /\ headCache' \in Seq(Cells) /\ j < BLen(Q[n + 1].c)
    BY <1>4, <1>5
  <2>4. \A i \in 1 .. j : headCache'[i] = A[off[n] + i]
    BY <2>3 DEF Follows
  <2>5. n # Len(Q)
    BY <1>1, <1>2
  <2> QED
    BY <1>1, <1>5, <2>1, <2>2, <2>3, <2>4, <2>5 DEF Reader
<1>7. Supply(A, off[n] + j)'
  <2>1. PICK pos \in Nat : pos = off[n] + k
    BY <1>1
  <2>2. Supply(A, pos)
    BY <1>1, <2>1
  <2>3. data' = Drop(data, l) /\ wire' = wire /\ l \in 0 .. Len(data)
    BY <1>3, <1>4, DropAll
  <2>4. Supply(A, pos + l)'
    BY <1>1, <2>2, <2>3, SupplyTaken
  <2>5. pos + l = off[n] + j
    <3>1. PICK o \in Nat : o = off[n]
      BY <1>1
    <3>2. (o + k) + l = o + (k + l)
      <4>1. k \in Nat /\ l \in Nat
        BY <1>1
      <4> QED
        BY <4>1, Assoc
    <3> QED
      BY <1>5, <2>1, <3>1, <3>2
  <2> QED
    BY <2>4, <2>5
<1>8. Sound(hd, A, Q, off, at, n, j)'
  BY <1>6, <1>7, ReadSound
<1> QED
  BY <1>8

\* The first cell of the header tells how long it is (BasicLen).
LEMMA BasicLenIs ==
    ASSUME ChunkAssumption, NEW S, NEW hd, NEW A, NEW o, NEW q, NEW s, NEW k,
           At(S, hd, A, o, q, s, k), state = "basic", data # <<>>
    PROVE  BasicLen = BLen(q.c)
<1>1. PICK u \in Seq(Cells) : u = headCache
  BY DEF At
<1>2. PICK d \in Seq(Cells) : d = data
  BY DEF At
<1>3. PICK x \in Nat : x = Len(u) /\ x = k
  BY <1>1 DEF At
<1>4. o \in Nat /\ Follows(u, A, o) /\ Follows(d, A, o + x)
  BY <1>1, <1>2, <1>3 DEF At
<1>5. PICK y \in Nat \ {0} : y = Len(d)
  <2>1. Len(d) # 0 /\ Len(d) \in Nat
    BY <1>2, EmptySeq
  <2> QED
    BY <2>1
<1>6. (u \o d)[1] = A[o + 1]
  <2>1. CASE x = 0
    <3>1. u = <<>>
      BY <1>1, <1>3, <2>1, EmptySeq
    <3>2. u \o d = d
      BY <1>2, <3>1, ConcatEmptySeq
    <3>3. d[1] = A[(o + x) + 1]
      BY <1>4, <1>5 DEF Follows
    <3>4. (o + x) + 1 = o + 1
      BY <1>4, <2>1
    <3> QED
      BY <3>2, <3>3, <3>4
  <2>2. CASE x > 0
    <3>1. 1 \in 1 .. Len(u)
      BY <1>3, <2>2
    <3>2. (u \o d)[1] = u[1]
      BY <3>1, ConcatIs
    <3>3. u[1] = A[o + 1]
      BY <1>4, <3>1 DEF Follows
    <3> QED
      BY <3>2, <3>3
  <2>3. x = 0 \/ x > 0
    BY <1>3
  <2> QED
    BY <2>1, <2>2, <2>3
<1>7. /\ Spells(S, hd, A, o, q) /\ q.c \in AllCsids /\ Fmt(hd, q) \in 0 .. 3 /\ BLen(q.c) \in 1 .. 2
  BY DEF At, PartAt, PartSizes
<1>8. A[o + 1] = BasicCells(q.c, Fmt(hd, q))[1]
  <2>1. 1 \in 1 .. BLen(q.c)
    BY <1>7
  <2> QED
    BY <1>7, <2>1 DEF Spells
<1>9. (IF BasicCells(q.c, Fmt(hd, q))[1].v[2] = None THEN 2 ELSE 1) = BLen(q.c)
  BY <1>7, BasicRead
<1>10. BasicLen = IF (headCache \o data)[1].v[2] = None THEN 2 ELSE 1
  BY DEF BasicLen
<1> QED
  BY <1>1, <1>2, <1>6, <1>8, <1>9, <1>10

\* The basic header of the next part is complete (ReadBasicHead).
BasicDone(f, c, m) ==
    LET cs == IF c \in DOMAIN cks THEN cks[c] ELSE NewStream
    IN  /\ data' = Drop(data, m) /\ headCache' = <<>> /\ current' = c
        /\ cks' = [d \in DOMAIN cks \cup {c} |-> IF d = c THEN Headed(f, cs) ELSE cks[d]]
        /\ state' = HeadState(f, cs)

BasicKnown(c) == IF c \in DOMAIN cks THEN cks[c] ELSE NewStream

LEMMA BasicDoneKeeps ==
    ASSUME ChunkAssumption, NEW S \in [AllCsids -> Seq(Msgs)], S = sent, cks \in [DOMAIN cks -> StreamRecs],
           NEW hd, NEW A, NEW Q, NEW off, NEW at, NEW n, NEW k, Sound(hd, A, Q, off, at, n, k),
           state = "basic", data # <<>>,
           UNCHANGED <<writerVars, wire, readSize, received>>,
           NEW m \in 0 .. Len(data), k + m = BLen(Q[n + 1].c),
           BasicDone(Fmt(hd, Q[n + 1]), Q[n + 1].c, m)
    PROVE  \E j : Sound(hd, A, Q, off, at, n, j)'
<1>1. /\ At(S, hd, A, off[n], Q[n + 1], at[n], k) /\ n < Len(Q)
  BY AtIs, DataHas
<1>2. PICK q : q = Q[n + 1]
  OBVIOUS
<1>3. PICK c \in AllCsids : c = q.c
  BY <1>1, <1>2 DEF At
<1>4. PICK f \in 0 .. 3 : f = Fmt(hd, q)
  BY <1>1, <1>2 DEF At, PartAt, PartSizes
<1>5. PICK cs : cs = BasicKnown(c)
  OBVIOUS
<1>6. PICK s \in Places : s = at[n]
  BY <1>1 DEF At, PartAt
<1>7. PICK r : r = received[c]
  OBVIOUS
<1>8. Known(S, hd, c, s[c], r, cs)
  <2>1. Settled(S, hd, c, s[c])
    BY <1>1, <1>6 DEF At
  <2>2. CASE s[c].num = 0
    BY <1>5, <1>7, <2>1, <2>2 DEF Settled, Known, BasicKnown
  <2>3. CASE s[c].num # 0
    <3>1. c \in DOMAIN cks /\ Rests(S, hd, c, s[c], r, cks[c])
      BY <1>7, <2>1, <2>3 DEF Settled
    <3>2. cks[c] \in StreamRecs
      BY <3>1
    <3>3. cs = cks[c]
      BY <1>5, <3>1 DEF BasicKnown
    <3> QED
      BY <2>3, <3>1, <3>2, <3>3 DEF Known
  <2> QED
    BY <2>2, <2>3
<1>9. PICK o \in Nat : o = off[n]
  BY <1>1 DEF At
<1>10. Within(S, hd, A, o, q, BLen(c), HeadState(f, cs), r, Headed(f, cs))
  <2>1. PartAt(S, hd, A, o, q, s)
    BY <1>1, <1>2, <1>6, <1>9 DEF At
  <2>2. Known(S, hd, q.c, s[q.c], r, cs)
    BY <1>3, <1>8
  <2> QED
    BY <1>3, <1>4, <2>1, <2>2, Readied
<1>11. /\ data' = Drop(data, m) /\ headCache' = <<>> /\ current' = c
       /\ cks' = [d \in DOMAIN cks \cup {c} |-> IF d = c THEN Headed(f, cs) ELSE cks[d]]
       /\ state' = HeadState(f, cs)
  <2>1. BasicDone(f, c, m)
    BY <1>2, <1>3, <1>4
  <2> QED
    BY <1>5, <2>1 DEF BasicDone, BasicKnown
<1>12. cks'[c] = Headed(f, cs) /\ c \in DOMAIN cks' /\ received'[c] = r
  BY <1>7, <1>11
<1>13. \A d \in AllCsids : d # c => Same(d)
  BY <1>11 DEF Same
<1>14. state' # "basic"
  BY <1>11 DEF HeadState
<1>15. ReadsOn(c, m)
  BY <1>11, <1>12, <1>13, <1>14 DEF ReadsOn
<1>16. ReadsOn(Q[n + 1].c, m)
  BY <1>2, <1>3, <1>15
<1>17. k + m = BLen(c)
  BY <1>2, <1>3
<1>18. Within(S, hd, A, off[n], Q[n + 1], k + m, state', received'[Q[n + 1].c], cks'[Q[n + 1].c])
  BY <1>2, <1>3, <1>9, <1>10, <1>11, <1>12, <1>17
<1>19. Sound(hd, A, Q, off, at, n, k + m)'
  BY <1>1, <1>16, <1>18, ReadsOnKeeps
<1>20. PICK j : j = k + m
  OBVIOUS
<1>21. Sound(hd, A, Q, off, at, n, j)'
  BY <1>19, <1>20
<1> QED
  BY <1>21

\* The chunk stream c is known, or may be added.
Room(c) == c \in DOMAIN cks \/ ~(Cardinality(DOMAIN cks) >= MaxStreams)

\* The basic header of a chunk stream that is known or may be added is complete, or none is.
Opens ==
    \/ cks' = cks
    \/ \E c \in AllCsids, f \in 0 .. 3 :
          /\ Room(c)
          /\ cks' = [d \in DOMAIN cks \cup {c} |-> IF d = c THEN Headed(f, BasicKnown(c)) ELSE cks[d]]

\* ReadBasicHead, with what it reads named: u are the cells of the header so far.
BasicStep(u, w) ==
    LET f == u[1].v[1]
        c == IF Len(u) = 2 THEN u[2].v ELSE u[1].v[2]
    IN  IF Len(data) < w
        THEN headCache' = u /\ data' = <<>> /\ UNCHANGED <<state, current, cks, failure>>
        ELSE failure' = "streams" \/ (BasicDone(f, c, w) /\ Room(c))

LEMMA BasicStepIs ==
    ASSUME ReadBasicHead
    PROVE  /\ state = "basic" /\ data # <<>> /\ failure = "none"
           /\ UNCHANGED <<writerVars, wire, readSize, buffered, received>>
           /\ BasicStep(headCache \o Take(data, Cut(BasicLen - Len(headCache), Len(data))), BasicLen - Len(headCache))
<1>1. state = "basic" /\ data # <<>> /\ failure = "none"
  BY DEF ReadBasicHead, Parsing
<1>2. UNCHANGED <<writerVars, wire, readSize, buffered, received>>
  BY DEF ReadBasicHead
<1>3. PICK w : w = BasicLen - Len(headCache)
  OBVIOUS
<1>4. PICK u : u = headCache \o Take(data, Cut(w, Len(data)))
  OBVIOUS
<1>5. BasicStep(u, w)
  <2>1. CASE Len(data) < w
    BY <1>3, <1>4, <2>1 DEF ReadBasicHead, BasicStep
  <2>2. CASE ~(Len(data) < w)
    BY <1>3, <1>4, <2>2, ZenonT(30) DEF ReadBasicHead, BasicStep, BasicDone, Headed, HeadState, Room
  <2> QED
    BY <2>1, <2>2
<1> QED
  BY <1>1, <1>2, <1>3, <1>4, <1>5

LEMMA BasicHeadKeeps ==
    ASSUME ChunkAssumption, NEW S \in [AllCsids -> Seq(Msgs)], S = sent, cks \in [DOMAIN cks -> StreamRecs],
           NEW hd, NEW A, NEW Q, NEW off, NEW at, NEW n, NEW k, Sound(hd, A, Q, off, at, n, k),
           ReadBasicHead, failure' = "none"
    PROVE  (\E j : Sound(hd, A, Q, off, at, n, j)') /\ Opens
<1>1. /\ state = "basic" /\ data # <<>>
      /\ UNCHANGED <<writerVars, wire, readSize, received>>
      /\ BasicStep(headCache \o Take(data, Cut(BasicLen - Len(headCache), Len(data))), BasicLen - Len(headCache))
  BY BasicStepIs
<1>2. At(S, hd, A, off[n], Q[n + 1], at[n], k) /\ n < Len(Q)
  BY <1>1, AtIs, DataHas
<1>3. PICK q : q = Q[n + 1]
  OBVIOUS
<1>4. PICK c \in AllCsids : c = q.c
  BY <1>2, <1>3 DEF At
<1>5. PICK f \in 0 .. 3 : f = Fmt(hd, q)
  BY <1>2, <1>3 DEF At, PartAt, PartSizes
<1>6. PICK o \in Nat : o = off[n]
  BY <1>2 DEF At
<1>7. PICK s : s = at[n]
  OBVIOUS
<1>8. At(S, hd, A, o, q, s, k)
  BY <1>2, <1>3, <1>6, <1>7
<1>9. PICK b \in 1 .. 2 : b = BLen(c) /\ b = BasicLen
  <2>1. BasicLen = BLen(q.c)
    BY <1>1, <1>8, BasicLenIs
  <2> QED
    BY <1>4, <2>1 DEF BLen
<1>10. PICK hc \in Seq(Cells) : hc = headCache /\ Len(hc) = k /\ Follows(hc, A, o)
  BY <1>1, <1>8 DEF At
<1>11. PICK x \in Nat : x = k /\ x < b
  BY <1>1, <1>4, <1>8, <1>9 DEF At
<1>12. PICK d \in Seq(Cells) : d = data /\ Follows(d, A, o + x)
  BY <1>8, <1>11 DEF At
<1>13. PICK l \in Nat : l = Len(d)
  OBVIOUS
<1>14. PICK w \in Nat : w = b - x
  BY <1>11
<1>15. PICK m \in Nat : m = Cut(w, l) /\ m <= l /\ m <= w /\ (l < w => m = l) /\ (~(l < w) => m = w)
  BY <1>13, <1>14 DEF Cut
<1>16. PICK u : u = hc \o Take(d, m)
  OBVIOUS
<1>17. u \in Seq(Cells) /\ Len(u) = x + m /\ Follows(u, A, o)
  <2>1. m \in 0 .. Len(d) /\ Follows(d, A, o + Len(hc)) /\ Len(hc) = x
    BY <1>10, <1>11, <1>12, <1>13, <1>15
  <2> QED
    BY <1>6, <1>10, <1>16, <2>1, Gathered
<1>18. BasicStep(u, w)
  BY <1>1, <1>9, <1>10, <1>11, <1>12, <1>13, <1>14, <1>15, <1>16
<1>19. CASE l < w
  <2>1. headCache' = u /\ data' = <<>> /\ UNCHANGED <<state, current, cks, failure>>
    BY <1>12, <1>13, <1>18, <1>19 DEF BasicStep
  <2>2. Len(u) = k + Len(data)
    BY <1>11, <1>12, <1>13, <1>15, <1>17, <1>19
  <2>3. k + Len(data) < BLen(Q[n + 1].c)
    <3>1. x + l < b
      BY <1>9, <1>11, <1>13, <1>14, <1>19
    <3> QED
      BY <1>3, <1>4, <1>9, <1>11, <1>12, <1>13, <3>1
  <2>4. /\ headCache' \in Seq(Cells) /\ Len(headCache') = k + Len(data) /\ Follows(headCache', A, off[n])
    BY <1>6, <1>17, <2>1, <2>2
  <2>5. /\ UNCHANGED writerVars /\ wire' = wire /\ data' = <<>>
        /\ UNCHANGED <<state, current, cks, readSize, received>>
    BY <1>1, <2>1
  <2>6. \E j : Sound(hd, A, Q, off, at, n, j)'
    BY <1>1, <2>3, <2>4, <2>5, BasicMore
  <2> QED
    BY <2>1, <2>6 DEF Opens
<1>20. CASE ~(l < w)
  <2>1. x + m = b /\ m = w
    BY <1>9, <1>11, <1>14, <1>15, <1>20
  <2>2. u[1] = BasicCells(c, f)[1] /\ (b = 2 => u[2] = BasicCells(c, f)[2])
    <3>1. Spells(S, hd, A, o, q)
      BY <1>8 DEF At, PartAt
    <3>2. \A j \in 1 .. b : A[o + j] = BasicCells(c, f)[j]
      BY <1>4, <1>5, <1>9, <3>1 DEF Spells
    <3>3. \A j \in 1 .. b : u[j] = A[o + j]
      BY <1>17, <2>1 DEF Follows
    <3>4. 1 \in 1 .. b /\ (b = 2 => 2 \in 1 .. b)
      BY <1>9
    <3> QED
      BY <3>2, <3>3, <3>4, SMTT(30)
  <2>3. /\ BasicCells(c, f)[1].v[1] = f
        /\ (IF BLen(c) = 2 THEN BasicCells(c, f)[2].v ELSE BasicCells(c, f)[1].v[2]) = c
    BY BasicRead
  <2>4. u[1].v[1] = f /\ (IF Len(u) = 2 THEN u[2].v ELSE u[1].v[2]) = c
    BY <1>9, <1>17, <2>1, <2>2, <2>3
  <2>5. BasicDone(f, c, w) /\ Room(c)
    BY <1>12, <1>13, <1>18, <1>20, <2>4 DEF BasicStep
  <2>6. BasicDone(Fmt(hd, Q[n + 1]), Q[n + 1].c, m)
    BY <1>3, <1>4, <1>5, <2>1, <2>5
  <2>7. m \in 0 .. Len(data) /\ k + m = BLen(Q[n + 1].c)
    BY <1>3, <1>4, <1>9, <1>11, <1>12, <1>13, <1>15, <2>1
  <2>8. \E j : Sound(hd, A, Q, off, at, n, j)'
    BY <1>1, <2>6, <2>7, BasicDoneKeeps
  <2>9. Opens
    BY <2>5 DEF BasicDone, BasicKnown, Opens
  <2> QED
    BY <2>8, <2>9
<1> QED
  BY <1>19, <1>20

\* A turn of the loop that changes the chunk stream of the part that is being read, and
\* does not end the part.
Turn(m, ds) ==
    /\ UNCHANGED <<writerVars, wire, headCache, current, readSize, received>>
    /\ m \in 0 .. Len(data) /\ data' = Drop(data, m) /\ state' # "basic"
    /\ cks' = [cks EXCEPT ![current] = ds]

LEMMA TurnKeeps ==
    ASSUME ChunkAssumption, NEW S \in [AllCsids -> Seq(Msgs)], S = sent,
           NEW hd, NEW A, NEW Q, NEW off, NEW at, NEW n, NEW k, Sound(hd, A, Q, off, at, n, k),
           state # "basic", NEW m, NEW ds, Turn(m, ds),
           Within(S, hd, A, off[n], Q[n + 1], k + m, state', received[current], ds)
    PROVE  \E j : Sound(hd, A, Q, off, at, n, j)'
<1>1. At(S, hd, A, off[n], Q[n + 1], at[n], k) /\ n < Len(Q)
  BY AtIs, DataHas
<1>2. PICK c : c = Q[n + 1].c
  OBVIOUS
<1>3. c = current /\ c \in DOMAIN cks /\ headCache = <<>>
  BY <1>1, <1>2 DEF At
<1>4. /\ UNCHANGED <<writerVars, wire, headCache, current, readSize, received>>
      /\ m \in 0 .. Len(data) /\ data' = Drop(data, m) /\ state' # "basic"
      /\ cks' = [cks EXCEPT ![c] = ds]
  BY <1>3 DEF Turn
<1>5. DOMAIN cks' = DOMAIN cks /\ cks'[c] = ds /\ \A d \in DOMAIN cks : d # c => cks'[d] = cks[d]
  BY <1>3, <1>4
<1>6. \A d \in AllCsids : d # c => Same(d)
  BY <1>4, <1>5 DEF Same
<1>7. ReadsOn(c, m)
  BY <1>3, <1>4, <1>5, <1>6 DEF ReadsOn
<1>8. ReadsOn(Q[n + 1].c, m)
  BY <1>2, <1>7
<1>9. Within(S, hd, A, off[n], Q[n + 1], k + m, state', received'[Q[n + 1].c], cks'[Q[n + 1].c])
  BY <1>2, <1>3, <1>4, <1>5
<1>10. Sound(hd, A, Q, off, at, n, k + m)'
  BY <1>1, <1>8, <1>9, ReadsOnKeeps
<1>11. PICK j : j = k + m
  OBVIOUS
<1>12. Sound(hd, A, Q, off, at, n, j)'
  BY <1>10, <1>11
<1> QED
  BY <1>12

\* What chunkMsgHead.decode makes of the message header of the part q.
LEMMA DecodedIs ==
    ASSUME ChunkAssumption, NEW S, NEW hd, NEW A, NEW o, NEW q, NEW s, PartAt(S, hd, A, o, q, s),
           Fmt(hd, q) # 3, NEW cs \in StreamRecs,
           Fmt(hd, q) # 0 => HeadIs(cs, hd[q.c][q.num - 1].head),
           NEW u \in Seq(Cells), Len(u) = HeadLen[Fmt(hd, q)], Follows(u, A, o + HeadFrom(q))
    PROVE  /\ Decoded(cs.head, u) \in Heads
           /\ Decoded(cs.head, u).len = HeadAt(hd, q).len
           /\ Decoded(cs.head, u).type = HeadAt(hd, q).type
           /\ Decoded(cs.head, u).stream = HeadAt(hd, q).stream
           /\ Decoded(cs.head, u).ts = IF HeadAt(hd, q).ts < ExtStamp THEN HeadAt(hd, q).ts ELSE ExtStamp
<1>1. PICK f \in 0 .. 2 : f = Fmt(hd, q)
  BY DEF PartAt, PartSizes
<1>2. PICK h \in Heads : h = HeadAt(hd, q)
  BY DEF PartAt, PartSizes
<1>3. PICK l \in 1 .. 4 : l = HeadLen[f] /\ l = Len(u) /\ (l = 4 <=> f = 0) /\ (l >= 3 <=> f # 2)
  <2>1. HeadLen[f] \in 1 .. 4 /\ (HeadLen[f] = 4 <=> f = 0) /\ (HeadLen[f] >= 3 <=> f # 2)
    <3>1. f = 0 \/ f = 1 \/ f = 2
      OBVIOUS
    <3> QED
      BY <3>1, HeadLenIs
  <2> QED
    BY <1>1, <2>1
<1>4. \A j \in 1 .. l : u[j].v = HeadField(h, j)
  <2>1. \A j \in 1 .. HeadLen[Fmt(hd, q)] : A[o + HeadFrom(q) + j].v = HeadField(HeadAt(hd, q), j)
    BY DEF PartAt, Spells
  <2>2. \A j \in 1 .. l : A[o + HeadFrom(q) + j].v = HeadField(h, j)
    BY <1>1, <1>2, <1>3, <2>1
  <2>3. \A j \in 1 .. l : u[j] = A[o + HeadFrom(q) + j]
    BY <1>3 DEF Follows
  <2> QED
    BY <2>2, <2>3
<1>5. u[1].v = IF h.ts < ExtStamp THEN h.ts ELSE ExtStamp
  <2>1. 1 \in 1 .. l
    BY <1>3
  <2> QED
    BY <1>4, <2>1 DEF HeadField
<1>6. f # 2 => u[2].v = h.len /\ u[3].v = h.type
  <2> HAVE f # 2
  <2>1. 2 \in 1 .. l /\ 3 \in 1 .. l
    BY <1>3
  <2>2. HeadField(h, 2) = h.len /\ HeadField(h, 3) = h.type
    BY DEF HeadField
  <2> QED
    BY <1>4, <2>1, <2>2
<1>7. f = 0 => u[4].v = h.stream
  <2> HAVE f = 0
  <2>1. 4 \in 1 .. l
    BY <1>3
  <2>2. HeadField(h, 4) = h.stream
    BY DEF HeadField
  <2> QED
    BY <1>4, <2>1, <2>2
<1>8. /\ f # 0 => cs.head.stream = h.stream
      /\ f = 2 => cs.head.len = h.len /\ cs.head.type = h.type
  <2>1. q.from = 0 /\ Fmt(hd, q) = hd[q.c][q.num].fmt
    BY DEF Fmt
  <2>2. HeadFits(S, hd, q.c, q.num)
    BY DEF PartAt
  <2>3. f # 0 => HeadIs(cs, hd[q.c][q.num - 1].head)
    BY <1>1
  <2> QED
    <3> SUFFICES ASSUME f # 0
                 PROVE  /\ cs.head.stream = h.stream
                        /\ f = 2 => cs.head.len = h.len /\ cs.head.type = h.type
      OBVIOUS
    <3>1. hd[q.c][q.num].fmt = f /\ hd[q.c][q.num].fmt # 0 /\ h = hd[q.c][q.num].head
      BY <1>1, <1>2, <2>1 DEF HeadAt
    <3> QED
      BY <2>2, <2>3, <3>1, LikeTheLast
<1>9. PICK d : d = Decoded(cs.head, u)
  OBVIOUS
<1>10. /\ d = [ts |-> u[1].v, len |-> IF l >= 3 THEN u[2].v ELSE cs.head.len,
               type |-> IF l >= 3 THEN u[3].v ELSE cs.head.type,
               stream |-> IF l = 4 THEN u[4].v ELSE cs.head.stream]
  BY <1>3, <1>9 DEF Decoded
<1>11. /\ d.ts = (IF h.ts < ExtStamp THEN h.ts ELSE ExtStamp)
       /\ d.len = h.len /\ d.type = h.type /\ d.stream = h.stream
       /\ d = [ts |-> d.ts, len |-> d.len, type |-> d.type, stream |-> d.stream]
  BY <1>3, <1>5, <1>6, <1>7, <1>8, <1>10
<1>12. d.ts \in Nat /\ h.len \in Nat /\ h.type \in AllTypes \cup {None} /\ h.stream \in AllStreams \cup {None}
  BY <1>11 DEF Heads, ChunkAssumption
<1>13. d \in Heads
  BY <1>11, <1>12 DEF Heads
<1> QED
  BY <1>2, <1>9, <1>11, <1>13

\* What the message header changes of a chunk stream (S_MSG_HEAD).
WithHdr(cs, u)  == [cs EXCEPT !.hdr = u]
WithHead(cs, h) == [cs EXCEPT !.hdr = <<>>, !.head = h, !.hasExt = (h.ts = ExtStamp)]

LEMMA WithHdrIs ==
    ASSUME NEW cs \in StreamRecs, NEW u \in Seq(Cells)
    PROVE  /\ WithHdr(cs, u) \in StreamRecs
           /\ WithHdr(cs, u).hdr = u /\ WithHdr(cs, u).fmt = cs.fmt /\ WithHdr(cs, u).first = cs.first
           /\ WithHdr(cs, u).message = cs.message /\ WithHdr(cs, u).chunkRead = cs.chunkRead
           /\ WithHdr(cs, u).hasExt = cs.hasExt /\ WithHdr(cs, u).ts = cs.ts /\ WithHdr(cs, u).head = cs.head
BY DEF WithHdr, StreamRecs

LEMMA WithHeadIs ==
    ASSUME NEW cs \in StreamRecs, NEW h \in Heads
    PROVE  /\ WithHead(cs, h) \in StreamRecs
           /\ WithHead(cs, h).hdr = <<>> /\ WithHead(cs, h).fmt = cs.fmt /\ WithHead(cs, h).first = cs.first
           /\ WithHead(cs, h).message = cs.message /\ WithHead(cs, h).chunkRead = cs.chunkRead
           /\ WithHead(cs, h).hasExt = (h.ts = ExtStamp) /\ WithHead(cs, h).ts = cs.ts
           /\ WithHead(cs, h).head = h
<1>1. <<>> \in Seq(Cells) /\ (h.ts = ExtStamp) \in BOOLEAN
  OBVIOUS
<1> QED
  BY <1>1 DEF WithHead, StreamRecs

\* ReadMsgHead, with what it reads named: u are the cells of the header so far.
HeadStep(cs, u, w) ==
    IF Len(data) < w
    THEN cks' = [cks EXCEPT ![current] = WithHdr(cs, u)] /\ data' = <<>> /\ UNCHANGED state
    ELSE /\ data' = Drop(data, w)
         /\ cks' = [cks EXCEPT ![current] = WithHead(cs, Decoded(cs.head, u))]
         /\ state' = IF Decoded(cs.head, u).ts = ExtStamp THEN "ext" ELSE "payload"

LEMMA HeadStepIs ==
    ASSUME ReadMsgHead, cks \in [DOMAIN cks -> StreamRecs], current \in DOMAIN cks, NEW cs, cs = cks[current]
    PROVE  /\ state = "head" /\ data # <<>>
           /\ UNCHANGED <<writerVars, wire, headCache, current, readSize, buffered, failure, received>>
           /\ HeadStep(cs, cs.hdr \o Take(data, Cut(HeadLen[cs.fmt] - Len(cs.hdr), Len(data))),
                       HeadLen[cs.fmt] - Len(cs.hdr))
<1>1. state = "head" /\ data # <<>>
  BY DEF ReadMsgHead, Parsing
<1>2. UNCHANGED <<writerVars, wire, headCache, current, readSize, buffered, failure, received>>
  BY DEF ReadMsgHead
<1>3. PICK w : w = HeadLen[cs.fmt] - Len(cs.hdr)
  OBVIOUS
<1>4. PICK u : u = cs.hdr \o Take(data, Cut(w, Len(data)))
  OBVIOUS
<1>5. HeadStep(cs, u, w)
  <2>1. CASE Len(data) < w
    <3>1. cks' = [cks EXCEPT ![current].hdr = u] /\ data' = <<>> /\ UNCHANGED state
      BY <1>3, <1>4, <2>1 DEF ReadMsgHead
    <3>2. [cks EXCEPT ![current].hdr = u] = [cks EXCEPT ![current] = WithHdr(cs, u)]
      BY DEF WithHdr
    <3> QED
      BY <2>1, <3>1, <3>2 DEF HeadStep
  <2>2. CASE ~(Len(data) < w)
    <3>1. PICK h : h = Decoded(cs.head, u)
      OBVIOUS
    <3>2. /\ data' = Drop(data, w)
          /\ cks' = [cks EXCEPT ![current].hdr = <<>>, ![current].head = h, ![current].hasExt = (h.ts = ExtStamp)]
          /\ state' = IF h.ts = ExtStamp THEN "ext" ELSE "payload"
      BY <1>3, <1>4, <2>2, <3>1 DEF ReadMsgHead
    <3>3. [cks EXCEPT ![current].hdr = <<>>, ![current].head = h, ![current].hasExt = (h.ts = ExtStamp)]
            = [cks EXCEPT ![current] = WithHead(cs, h)]
      BY DEF WithHead
    <3> QED
      BY <2>2, <3>1, <3>2, <3>3 DEF HeadStep
  <2> QED
    BY <2>1, <2>2
<1> QED
  BY <1>1, <1>2, <1>3, <1>4, <1>5

Tame == DOMAIN cks \subseteq AllCsids /\ cks \in [DOMAIN cks -> StreamRecs]

LEMMA TurnTame ==
    ASSUME Tame, current \in DOMAIN cks, NEW m, NEW ds \in StreamRecs, Turn(m, ds)
    PROVE  Tame' /\ (ds.message = cks[current].message => Held' = Held)
<1>1. cks' = [cks EXCEPT ![current] = ds]
  BY DEF Turn
<1>2. /\ DOMAIN cks' = DOMAIN cks /\ cks'[current] = ds
      /\ \A d \in DOMAIN cks : d # current => cks'[d] = cks[d]
  BY <1>1
<1>3. cks' \in [DOMAIN cks -> StreamRecs]
  BY <1>1 DEF Tame
<1>4. Tame'
  BY <1>2, <1>3 DEF Tame
<1>5. ASSUME ds.message = cks[current].message PROVE Held' = Held
  <2>1. \A d \in DOMAIN cks : cks'[d].message = cks[d].message
    BY <1>2, <1>5
  <2> QED
    BY <1>2, <2>1 DEF Held
<1> QED
  BY <1>4, <1>5

\* A message header is read (ReadMsgHead).
LEMMA MsgHeadKeeps ==
    ASSUME ChunkAssumption, NEW S \in [AllCsids -> Seq(Msgs)], S = sent, Tame,
           NEW hd, NEW A, NEW Q, NEW off, NEW at, NEW n, NEW k, Sound(hd, A, Q, off, at, n, k),
           ReadMsgHead
    PROVE  (\E j : Sound(hd, A, Q, off, at, n, j)') /\ Tame' /\ Held' = Held
<1>0. cks \in [DOMAIN cks -> StreamRecs]
  BY DEF Tame
<1>1. state = "head" /\ data # <<>>
  BY DEF ReadMsgHead, Parsing
<1>2. At(S, hd, A, off[n], Q[n + 1], at[n], k) /\ n < Len(Q)
  BY <1>1, AtIs, DataHas
<1>3. PICK q : q = Q[n + 1]
  OBVIOUS
<1>4. PICK c \in AllCsids : c = q.c
  BY <1>2, <1>3 DEF At
<1>5. PICK f \in 0 .. 3 : f = Fmt(hd, q)
  BY <1>2, <1>3 DEF At, PartAt, PartSizes
<1>6. PICK o \in Nat : o = off[n]
  BY <1>2 DEF At
<1>7. PICK s : s = at[n]
  OBVIOUS
<1>8. At(S, hd, A, o, q, s, k)
  BY <1>2, <1>3, <1>6, <1>7
<1>9. c = current /\ c \in DOMAIN cks
  BY <1>1, <1>4, <1>8 DEF At
<1>10. PICK cs \in StreamRecs : cs = cks[c]
  BY <1>0, <1>9
<1>11. PICK r : r = received[c]
  OBVIOUS
<1>12. Within(S, hd, A, o, q, k, "head", r, cs)
  BY <1>1, <1>4, <1>8, <1>10, <1>11 DEF At
<1>13. /\ Kept(S, q.c, q.num, q.from + cs.chunkRead, r, cs)
       /\ cs.fmt = f /\ cs.first = hd[q.c][q.num].fmt
       /\ AtHead(hd, A, o, q, k, cs)
  BY <1>5, <1>12 DEF Within
<1>14. /\ f # 3 /\ cs.chunkRead = 0 /\ (f # 0 => HeadIs(cs, hd[q.c][q.num - 1].head))
       /\ k = HeadFrom(q) + Len(cs.hdr) /\ Len(cs.hdr) < HeadLen[f]
       /\ \A j \in 1 .. Len(cs.hdr) : cs.hdr[j] = A[o + HeadFrom(q) + j]
  BY <1>13 DEF AtHead
<1>15. PICK b \in 1 .. 2 : b = HeadFrom(q)
  BY <1>8 DEF At, PartAt, PartSizes, HeadFrom
<1>16. PICK hc \in Seq(Cells) : hc = cs.hdr /\ Follows(hc, A, o + b)
  BY <1>14, <1>15 DEF StreamRecs, Follows
<1>17. PICK x \in Nat : x = Len(hc)
  OBVIOUS
<1>18. PICK z \in 0 .. 4 : z = HeadLen[f]
  BY HeadLenIs
<1>19. k = b + x /\ x < z
  BY <1>14, <1>15, <1>16, <1>17, <1>18
<1>20. PICK d \in Seq(Cells) : d = data /\ Follows(d, A, (o + b) + x)
  <2>1. o + k = (o + b) + x
    BY <1>19, Assoc
  <2> QED
    BY <1>8, <2>1 DEF At
<1>21. PICK l \in Nat : l = Len(d)
  OBVIOUS
<1>22. PICK w \in Nat : w = z - x
  BY <1>19
<1>23. PICK m \in Nat : m = Cut(w, l) /\ m <= l /\ m <= w /\ (l < w => m = l) /\ (~(l < w) => m = w)
  BY <1>21, <1>22 DEF Cut
<1>24. PICK u : u = hc \o Take(d, m)
  OBVIOUS
<1>25. u \in Seq(Cells) /\ Len(u) = x + m /\ Follows(u, A, o + b)
  <2>1. m \in 0 .. Len(d) /\ Follows(d, A, (o + b) + Len(hc))
    BY <1>17, <1>20, <1>21, <1>23
  <2>2. PICK p \in Nat : p = o + b
    OBVIOUS
  <2>3. Follows(hc, A, p) /\ Follows(d, A, p + Len(hc))
    BY <1>16, <2>1, <2>2
  <2>4. /\ hc \o Take(d, m) \in Seq(Cells) /\ Len(hc \o Take(d, m)) = Len(hc) + m
        /\ Follows(hc \o Take(d, m), A, p)
    BY <2>1, <2>2, <2>3, Gathered
  <2> QED
    BY <1>17, <1>24, <2>2, <2>4
<1>26. /\ UNCHANGED <<writerVars, wire, headCache, current, readSize, buffered, failure, received>>
       /\ HeadStep(cs, u, w)
  <2>1. /\ UNCHANGED <<writerVars, wire, headCache, current, readSize, buffered, failure, received>>
        /\ HeadStep(cs, cs.hdr \o Take(data, Cut(HeadLen[cs.fmt] - Len(cs.hdr), Len(data))),
                    HeadLen[cs.fmt] - Len(cs.hdr))
    <3>1. current \in DOMAIN cks /\ cs = cks[current]
      BY <1>9, <1>10
    <3> QED
      BY <1>0, <3>1, HeadStepIs
  <2>2. HeadLen[cs.fmt] - Len(cs.hdr) = w
    BY <1>13, <1>16, <1>17, <1>18, <1>22
  <2> QED
    BY <1>16, <1>20, <1>21, <1>23, <1>24, <2>1, <2>2
<1>27. ASSUME NEW e, NEW ds \in StreamRecs, Turn(e, ds), ds.message = cs.message,
              Within(S, hd, A, o, q, k + e, state', r, ds)
       PROVE  (\E j : Sound(hd, A, Q, off, at, n, j)') /\ Tame' /\ Held' = Held
  <2>1. Within(S, hd, A, off[n], Q[n + 1], k + e, state', received[current], ds)
    BY <1>3, <1>6, <1>9, <1>11, <1>27
  <2>2. \E j : Sound(hd, A, Q, off, at, n, j)'
    BY <1>1, <1>27, <2>1, TurnKeeps
  <2>3. ds.message = cks[current].message /\ current \in DOMAIN cks
    BY <1>9, <1>10, <1>27
  <2> QED
    BY <1>27, <2>2, <2>3, TurnTame
<1>28. CASE l < w
  <2>1. PICK ds : ds = WithHdr(cs, u)
    OBVIOUS
  <2>2. /\ ds \in StreamRecs /\ ds.hdr = u /\ ds.fmt = f /\ ds.first = cs.first
        /\ ds.message = cs.message /\ ds.chunkRead = 0 /\ ds.hasExt = cs.hasExt
        /\ ds.ts = cs.ts /\ ds.head = cs.head
    BY <1>13, <1>14, <1>25, <2>1, WithHdrIs
  <2>3. cks' = [cks EXCEPT ![current] = ds] /\ data' = <<>> /\ state' = "head"
    BY <1>1, <1>20, <1>21, <1>26, <1>28, <2>1 DEF HeadStep
  <2>4. Turn(l, ds)
    <3>1. data' = Drop(data, l) /\ l \in 0 .. Len(data)
      BY <1>20, <1>21, <2>3, DropAll
    <3> QED
      BY <1>26, <2>3, <3>1 DEF Turn
  <2>5. Kept(S, q.c, q.num, q.from + ds.chunkRead, r, ds)
    BY <1>13, <1>14, <2>2 DEF Kept
  <2>6. AtHead(hd, A, o, q, k + l, ds)
    <3>1. ds.fmt # 0 => HeadIs(ds, hd[q.c][q.num - 1].head)
      BY <1>14, <2>2 DEF HeadIs, HeadBut
    <3>2. k + l = b + Len(ds.hdr) /\ Len(ds.hdr) < z
      <4>1. Len(ds.hdr) = x + l
        BY <1>23, <1>25, <1>28, <2>2
      <4>2. (b + x) + l = b + (x + l)
        BY <1>17, <1>21, Assoc
      <4>3. x + l < z
        BY <1>17, <1>18, <1>21, <1>22, <1>28
      <4> QED
        BY <1>19, <4>1, <4>2, <4>3
    <3>3. \A j \in 1 .. Len(ds.hdr) : ds.hdr[j] = A[o + b + j]
      BY <1>25, <2>2 DEF Follows
    <3> QED
      BY <1>14, <1>15, <1>18, <2>2, <3>1, <3>2, <3>3 DEF AtHead
  <2>7. Within(S, hd, A, o, q, k + l, state', r, ds)
    BY <1>5, <1>13, <2>2, <2>3, <2>5, <2>6 DEF Within
  <2> QED
    BY <1>27, <2>2, <2>4, <2>7
<1>29. CASE ~(l < w)
  <2>1. PICK h : h = Decoded(cs.head, u)
    OBVIOUS
  <2>2. PICK g \in Heads : g = HeadAt(hd, q)
    BY <1>8 DEF At, PartAt, PartSizes
  <2>3. /\ h \in Heads /\ h.len = g.len /\ h.type = g.type /\ h.stream = g.stream
        /\ h.ts = IF g.ts < ExtStamp THEN g.ts ELSE ExtStamp
    <3>1. PartAt(S, hd, A, o, q, s)
      BY <1>8 DEF At
    <3>2. Len(u) = HeadLen[Fmt(hd, q)] /\ Follows(u, A, o + HeadFrom(q))
      BY <1>5, <1>15, <1>17, <1>18, <1>22, <1>23, <1>25, <1>29, SMTT(30)
    <3>3. Fmt(hd, q) # 3 /\ (Fmt(hd, q) # 0 => HeadIs(cs, hd[q.c][q.num - 1].head))
      BY <1>5, <1>14
    <3> QED
      BY <1>25, <2>1, <2>2, <3>1, <3>2, <3>3, DecodedIs
  <2>4. PICK ds : ds = WithHead(cs, h)
    OBVIOUS
  <2>5. /\ ds \in StreamRecs /\ ds.hdr = <<>> /\ ds.fmt = f /\ ds.first = cs.first
        /\ ds.message = cs.message /\ ds.chunkRead = 0 /\ ds.hasExt = (h.ts = ExtStamp)
        /\ ds.ts = cs.ts /\ ds.head = h
    BY <1>13, <1>14, <2>3, <2>4, WithHeadIs
  <2>6. /\ cks' = [cks EXCEPT ![current] = ds] /\ data' = Drop(data, w)
        /\ state' = IF h.ts = ExtStamp THEN "ext" ELSE "payload"
    BY <1>20, <1>21, <1>26, <1>29, <2>1, <2>4 DEF HeadStep
  <2>7. Turn(w, ds)
    <3>1. w \in 0 .. Len(data)
      BY <1>20, <1>21, <1>22, <1>29
    <3>2. state' # "basic"
      BY <2>6
    <3> QED
      BY <1>26, <2>6, <3>1, <3>2 DEF Turn
  <2>8. Kept(S, q.c, q.num, q.from + ds.chunkRead, r, ds)
    BY <1>13, <1>14, <2>5, SMTT(30) DEF Kept
  <2>9. HeadBut(ds, g)
    BY <2>3, <2>5 DEF HeadBut
  <2>10. g.ts \in Nat /\ ExtStamp \in Nat
    BY <2>2 DEF Heads, ChunkAssumption
  <2>11. PICK y \in Nat : y = ExtFrom(hd, q) /\ k + w = y
    <3>1. ExtFrom(hd, q) = b + z
      BY <1>5, <1>15, <1>18 DEF ExtFrom
    <3>2. k + w = b + z
      <4>1. (b + x) + (z - x) = b + z
        BY <1>17, <1>18, RestOf
      <4> QED
        BY <1>19, <1>22, <4>1
    <3> QED
      BY <3>1, <3>2
  <2>12. CASE g.ts >= ExtStamp
    <3>1. h.ts = ExtStamp /\ ELen(g) = 2
      BY <2>3, <2>10, <2>12 DEF ELen
    <3>2. y = ExtFrom(hd, q) + Len(ds.hdr) /\ Len(ds.hdr) < 2
      BY <2>5, <2>11
    <3>3. \A j \in 1 .. Len(ds.hdr) : ds.hdr[j] = A[o + ExtFrom(hd, q) + j]
      BY <2>5
    <3>4. AtExt(hd, A, o, q, k + w, ds)
      BY <2>2, <2>5, <2>9, <2>11, <3>1, <3>2, <3>3 DEF AtExt
    <3>5. Within(S, hd, A, o, q, k + w, state', r, ds)
      BY <1>5, <1>13, <2>5, <2>6, <2>8, <3>1, <3>4 DEF Within
    <3> QED
      BY <1>22, <1>27, <2>5, <2>7, <3>5
  <2>13. CASE ~(g.ts >= ExtStamp)
    <3>1. h.ts # ExtStamp /\ h.ts = g.ts /\ ELen(g) = 0
      BY <2>3, <2>10, <2>13 DEF ELen
    <3>2. HeadIs(ds, g)
      BY <2>5, <2>9, <2>13, <3>1 DEF HeadIs
    <3>3. y = PayFrom(hd, q) + ds.chunkRead
      BY <2>2, <2>5, <2>11, <3>1 DEF PayFrom
    <3>4. ds.chunkRead < q.upto - q.from \/ (ds.chunkRead = 0 /\ q.upto = q.from)
      <4>1. q.upto - q.from \in Nat /\ q.upto \in Nat /\ q.from \in Nat
        BY <1>8 DEF At, PartAt, PartSizes, PartRecs
      <4> QED
        BY <2>5, <4>1
    <3>5. AtPayload(hd, q, k + w, ds)
      BY <2>2, <2>5, <2>11, <3>2, <3>3, <3>4 DEF AtPayload
    <3>6. Within(S, hd, A, o, q, k + w, state', r, ds)
      BY <1>5, <1>13, <2>5, <2>6, <2>8, <3>1, <3>5 DEF Within
    <3> QED
      BY <1>27, <2>5, <2>7, <3>6
  <2> QED
    BY <2>12, <2>13
<1> QED
  BY <1>28, <1>29

\* What the extended timestamp changes of a chunk stream (S_EXTEND_TS).
WithTs(cs, t) == [cs EXCEPT !.hdr = <<>>, !.head.ts = t]

LEMMA WithTsIs ==
    ASSUME NEW cs \in StreamRecs, NEW t \in Nat
    PROVE  /\ WithTs(cs, t) \in StreamRecs
           /\ WithTs(cs, t).hdr = <<>> /\ WithTs(cs, t).fmt = cs.fmt /\ WithTs(cs, t).first = cs.first
           /\ WithTs(cs, t).message = cs.message /\ WithTs(cs, t).chunkRead = cs.chunkRead
           /\ WithTs(cs, t).hasExt = cs.hasExt /\ WithTs(cs, t).ts = cs.ts
           /\ WithTs(cs, t).head.ts = t /\ WithTs(cs, t).head.len = cs.head.len
           /\ WithTs(cs, t).head.type = cs.head.type /\ WithTs(cs, t).head.stream = cs.head.stream
<1>1. <<>> \in Seq(Cells) /\ cs.head \in Heads
  BY DEF StreamRecs
<1>2. PICK h : h = [cs.head EXCEPT !.ts = t]
  OBVIOUS
<1>3. h \in Heads /\ h.ts = t /\ h.len = cs.head.len /\ h.type = cs.head.type /\ h.stream = cs.head.stream
  BY <1>1, <1>2 DEF Heads
<1>4. WithTs(cs, t) = [cs EXCEPT !.hdr = <<>>, !.head = h]
  BY <1>2 DEF WithTs
<1> QED
  BY <1>1, <1>3, <1>4 DEF StreamRecs

\* ReadExtendTs, with what it reads named: u are the cells of the field so far.
ExtStep(cs, u, w) ==
    IF Len(data) < w
    THEN cks' = [cks EXCEPT ![current] = WithHdr(cs, u)] /\ data' = <<>> /\ UNCHANGED state
    ELSE /\ data' = Drop(data, w)
         /\ cks' = [cks EXCEPT ![current] = WithTs(cs, u[1].v * ExtStamp + u[2].v)]
         /\ state' = "payload"

LEMMA ExtStepIs ==
    ASSUME ReadExtendTs, cks \in [DOMAIN cks -> StreamRecs], current \in DOMAIN cks, NEW cs, cs = cks[current]
    PROVE  /\ state = "ext" /\ data # <<>>
           /\ UNCHANGED <<writerVars, wire, headCache, current, readSize, buffered, failure, received>>
           /\ ExtStep(cs, cs.hdr \o Take(data, Cut(2 - Len(cs.hdr), Len(data))), 2 - Len(cs.hdr))
<1>1. state = "ext" /\ data # <<>>
  BY DEF ReadExtendTs, Parsing
<1>2. UNCHANGED <<writerVars, wire, headCache, current, readSize, buffered, failure, received>>
  BY DEF ReadExtendTs
<1>3. PICK w : w = 2 - Len(cs.hdr)
  OBVIOUS
<1>4. PICK u : u = cs.hdr \o Take(data, Cut(w, Len(data)))
  OBVIOUS
<1>5. ExtStep(cs, u, w)
  <2>1. CASE Len(data) < w
    <3>1. cks' = [cks EXCEPT ![current].hdr = u] /\ data' = <<>> /\ UNCHANGED state
      BY <1>3, <1>4, <2>1 DEF ReadExtendTs
    <3>2. [cks EXCEPT ![current].hdr = u] = [cks EXCEPT ![current] = WithHdr(cs, u)]
      BY DEF WithHdr
    <3> QED
      BY <2>1, <3>1, <3>2 DEF ExtStep
  <2>2. CASE ~(Len(data) < w)
    <3>1. PICK t : t = u[1].v * ExtStamp + u[2].v
      OBVIOUS
    <3>2. /\ data' = Drop(data, w)
          /\ cks' = [cks EXCEPT ![current].hdr = <<>>, ![current].head.ts = t]
          /\ state' = "payload"
      BY <1>3, <1>4, <2>2, <3>1 DEF ReadExtendTs
    <3>3. [cks EXCEPT ![current].hdr = <<>>, ![current].head.ts = t]
            = [cks EXCEPT ![current] = WithTs(cs, t)]
      BY DEF WithTs
    <3> QED
      BY <2>2, <3>1, <3>2, <3>3 DEF ExtStep
  <2> QED
    BY <2>1, <2>2
<1> QED
  BY <1>1, <1>2, <1>3, <1>4, <1>5

\* An extended timestamp is read (ReadExtendTs).
LEMMA ExtendTsKeeps ==
    ASSUME ChunkAssumption, NEW S \in [AllCsids -> Seq(Msgs)], S = sent, Tame,
           NEW hd, NEW A, NEW Q, NEW off, NEW at, NEW n, NEW k, Sound(hd, A, Q, off, at, n, k),
           ReadExtendTs
    PROVE  (\E j : Sound(hd, A, Q, off, at, n, j)') /\ Tame' /\ Held' = Held
<1>0. cks \in [DOMAIN cks -> StreamRecs]
  BY DEF Tame
<1>1. state = "ext" /\ data # <<>>
  BY DEF ReadExtendTs, Parsing
<1>2. At(S, hd, A, off[n], Q[n + 1], at[n], k) /\ n < Len(Q)
  BY <1>1, AtIs, DataHas
<1>3. PICK q : q = Q[n + 1]
  OBVIOUS
<1>4. PICK c \in AllCsids : c = q.c
  BY <1>2, <1>3 DEF At
<1>5. PICK f \in 0 .. 3 : f = Fmt(hd, q)
  BY <1>2, <1>3 DEF At, PartAt, PartSizes
<1>6. PICK o \in Nat : o = off[n]
  BY <1>2 DEF At
<1>7. PICK s : s = at[n]
  OBVIOUS
<1>8. At(S, hd, A, o, q, s, k)
  BY <1>2, <1>3, <1>6, <1>7
<1>9. c = current /\ c \in DOMAIN cks
  BY <1>1, <1>4, <1>8 DEF At
<1>10. PICK cs \in StreamRecs : cs = cks[c]
  BY <1>0, <1>9
<1>11. PICK r : r = received[c]
  OBVIOUS
<1>12. Within(S, hd, A, o, q, k, "ext", r, cs)
  BY <1>1, <1>4, <1>8, <1>10, <1>11 DEF At
<1>13. /\ Kept(S, q.c, q.num, q.from + cs.chunkRead, r, cs)
       /\ cs.fmt = f /\ cs.first = hd[q.c][q.num].fmt
       /\ AtExt(hd, A, o, q, k, cs)
  BY <1>5, <1>12 DEF Within
<1>14. /\ ELen(HeadAt(hd, q)) = 2 /\ cs.chunkRead = 0
       /\ HeadBut(cs, HeadAt(hd, q)) /\ cs.hasExt = TRUE
       /\ k = ExtFrom(hd, q) + Len(cs.hdr) /\ Len(cs.hdr) < 2
       /\ \A j \in 1 .. Len(cs.hdr) : cs.hdr[j] = A[o + ExtFrom(hd, q) + j]
  BY <1>13 DEF AtExt
<1>15. PICK b \in Nat : b = ExtFrom(hd, q)
  <2>1. PartSizes(hd, q)
    BY <1>8 DEF At, PartAt
  <2>2. PICK y \in Nat : y = HeadFrom(q)
    BY <2>1 DEF PartSizes, HeadFrom
  <2>3. PICK z \in Nat : z = HeadLen[Fmt(hd, q)]
    BY <2>1 DEF PartSizes
  <2> QED
    BY <2>2, <2>3 DEF ExtFrom
<1>16. PICK hc \in Seq(Cells) : hc = cs.hdr /\ Follows(hc, A, o + b)
  BY <1>14, <1>15 DEF StreamRecs, Follows
<1>17. PICK x \in Nat : x = Len(hc)
  OBVIOUS
<1>19. k = b + x /\ x < 2
  BY <1>14, <1>15, <1>16, <1>17
<1>20. PICK d \in Seq(Cells) : d = data /\ Follows(d, A, (o + b) + x)
  <2>1. o + k = (o + b) + x
    BY <1>19, Assoc
  <2> QED
    BY <1>8, <2>1 DEF At
<1>21. PICK l \in Nat : l = Len(d)
  OBVIOUS
<1>22. PICK w \in Nat : w = 2 - x
  BY <1>19
<1>23. PICK m \in Nat : m = Cut(w, l) /\ m <= l /\ m <= w /\ (l < w => m = l) /\ (~(l < w) => m = w)
  BY <1>21, <1>22 DEF Cut
<1>24. PICK u : u = hc \o Take(d, m)
  OBVIOUS
<1>25. u \in Seq(Cells) /\ Len(u) = x + m /\ Follows(u, A, o + b)
  <2>1. m \in 0 .. Len(d) /\ Follows(d, A, (o + b) + Len(hc))
    BY <1>17, <1>20, <1>21, <1>23
  <2>2. PICK p \in Nat : p = o + b
    OBVIOUS
  <2>3. Follows(hc, A, p) /\ Follows(d, A, p + Len(hc))
    BY <1>16, <2>1, <2>2
  <2>4. /\ hc \o Take(d, m) \in Seq(Cells) /\ Len(hc \o Take(d, m)) = Len(hc) + m
        /\ Follows(hc \o Take(d, m), A, p)
    BY <2>1, <2>2, <2>3, Gathered
  <2> QED
    BY <1>17, <1>24, <2>2, <2>4
<1>26. /\ UNCHANGED <<writerVars, wire, headCache, current, readSize, buffered, failure, received>>
       /\ ExtStep(cs, u, w)
  <2>1. /\ UNCHANGED <<writerVars, wire, headCache, current, readSize, buffered, failure, received>>
        /\ ExtStep(cs, cs.hdr \o Take(data, Cut(2 - Len(cs.hdr), Len(data))), 2 - Len(cs.hdr))
    <3>1. current \in DOMAIN cks /\ cs = cks[current]
      BY <1>9, <1>10
    <3> QED
      BY <1>0, <3>1, ExtStepIs
  <2>2. 2 - Len(cs.hdr) = w
    BY <1>16, <1>17, <1>22
  <2> QED
    BY <1>16, <1>20, <1>21, <1>23, <1>24, <2>1, <2>2
<1>27. ASSUME NEW e, NEW ds \in StreamRecs, Turn(e, ds), ds.message = cs.message,
              Within(S, hd, A, o, q, k + e, state', r, ds)
       PROVE  (\E j : Sound(hd, A, Q, off, at, n, j)') /\ Tame' /\ Held' = Held
  <2>1. Within(S, hd, A, off[n], Q[n + 1], k + e, state', received[current], ds)
    BY <1>3, <1>6, <1>9, <1>11, <1>27
  <2>2. \E j : Sound(hd, A, Q, off, at, n, j)'
    BY <1>1, <1>27, <2>1, TurnKeeps
  <2>3. ds.message = cks[current].message /\ current \in DOMAIN cks
    BY <1>9, <1>10, <1>27
  <2> QED
    BY <1>27, <2>2, <2>3, TurnTame
<1>28. CASE l < w
  <2>1. PICK ds : ds = WithHdr(cs, u)
    OBVIOUS
  <2>2. /\ ds \in StreamRecs /\ ds.hdr = u /\ ds.fmt = f /\ ds.first = cs.first
        /\ ds.message = cs.message /\ ds.chunkRead = 0 /\ ds.hasExt = TRUE
        /\ ds.ts = cs.ts /\ ds.head = cs.head
    BY <1>13, <1>14, <1>25, <2>1, WithHdrIs
  <2>3. cks' = [cks EXCEPT ![current] = ds] /\ data' = <<>> /\ state' = "ext"
    BY <1>1, <1>20, <1>21, <1>26, <1>28, <2>1 DEF ExtStep
  <2>4. Turn(l, ds)
    <3>1. data' = Drop(data, l) /\ l \in 0 .. Len(data)
      BY <1>20, <1>21, <2>3, DropAll
    <3> QED
      BY <1>26, <2>3, <3>1 DEF Turn
  <2>5. Kept(S, q.c, q.num, q.from + ds.chunkRead, r, ds)
    BY <1>13, <1>14, <2>2 DEF Kept
  <2>6. AtExt(hd, A, o, q, k + l, ds)
    <3>1. HeadBut(ds, HeadAt(hd, q))
      BY <1>14, <2>2 DEF HeadBut
    <3>2. k + l = b + Len(ds.hdr) /\ Len(ds.hdr) < 2
      <4>1. Len(ds.hdr) = x + l
        BY <1>23, <1>25, <1>28, <2>2
      <4>2. (b + x) + l = b + (x + l)
        BY <1>17, <1>21, Assoc
      <4>3. x + l < 2
        BY <1>17, <1>19, <1>21, <1>22, <1>28
      <4> QED
        BY <1>19, <4>1, <4>2, <4>3
    <3>3. \A j \in 1 .. Len(ds.hdr) : ds.hdr[j] = A[o + b + j]
      BY <1>25, <2>2 DEF Follows
    <3> QED
      BY <1>14, <1>15, <2>2, <3>1, <3>2, <3>3 DEF AtExt
  <2>7. Within(S, hd, A, o, q, k + l, state', r, ds)
    BY <1>5, <1>13, <2>2, <2>3, <2>5, <2>6 DEF Within
  <2> QED
    BY <1>27, <2>2, <2>4, <2>7
<1>29. CASE ~(l < w)
  <2>1. PICK g \in Heads : g = HeadAt(hd, q)
    BY <1>8 DEF At, PartAt, PartSizes
  <2>2. PICK t \in Nat : t = g.ts /\ t >= ExtStamp
    BY <1>14, <2>1 DEF ELen, Heads, ChunkAssumption
  <2>3. u[1].v * ExtStamp + u[2].v = t
    <3>1. Spells(S, hd, A, o, q)
      BY <1>8 DEF At, PartAt
    <3>2. A[o + b + 1].v = t \div ExtStamp /\ A[o + b + 2].v = t % ExtStamp
      BY <1>14, <1>15, <2>1, <2>2, <3>1 DEF Spells
    <3>3. Len(u) = 2
      BY <1>17, <1>19, <1>22, <1>23, <1>25, <1>29
    <3>4. u[1] = A[o + b + 1] /\ u[2] = A[o + b + 2]
      <4>1. 1 \in 1 .. Len(u) /\ 2 \in 1 .. Len(u)
        BY <3>3
      <4> QED
        BY <1>25, <4>1 DEF Follows
    <3>5. (t \div ExtStamp) * ExtStamp + (t % ExtStamp) = t
      BY DivMod DEF ChunkAssumption
    <3> QED
      BY <3>2, <3>4, <3>5
  <2>4. PICK ds : ds = WithTs(cs, t)
    OBVIOUS
  <2>5. /\ ds \in StreamRecs /\ ds.hdr = <<>> /\ ds.fmt = f /\ ds.first = cs.first
        /\ ds.message = cs.message /\ ds.chunkRead = 0 /\ ds.hasExt = TRUE
        /\ ds.ts = cs.ts /\ ds.head.ts = t /\ ds.head.len = cs.head.len
        /\ ds.head.type = cs.head.type /\ ds.head.stream = cs.head.stream
    <3>1. /\ WithTs(cs, t) \in StreamRecs
          /\ WithTs(cs, t).hdr = <<>> /\ WithTs(cs, t).fmt = cs.fmt /\ WithTs(cs, t).first = cs.first
          /\ WithTs(cs, t).message = cs.message /\ WithTs(cs, t).chunkRead = cs.chunkRead
          /\ WithTs(cs, t).hasExt = cs.hasExt /\ WithTs(cs, t).ts = cs.ts
          /\ WithTs(cs, t).head.ts = t /\ WithTs(cs, t).head.len = cs.head.len
          /\ WithTs(cs, t).head.type = cs.head.type /\ WithTs(cs, t).head.stream = cs.head.stream
      <4>1. cs \in StreamRecs /\ t \in Nat
        BY <1>10, <2>2
      <4> QED
        BY <4>1, WithTsIs
    <3> QED
      BY <1>13, <1>14, <2>4, <3>1
  <2>6. /\ cks' = [cks EXCEPT ![current] = ds] /\ data' = Drop(data, w) /\ state' = "payload"
    BY <1>20, <1>21, <1>26, <1>29, <2>3, <2>4 DEF ExtStep
  <2>7. Turn(w, ds)
    <3>1. w \in 0 .. Len(data)
      BY <1>20, <1>21, <1>22, <1>29
    <3>2. state' # "basic"
      BY <2>6
    <3> QED
      BY <1>26, <2>6, <3>1, <3>2 DEF Turn
  <2>8. Kept(S, q.c, q.num, q.from + ds.chunkRead, r, ds)
    BY <1>13, <1>14, <2>5 DEF Kept
  <2>9. HeadIs(ds, g)
    <3>1. HeadBut(ds, g)
      BY <1>14, <2>1, <2>5 DEF HeadBut
    <3> QED
      BY <2>2, <2>5, <3>1 DEF HeadIs
  <2>10. k + w = PayFrom(hd, q) + ds.chunkRead
    <3>1. PayFrom(hd, q) = b + 2
      BY <1>14, <1>15 DEF PayFrom
    <3>2. (b + x) + (2 - x) = b + 2
      BY <1>17, <1>15, RestOf
    <3>3. k + w = b + 2
      BY <1>19, <1>22, <3>2
    <3>4. b + 2 + 0 = b + 2
      BY <1>15
    <3> QED
      BY <2>5, <3>1, <3>3, <3>4
  <2>11. ds.chunkRead < q.upto - q.from \/ (ds.chunkRead = 0 /\ q.upto = q.from)
    <3>1. q.upto - q.from \in Nat /\ q.upto \in Nat /\ q.from \in Nat
      BY <1>8 DEF At, PartAt, PartSizes, PartRecs
    <3> QED
      BY <2>5, <3>1
  <2>12. AtPayload(hd, q, k + w, ds)
    BY <2>1, <2>5, <2>9, <2>10, <2>11 DEF AtPayload
  <2>13. Within(S, hd, A, o, q, k + w, state', r, ds)
    BY <1>5, <1>13, <2>5, <2>6, <2>8, <2>12 DEF Within
  <2> QED
    BY <1>27, <2>5, <2>7, <2>13
<1> QED
  BY <1>28, <1>29

\* What payload changes of a chunk stream (S_PAYLOAD), and what a complete message changes.
WithPart(cs, u, z) == [cs EXCEPT !.message = u, !.chunkRead = z]
WithDone(cs)       == [cs EXCEPT !.message = <<>>, !.chunkRead = 0, !.ts = Stamp(cs)]

LEMMA WithPartIs ==
    ASSUME NEW cs \in StreamRecs, NEW u \in Seq(Cells), NEW z \in Nat
    PROVE  /\ WithPart(cs, u, z) \in StreamRecs
           /\ WithPart(cs, u, z).hdr = cs.hdr /\ WithPart(cs, u, z).fmt = cs.fmt
           /\ WithPart(cs, u, z).first = cs.first
           /\ WithPart(cs, u, z).message = u /\ WithPart(cs, u, z).chunkRead = z
           /\ WithPart(cs, u, z).hasExt = cs.hasExt /\ WithPart(cs, u, z).ts = cs.ts
           /\ WithPart(cs, u, z).head = cs.head
BY DEF WithPart, StreamRecs

LEMMA WithDoneIs ==
    ASSUME NEW cs \in StreamRecs, Stamp(cs) \in 0 .. (StampMod - 1)
    PROVE  /\ WithDone(cs) \in StreamRecs
           /\ WithDone(cs).hdr = cs.hdr /\ WithDone(cs).fmt = cs.fmt
           /\ WithDone(cs).first = cs.first
           /\ WithDone(cs).message = <<>> /\ WithDone(cs).chunkRead = 0
           /\ WithDone(cs).hasExt = cs.hasExt /\ WithDone(cs).ts = Stamp(cs)
           /\ WithDone(cs).head = cs.head
<1>1. <<>> \in Seq(Cells)
  OBVIOUS
<1> HIDE DEF Stamp
<1> QED
  BY <1>1 DEF WithDone, StreamRecs

\* ReadPayload when it does not fail, with what it reads named: u is the message so far,
\* of which m cells were read now; w were asked for.
PayStep(cs, u, m, w) ==
    /\ data' = Drop(data, m) /\ buffered + w <= MaxBuffered
    /\ IF m < w
       THEN /\ cks' = [cks EXCEPT ![current] = WithPart(cs, u, cs.chunkRead + m)]
            /\ buffered' = buffered + m /\ UNCHANGED <<state, readSize, received>>
       ELSE /\ state' = "basic"
            /\ IF cs.head.len <= Len(u)
               THEN /\ received' = [received EXCEPT ![current] =
                                        Append(@, Msg(cs.head.type, cs.head.stream, Stamp(cs), u))]
                    /\ readSize' = IF cs.head.type = SetSize THEN u[1].v ELSE readSize
                    /\ cks' = [cks EXCEPT ![current] = WithDone(cs)]
                    /\ buffered' = CountDone(cs, u)
               ELSE /\ cks' = [cks EXCEPT ![current] = WithPart(cs, u, 0)]
                    /\ buffered' = buffered + m /\ UNCHANGED <<readSize, received>>

LEMMA PayStepIs ==
    ASSUME ReadPayload, failure' = "none", cks \in [DOMAIN cks -> StreamRecs], current \in DOMAIN cks,
           NEW cs, cs = cks[current], NEW w, w = Need(cs) - cs.chunkRead, w \in Int, buffered \in Nat,
           MaxBuffered \in Nat
    PROVE  /\ state = "payload" /\ UNCHANGED <<writerVars, wire, headCache, current>>
           /\ PayStep(cs, cs.message \o Take(data, Cut(w, Len(data))), Cut(w, Len(data)), w)
<1>1. state = "payload" /\ UNCHANGED <<writerVars, wire, headCache, current>>
  BY DEF ReadPayload
<1>2. PICK m : m = Cut(w, Len(data))
  OBVIOUS
<1>3. PICK u : u = cs.message \o Take(data, m)
  OBVIOUS
<1>4. /\ ~TooMuch(w) /\ data' = Drop(data, m)
      /\ IF m < w
         THEN /\ cks' = [cks EXCEPT ![current].message = u, ![current].chunkRead = @ + m]
              /\ buffered' = buffered + m /\ UNCHANGED <<state, readSize, received>>
         ELSE /\ state' = "basic"
              /\ IF cs.head.len <= Len(u)
                 THEN Complete(cs, u) /\ buffered' = CountDone(cs, u)
                 ELSE /\ cks' = [cks EXCEPT ![current].message = u, ![current].chunkRead = 0]
                      /\ buffered' = buffered + m /\ UNCHANGED <<readSize, received>>
  BY <1>2, <1>3 DEF ReadPayload
<1>5. buffered + w <= MaxBuffered
  BY <1>4 DEF TooMuch
<1>6. [cks EXCEPT ![current].message = u, ![current].chunkRead = @ + m]
        = [cks EXCEPT ![current] = WithPart(cs, u, cs.chunkRead + m)]
  BY DEF WithPart, StreamRecs
<1>7. [cks EXCEPT ![current].message = u, ![current].chunkRead = 0]
        = [cks EXCEPT ![current] = WithPart(cs, u, 0)]
  BY DEF WithPart
<1>8. [cks EXCEPT ![current].message = <<>>, ![current].chunkRead = 0, ![current].ts = Stamp(cs)]
        = [cks EXCEPT ![current] = WithDone(cs)]
  <2> HIDE DEF Stamp
  <2> QED
    BY DEF WithDone
<1>9. PayStep(cs, u, m, w)
  <2>1. CASE m < w
    BY <1>4, <1>5, <1>6, <2>1 DEF PayStep
  <2>2. CASE ~(m < w)
    <3>1. CASE cs.head.len <= Len(u)
      BY <1>4, <1>5, <1>8, <2>2, <3>1 DEF PayStep, Complete
    <3>2. CASE ~(cs.head.len <= Len(u))
      BY <1>4, <1>5, <1>7, <2>2, <3>2 DEF PayStep
    <3> QED
      BY <3>1, <3>2
  <2> QED
    BY <2>1, <2>2
<1> QED
  BY <1>1, <1>2, <1>3, <1>9

\* The payload that is kept changes from a to b cells, and the count with it.
Charged ==
    \E ds \in StreamRecs, a \in Nat, b \in Nat :
        /\ cks' = [cks EXCEPT ![current] = ds]
        /\ a = Len(cks[current].message) /\ b = Len(ds.message)
        /\ buffered' \in Int /\ buffered' + a = buffered + b
        /\ b = 0 \/ buffered' <= MaxBuffered

LEMMA Swap == \A x \in Nat, m \in Nat, a \in Nat : x + m \in Int /\ (x + m) + a = x + (a + m)
OBVIOUS

LEMMA LessToo == \A x \in Nat, y \in Nat, m \in Nat, w \in Nat : m <= w /\ x + w <= y => x + m <= y
OBVIOUS

LEMMA ChargeMore ==
    ASSUME ChunkAssumption, NEW ds \in StreamRecs, cks' = [cks EXCEPT ![current] = ds],
           NEW a \in Nat, a = Len(cks[current].message), NEW m \in Nat, Len(ds.message) = a + m,
           buffered \in Nat, buffered' = buffered + m, NEW w \in Nat, m <= w, buffered + w <= MaxBuffered
    PROVE  Charged
<1>1. PICK x \in Nat : x = buffered
  OBVIOUS
<1>2. PICK b \in Nat : b = a + m
  OBVIOUS
<1>3. PICK y \in Nat : y = MaxBuffered
  BY DEF ChunkAssumption
<1>4. x + m \in Int /\ (x + m) + a = x + b /\ x + m <= y
  <2>1. x + w <= y
    BY <1>1, <1>3
  <2>2. x \in Nat /\ y \in Nat /\ m \in Nat /\ w \in Nat /\ m <= w /\ x + w <= y
    BY <2>1
  <2>3. x + m <= y
    BY <2>2, LessToo, Zenon
  <2>4. x + m \in Int /\ (x + m) + a = x + (a + m)
    BY <2>2, Swap, ZenonT(30)
  <2> QED
    BY <1>2, <2>3, <2>4
<1>5. buffered' = x + m
  BY <1>1
<1> QED
  BY <1>1, <1>2, <1>3, <1>4, <1>5 DEF Charged

LEMMA ChargeDone ==
    ASSUME NEW ds \in StreamRecs, cks' = [cks EXCEPT ![current] = ds],
           NEW cs, cs = cks[current], NEW a \in Nat, a = Len(cs.message), ds.message = <<>>,
           NEW u, Len(u) \in Nat, buffered \in Nat, buffered' = CountDone(cs, u)
    PROVE  Charged
<1>1. PICK x \in Nat : x = buffered
  OBVIOUS
<1>2. PICK l \in Nat : l = Len(u)
  OBVIOUS
<1>3. buffered' = x + l - a - l
  BY <1>1, <1>2 DEF CountDone
<1>4. x + l - a - l \in Int /\ (x + l - a - l) + a = x + 0
  OBVIOUS
<1>5. Len(ds.message) = 0 /\ 0 \in Nat
  OBVIOUS
<1> QED
  BY <1>1, <1>3, <1>4, <1>5 DEF Charged

\* The reader is in the payload of the part q: w of it are left, m of those have been read
\* now, and u is the message so far.
AtPay(S, hd, o, q, k, r, cs, u, m, w) ==
    /\ cs \in StreamRecs /\ cs.hdr = <<>> /\ HeadIs(cs, HeadAt(hd, q))
    /\ cs.fmt = Fmt(hd, q) /\ cs.first = hd[q.c][q.num].fmt
    /\ w \in Nat /\ m \in 0 .. w /\ cs.chunkRead \in Nat
    /\ cs.chunkRead + w = q.upto - q.from
    /\ k = PayFrom(hd, q) + cs.chunkRead
    /\ Kept(S, q.c, q.num, q.from + cs.chunkRead, r, cs)
    /\ cs.head.len = Len(S[q.c][q.num].body)
    /\ u \in Seq(Cells) /\ Len(u) = (q.from + cs.chunkRead) + m
    /\ Follows(u, S[q.c][q.num].body, 0)

LEMMA CutRest ==
    \A l \in Nat, x \in Nat, z \in Nat : (IF l - x > z THEN z ELSE l - x) = Cut(x + z, l) - x
BY DEF Cut

LEMMA Filled == \A x \in Nat, y \in Nat, v \in Nat, w \in Nat : v + w = y - x => (x + v) + w = y
OBVIOUS

\* What is left of a part (Need).
LEMMA NeedIs ==
    ASSUME ChunkAssumption, NEW S \in [AllCsids -> Seq(Msgs)], Announced(S), NEW hd, NEW A, NEW o, NEW q, NEW s, NEW k,
           At(S, hd, A, o, q, s, k), NEW cs \in StreamRecs, HeadIs(cs, HeadAt(hd, q)),
           Len(cs.message) = q.from + cs.chunkRead
    PROVE  Need(cs) = q.upto - q.from /\ cs.head.len = Len(S[q.c][q.num].body)
<1>1. /\ q.from \in Nat /\ q.upto \in Nat /\ q.upto - q.from \in Nat /\ q.c \in AllCsids
      /\ NextPart(S, q, s) /\ HeadFits(S, hd, q.c, q.num) /\ q.num \in 1 .. Len(S[q.c])
      /\ s \in Places
  BY DEF At, PartAt, PartSizes, PartRecs
<1>2. PICK l \in Nat : l = Len(S[q.c][q.num].body)
  <2>1. \A c \in AllCsids : PlaceFits(S, c, s[c])
    BY DEF At, PartAt
  <2>2. q \in PartRecs
    BY DEF At, PartAt
  <2>3. Len(S[q.c][q.num].body) \in Nat
    BY <1>1, <2>1, <2>2, NextIs
  <2> QED
    BY <2>3
<1>3. cs.head.len = l
  BY <1>1, <1>2 DEF HeadFits, HeadIs, HeadBut, HeadAt
<1>4. PICK x \in Nat : x = q.from
  BY <1>1
<1>5. PICK y \in Nat : y = q.upto /\ y >= x
  BY <1>1, <1>4
<1>6. PICK z \in Nat : z = readSize
  <2>1. readSize = SizeAfter(S, s[Ctrl].num)
    BY DEF At
  <2>2. PICK i : i = s[Ctrl].num
    OBVIOUS
  <2>3. Ctrl \in AllCsids
    BY DEF AllCsids
  <2>4. i \in Nat /\ i <= Len(S[Ctrl]) /\ Len(S[Ctrl]) \in Nat
    <3>1. PlaceFits(S, Ctrl, s[Ctrl])
      BY <2>3 DEF At, PartAt
    <3> QED
      BY <1>1, <2>2, <2>3, <3>1 DEF Places, PlaceFits
  <2>5. SizeAfter(S, i) \in Nat
    BY <2>4, SizeIs
  <2> QED
    BY <2>1, <2>2, <2>5
<1>7. y = Cut(x + z, l)
  BY <1>1, <1>2, <1>4, <1>5, <1>6 DEF NextPart, At
<1>8. PICK v \in Nat : v = cs.chunkRead
  BY DEF StreamRecs
<1>9. Len(cs.message) - v = x
  <2>1. (x + v) - v = x
    BY <1>4, <1>8
  <2> QED
    BY <1>4, <1>8, <2>1
<1>10. Need(cs) = IF l - x > z THEN z ELSE l - x
  BY <1>3, <1>6, <1>8, <1>9 DEF Need
<1>11. (IF l - x > z THEN z ELSE l - x) = y - x
  <2>1. (IF l - x > z THEN z ELSE l - x) = Cut(x + z, l) - x
    <3>1. l \in Nat /\ x \in Nat /\ z \in Nat
      OBVIOUS
    <3> QED
      BY <3>1, CutRest, Zenon
  <2> QED
    BY <1>7, <2>1
<1> QED
  BY <1>2, <1>3, <1>4, <1>5, <1>10, <1>11

\* What ReadPayload asks for, gets, and has then.
PayLeft == Need(cks[current]) - cks[current].chunkRead
PayGot  == Cut(PayLeft, Len(data))
PayBody == cks[current].message \o Take(data, PayGot)

LEMMA PayAtIs ==
    ASSUME ChunkAssumption, NEW S \in [AllCsids -> Seq(Msgs)], Announced(S),
           NEW hd, NEW A, NEW o, NEW q, NEW s, NEW k,
           At(S, hd, A, o, q, s, k), state = "payload", Tame
    PROVE  /\ AtPay(S, hd, o, q, k, received[current], cks[current], PayBody, PayGot, PayLeft)
           /\ current = q.c /\ current \in DOMAIN cks /\ PayGot \in 0 .. Len(data)
           /\ PayGot < PayLeft => PayGot = Len(data)
<1>1. PICK c \in AllCsids : c = q.c /\ c = current /\ c \in DOMAIN cks
  BY DEF At
<1>2. PICK cs \in StreamRecs : cs = cks[c]
  BY <1>1 DEF Tame
<1>3. PICK r : r = received[c]
  OBVIOUS
<1>4. Within(S, hd, A, o, q, k, "payload", r, cs)
  BY <1>1, <1>2, <1>3 DEF At
<1>5. /\ Kept(S, q.c, q.num, q.from + cs.chunkRead, r, cs)
      /\ cs.fmt = Fmt(hd, q) /\ cs.first = hd[q.c][q.num].fmt
      /\ AtPayload(hd, q, k, cs)
  BY <1>4 DEF Within
<1>6. /\ HeadIs(cs, HeadAt(hd, q)) /\ cs.hdr = <<>>
      /\ k = PayFrom(hd, q) + cs.chunkRead
      /\ cs.chunkRead < q.upto - q.from \/ (cs.chunkRead = 0 /\ q.upto = q.from)
  BY <1>5 DEF AtPayload
<1>7. Len(cs.message) = q.from + cs.chunkRead
  BY <1>5 DEF Kept
<1>8. Need(cs) = q.upto - q.from /\ cs.head.len = Len(S[q.c][q.num].body)
  <2>1. HeadIs(cs, HeadAt(hd, q))
    BY <1>6
  <2> QED
    BY <1>7, <2>1, NeedIs
<1>9. PICK x \in Nat : x = q.from
  BY DEF At, PartAt, PartRecs
<1>10. PICK p \in Nat : p = q.upto - q.from
  BY DEF At, PartAt, PartSizes
<1>11. PICK v \in Nat : v = cs.chunkRead
  BY DEF StreamRecs
<1>12. v < p \/ (v = 0 /\ p = 0)
  <2>1. q.upto \in Nat /\ q.from \in Nat
    BY DEF At, PartAt, PartRecs
  <2> QED
    BY <1>6, <1>10, <1>11, <2>1
<1>13. PICK w \in Nat : w = p - v /\ w = PayLeft
  BY <1>1, <1>2, <1>8, <1>10, <1>11, <1>12 DEF PayLeft
<1>14. PICK d \in Seq(Cells) : d = data /\ Follows(d, A, o + k)
  BY DEF At
<1>15. PICK l \in Nat : l = Len(d)
  OBVIOUS
<1>16. PICK m \in Nat : m = Cut(w, l) /\ m = PayGot /\ m <= l /\ m <= w /\ (m < w => m = l)
  BY <1>13, <1>14, <1>15 DEF Cut, PayGot
<1>17. PICK B : B = S[q.c][q.num].body
  OBVIOUS
<1>18. PICK y \in Nat : y = PayFrom(hd, q)
  <2>1. PartSizes(hd, q)
    BY DEF At, PartAt
  <2>2. PICK y1 \in Nat : y1 = HeadFrom(q)
    BY <2>1 DEF PartSizes, HeadFrom
  <2>3. PICK y2 \in Nat : y2 = HeadLen[Fmt(hd, q)]
    BY <2>1 DEF PartSizes
  <2>4. PICK y3 \in Nat : y3 = ELen(HeadAt(hd, q))
    BY <2>1 DEF PartSizes
  <2> QED
    BY <2>2, <2>3, <2>4 DEF ExtFrom, PayFrom
<1>19. k = y + v
  BY <1>6, <1>11, <1>18
<1>20. o \in Nat
  BY DEF At
<1>21. \A j \in 1 .. p : A[o + y + j] = B[x + j]
  BY <1>9, <1>10, <1>17, <1>18 DEF At, PartAt, Spells
<1>22. PICK t \in Seq(Cells) : t = cs.message
  BY DEF StreamRecs
<1>23. Len(t) = x + v
  BY <1>7, <1>9, <1>11, <1>22
<1>24. Follows(t, B, 0)
  <2>1. \A j \in 1 .. x + v : t[j] = B[j]
    BY <1>5, <1>9, <1>11, <1>17, <1>22 DEF Kept
  <2>2. \A j \in 1 .. x + v : 0 + j = j
    BY <1>9, <1>11
  <2> QED
    BY <1>23, <2>1, <2>2 DEF Follows
<1>25. \A i \in 1 .. m : d[i] = B[(0 + Len(t)) + i]
  <2> TAKE i \in 1 .. m
  <2>1. d[i] = A[(o + k) + i]
    <3>1. i \in 1 .. Len(d)
      BY <1>15, <1>16
    <3> QED
      BY <1>14, <3>1 DEF Follows
  <2>2. v + i \in 1 .. p
    BY <1>10, <1>11, <1>13, <1>16
  <2>3. (o + k) + i = o + y + (v + i)
    BY <1>11, <1>16, <1>18, <1>19, <1>20, SMTT(30)
  <2>4. A[o + y + (v + i)] = B[x + (v + i)]
    BY <1>21, <2>2
  <2>5. x + (v + i) = (0 + Len(t)) + i
    BY <1>9, <1>11, <1>16, <1>23
  <2> QED
    BY <2>1, <2>3, <2>4, <2>5
<1>26. PICK u : u = t \o Take(d, m)
  OBVIOUS
<1>27. u \in Seq(Cells) /\ Len(u) = Len(t) + m /\ Follows(u, B, 0)
  <2>1. 0 \in Nat /\ m \in 0 .. Len(d)
    BY <1>15, <1>16
  <2>2. /\ t \o Take(d, m) \in Seq(Cells) /\ Len(t \o Take(d, m)) = Len(t) + m
        /\ Follows(t \o Take(d, m), B, 0)
    BY <1>24, <1>25, <2>1, GatheredSome
  <2> QED
    BY <1>26, <2>2
<1>28. u = PayBody
  BY <1>1, <1>2, <1>14, <1>16, <1>22, <1>26 DEF PayBody
<1>29. AtPay(S, hd, o, q, k, r, cs, u, m, w)
  <2>1. cs.chunkRead + w = q.upto - q.from
    BY <1>10, <1>11, <1>12, <1>13
  <2>2. Len(u) = (q.from + cs.chunkRead) + m
    BY <1>9, <1>11, <1>23, <1>27
  <2>3. m \in 0 .. w /\ w \in Nat /\ cs.chunkRead \in Nat
    BY <1>11, <1>13, <1>16
  <2> QED
    BY <1>5, <1>6, <1>8, <1>17, <1>27, <2>1, <2>2, <2>3 DEF AtPay
<1> QED
  BY <1>1, <1>2, <1>3, <1>13, <1>14, <1>15, <1>16, <1>28, <1>29

\* Payload that does not complete the part (ReadPayload).
LEMMA PayMoreKeeps ==
    ASSUME ChunkAssumption, NEW S \in [AllCsids -> Seq(Msgs)], S = sent, Tame,
           NEW hd, NEW A, NEW Q, NEW off, NEW at, NEW n, NEW k, Sound(hd, A, Q, off, at, n, k),
           state = "payload", UNCHANGED <<writerVars, wire, headCache, current>>,
           PayStep(cks[current], PayBody, PayGot, PayLeft), PayGot < PayLeft,
           buffered \in Nat
    PROVE  (\E j : Sound(hd, A, Q, off, at, n, j)') /\ Charged
<1>1. At(S, hd, A, off[n], Q[n + 1], at[n], k) /\ n < Len(Q)
  BY AtIs, DataHas
<1>2. PICK q : q = Q[n + 1]
  OBVIOUS
<1>3. PICK o : o = off[n]
  OBVIOUS
<1>4. PICK s : s = at[n]
  OBVIOUS
<1>5. At(S, hd, A, o, q, s, k)
  BY <1>1, <1>2, <1>3, <1>4
<1>6. Announced(S)
  <2>1. History(S, hd, A, Q, off, at)
    BY SoundIs
  <2> QED
    BY <2>1 DEF History
<1>7. /\ AtPay(S, hd, o, q, k, received[current], cks[current], PayBody, PayGot, PayLeft)
      /\ current = q.c /\ current \in DOMAIN cks /\ PayGot \in 0 .. Len(data)
  BY <1>5, <1>6, PayAtIs
<1>8. PICK r : r = received[current]
  OBVIOUS
<1>9. PICK cs : cs = cks[current]
  OBVIOUS
<1>10. PICK u : u = PayBody
  OBVIOUS
<1>11. PICK m : m = PayGot
  OBVIOUS
<1>12. PICK w : w = PayLeft
  OBVIOUS
<1>13. /\ cs \in StreamRecs /\ cs.hdr = <<>> /\ HeadIs(cs, HeadAt(hd, q))
       /\ cs.fmt = Fmt(hd, q) /\ cs.first = hd[q.c][q.num].fmt
       /\ w \in Nat /\ m \in 0 .. w /\ cs.chunkRead \in Nat
       /\ cs.chunkRead + w = q.upto - q.from
       /\ k = PayFrom(hd, q) + cs.chunkRead
       /\ Kept(S, q.c, q.num, q.from + cs.chunkRead, r, cs)
       /\ u \in Seq(Cells) /\ Len(u) = (q.from + cs.chunkRead) + m
       /\ Follows(u, S[q.c][q.num].body, 0)
  BY <1>7, <1>8, <1>9, <1>10, <1>11, <1>12 DEF AtPay
<1>14. m < w /\ PayStep(cs, u, m, w)
  BY <1>9, <1>10, <1>11, <1>12
<1>15. PICK v \in Nat : v = cs.chunkRead
  BY <1>13
<1>16. PICK z \in Nat : z = v + m
  BY <1>13, <1>15
<1>17. PICK ds : ds = WithPart(cs, u, z)
  OBVIOUS
<1>18. /\ data' = Drop(data, m) /\ cks' = [cks EXCEPT ![current] = ds]
       /\ UNCHANGED <<state, readSize, received>>
  BY <1>14, <1>15, <1>16, <1>17 DEF PayStep
<1>19. /\ ds \in StreamRecs /\ ds.hdr = cs.hdr /\ ds.fmt = cs.fmt /\ ds.first = cs.first
       /\ ds.message = u /\ ds.chunkRead = z /\ ds.hasExt = cs.hasExt /\ ds.ts = cs.ts
       /\ ds.head = cs.head
  <2>1. cs \in StreamRecs /\ u \in Seq(Cells)
    BY <1>13
  <2>2. /\ WithPart(cs, u, z) \in StreamRecs
        /\ WithPart(cs, u, z).hdr = cs.hdr /\ WithPart(cs, u, z).fmt = cs.fmt
        /\ WithPart(cs, u, z).first = cs.first
        /\ WithPart(cs, u, z).message = u /\ WithPart(cs, u, z).chunkRead = z
        /\ WithPart(cs, u, z).hasExt = cs.hasExt /\ WithPart(cs, u, z).ts = cs.ts
        /\ WithPart(cs, u, z).head = cs.head
    BY <2>1, WithPartIs
  <2> QED
    BY <1>17, <2>2
<1>20. Turn(m, ds)
  BY <1>7, <1>11, <1>18 DEF Turn
<1>21. PICK x \in Nat : x = q.from
  BY <1>5 DEF At, PartAt, PartRecs
<1>22. Len(u) = x + z /\ q.from + ds.chunkRead = x + z
  <2>1. (x + v) + m = x + (v + m)
    <3>1. x \in Nat /\ v \in Nat /\ m \in Nat
      BY <1>13
    <3> QED
      BY <3>1, Assoc
  <2> QED
    BY <1>13, <1>15, <1>16, <1>19, <1>21, <2>1
<1>23. Kept(S, q.c, q.num, q.from + ds.chunkRead, r, ds)
  <2>1. \A j \in 1 .. x + z : u[j] = S[q.c][q.num].body[j]
    <3>1. \A j \in 1 .. x + z : u[j] = S[q.c][q.num].body[0 + j]
      BY <1>13, <1>22 DEF Follows
    <3>2. \A j \in 1 .. x + z : 0 + j = j
      BY <1>16, <1>21
    <3> QED
      BY <3>1, <3>2
  <2>2. /\ Len(r) = q.num - 1 /\ \A i \in 1 .. (q.num - 1) : r[i] = S[q.c][i]
        /\ cs.ts = IF q.num = 1 THEN 0 ELSE S[q.c][q.num - 1].ts
    BY <1>13 DEF Kept
  <2>3. /\ ds.ts = (IF q.num = 1 THEN 0 ELSE S[q.c][q.num - 1].ts)
        /\ Len(ds.message) = x + z /\ \A j \in 1 .. x + z : ds.message[j] = S[q.c][q.num].body[j]
    BY <1>19, <1>22, <2>1, <2>2
  <2> QED
    BY <1>22, <2>2, <2>3 DEF Kept
<1>24. HeadIs(ds, HeadAt(hd, q))
  BY <1>13, <1>19 DEF HeadIs, HeadBut
<1>25. k + m = PayFrom(hd, q) + ds.chunkRead
  <2>1. PICK y \in Nat : y = PayFrom(hd, q)
    <3>1. PartSizes(hd, q)
      BY <1>5 DEF At, PartAt
    <3>2. PICK y1 \in Nat : y1 = HeadFrom(q)
      BY <3>1 DEF PartSizes, HeadFrom
    <3>3. PICK y2 \in Nat : y2 = HeadLen[Fmt(hd, q)]
      BY <3>1 DEF PartSizes
    <3>4. PICK y3 \in Nat : y3 = ELen(HeadAt(hd, q))
      BY <3>1 DEF PartSizes
    <3> QED
      BY <3>2, <3>3, <3>4 DEF ExtFrom, PayFrom
  <2>2. (y + v) + m = y + (v + m)
    <3>1. y \in Nat /\ v \in Nat /\ m \in Nat
      BY <1>13
    <3> QED
      BY <3>1, Assoc
  <2> QED
    BY <1>13, <1>15, <1>16, <1>19, <2>1, <2>2
<1>26. ds.chunkRead < q.upto - q.from
  BY <1>13, <1>14, <1>15, <1>16, <1>19
<1>27. AtPayload(hd, q, k + m, ds)
  BY <1>13, <1>19, <1>24, <1>25, <1>26 DEF AtPayload
<1>28. Within(S, hd, A, o, q, k + m, state', r, ds)
  BY <1>13, <1>18, <1>19, <1>23, <1>27 DEF Within
<1>29. Within(S, hd, A, off[n], Q[n + 1], k + m, state', received[current], ds)
  BY <1>2, <1>3, <1>8, <1>28
<1>30. state # "basic"
  OBVIOUS
<1>31. \E j : Sound(hd, A, Q, off, at, n, j)'
  BY <1>20, <1>29, <1>30, TurnKeeps
<1>32. Charged
  <2>1. PICK a \in Nat : a = Len(cks[current].message) /\ Len(ds.message) = a + m
    <3>1. Len(cs.message) = q.from + cs.chunkRead
      BY <1>13 DEF Kept
    <3>2. PICK a \in Nat : a = x + v
      OBVIOUS
    <3> QED
      BY <1>9, <1>13, <1>15, <1>19, <1>21, <3>1, <3>2
  <2>2. m \in Nat /\ w \in Nat /\ m <= w
    BY <1>13
  <2>3. buffered' = buffered + m /\ buffered + w <= MaxBuffered
    BY <1>14 DEF PayStep
  <2> QED
    BY <1>18, <1>19, <2>1, <2>2, <2>3, ChargeMore
<1> QED
  BY <1>31, <1>32

\* A turn that ends the part that is being read, and leaves ds of its chunk stream.
Ends(m, ds) ==
    /\ UNCHANGED <<writerVars, wire, headCache, current>>
    /\ m \in 0 .. Len(data) /\ data' = Drop(data, m) /\ state' = "basic"
    /\ cks' = [cks EXCEPT ![current] = ds]
    /\ \A d \in AllCsids : d # current => received'[d] = received[d]

LEMMA EndKeeps ==
    ASSUME ChunkAssumption, NEW S \in [AllCsids -> Seq(Msgs)], S = sent,
           NEW hd, NEW A, NEW Q, NEW off, NEW at, NEW n, NEW k, Sound(hd, A, Q, off, at, n, k),
           state # "basic", NEW m, NEW ds, Ends(m, ds), k + m = PartLen(hd, Q[n + 1]),
           Rests(S, hd, current, [num |-> Q[n + 1].num, upto |-> Q[n + 1].upto], received'[current], ds),
           readSize' = SizeAfter(S, at[n + 1][Ctrl].num)
    PROVE  Sound(hd, A, Q, off, at, n + 1, 0)'
<1>1. At(S, hd, A, off[n], Q[n + 1], at[n], k) /\ n < Len(Q)
  BY AtIs, DataHas
<1>2. /\ History(S, hd, A, Q, off, at) /\ Reader(S, hd, A, Q, off, at, n, k) /\ Supply(A, off[n] + k)
      /\ A \in Seq(Cells) /\ Q \in Seq(PartRecs) /\ Len(Q) \in Nat /\ n \in 0 .. Len(Q) /\ k \in Nat
      /\ off[n] \in Nat /\ at \in [0 .. Len(Q) -> Places]
  BY SoundIs
<1>3. PICK q \in PartRecs : q = Q[n + 1] /\ q.c \in AllCsids
  BY <1>1 DEF At, PartAt
<1>4. PICK s \in Places : s = at[n]
  BY <1>2
<1>5. PICK c \in AllCsids : c = current /\ c = q.c /\ c \in DOMAIN cks
  BY <1>1, <1>3 DEF At
<1>6. /\ UNCHANGED <<writerVars, wire, headCache, current>>
      /\ m \in 0 .. Len(data) /\ data' = Drop(data, m) /\ state' = "basic"
      /\ cks' = [cks EXCEPT ![c] = ds]
      /\ \A d \in AllCsids : d # c => received'[d] = received[d]
  BY <1>5 DEF Ends
<1>7. DOMAIN cks' = DOMAIN cks /\ cks'[c] = ds /\ \A d \in DOMAIN cks : d # c => cks'[d] = cks[d]
  BY <1>5, <1>6
<1>8. n + 1 \in 1 .. Len(Q) /\ n + 1 \in 0 .. Len(Q) /\ (n + 1) - 1 = n
  BY <1>1, <1>2
<1>9. PICK t \in Places : t = at[n + 1] /\ t = After(q, s)
  <2>1. at[n + 1] = After(Q[n + 1], at[(n + 1) - 1])
    BY <1>2, <1>8 DEF History, PartsFit
  <2> QED
    BY <1>2, <1>3, <1>4, <1>8, <2>1
<1>10. t[c] = [num |-> q.num, upto |-> q.upto] /\ \A d \in AllCsids : d # c => t[d] = s[d]
  BY <1>4, <1>5, <1>9 DEF After, Places
<1>11. \A d \in AllCsids : Settled(S, hd, d, t[d])'
  <2> TAKE d \in AllCsids
  <2>1. CASE d # c
    <3>1. Same(d)
      BY <1>6, <1>7, <2>1 DEF Same
    <3>2. Settled(S, hd, d, s[d])
      BY <1>2, <1>4, <1>5, <2>1 DEF Reader
    <3>3. PICK p : p = s[d]
      OBVIOUS
    <3>4. Settled(S, hd, d, p)
      BY <3>2, <3>3
    <3>5. Settled(S, hd, d, p)'
      BY <3>1, <3>4, SettledSame
    <3> QED
      BY <1>10, <2>1, <3>3, <3>5
  <2>2. CASE d = c
    <3>1. Rests(S, hd, c, t[c], received'[c], cks'[c])
      BY <1>3, <1>5, <1>7, <1>10
    <3>2. t[c].num # 0
      BY <1>3, <1>10 DEF PartRecs
    <3>3. c \in DOMAIN cks'
      BY <1>5, <1>7
    <3> QED
      BY <2>2, <3>1, <3>2, <3>3 DEF Settled
  <2> QED
    BY <2>1, <2>2
<1>12. headCache' \in Seq(Cells) /\ Len(headCache') = 0
  <2>1. headCache' = <<>>
    BY <1>1, <1>6 DEF At
  <2> QED
    BY <2>1
<1>13. n + 1 # Len(Q) => 0 < BLen(Q[(n + 1) + 1].c)
  BY DEF BLen
<1>14. \A j \in 1 .. 0 : headCache'[j] = A[off[n + 1] + j]
  OBVIOUS
<1>15. readSize' = SizeAfter(S, t[Ctrl].num)
  BY <1>9
<1>16. PICK i \in 0 .. Len(Q) : i = n + 1
  BY <1>8
<1>17. Reader(S, hd, A, Q, off, at, i, 0)'
  BY <1>6, <1>9, <1>11, <1>12, <1>13, <1>14, <1>15, <1>16 DEF Reader
<1>18. Supply(A, off[i] + 0)'
  <2>1. off[n + 1] = off[n] + PartLen(hd, Q[n + 1])
    BY <1>1, <1>2, PartIs
  <2>2. PICK pos \in Nat : pos = off[n] + k
    BY <1>2
  <2>3. Supply(A, pos)
    BY <1>2, <2>2
  <2>4. data' = Drop(data, m) /\ wire' = wire /\ m \in 0 .. Len(data)
    BY <1>6
  <2>5. Supply(A, pos + m)'
    BY <1>2, <2>3, <2>4, SupplyTaken
  <2>6. pos + m = off[i] + 0
    <3>1. PICK o \in Nat : o = off[n]
      BY <1>2
    <3>2. data \in Seq(Cells)
      BY <1>2 DEF Supply
    <3>3. PICK e \in Nat : e = m
      BY <1>6, <3>2
    <3>4. (o + k) + e = o + (k + e)
      BY <1>2, Assoc
    <3>5. off[i] = o + (k + e)
      BY <1>16, <2>1, <3>1, <3>3
    <3>6. o + (k + e) + 0 = o + (k + e)
      BY <1>2
    <3> QED
      BY <2>2, <3>1, <3>3, <3>4, <3>5, <3>6
  <2> QED
    BY <2>5, <2>6
<1>19. UNCHANGED writerVars
  BY <1>6
<1>20. Sound(hd, A, Q, off, at, i, 0)'
  BY <1>17, <1>18, <1>19, ReadSound
<1> QED
  BY <1>16, <1>20

\* The reader has what gives the message of the part q its time.
Timed(S, hd, q, cs) ==
    /\ HeadIs(cs, HeadAt(hd, q)) /\ cs.first = hd[q.c][q.num].fmt
    /\ cs.ts = IF q.num = 1 THEN 0 ELSE S[q.c][q.num - 1].ts

\* The timestamp of a message is the one it was written with (Stamp).
LEMMA StampIs ==
    ASSUME ChunkAssumption, NEW S \in [AllCsids -> Seq(Msgs)], NEW hd, NEW A, NEW o, NEW q, NEW s,
           PartAt(S, hd, A, o, q, s), NEW cs, Timed(S, hd, q, cs)
    PROVE  Stamp(cs) = S[q.c][q.num].ts /\ S[q.c][q.num] \in Msgs
<1>0. /\ HeadIs(cs, HeadAt(hd, q)) /\ cs.first = hd[q.c][q.num].fmt
      /\ cs.ts = IF q.num = 1 THEN 0 ELSE S[q.c][q.num - 1].ts
  BY DEF Timed
<1>1. /\ q.num \in 1 .. Len(S[q.c]) /\ q.c \in AllCsids /\ HeadFits(S, hd, q.c, q.num)
      /\ S[q.c] \in Seq(Msgs)
  BY DEF PartAt, PartRecs
<1>2. PICK i \in Nat : i = q.num /\ i \in 1 .. Len(S[q.c])
  BY <1>1
<1>3. PICK m \in Msgs : m = S[q.c][i]
  BY <1>1, <1>2, ElementOfSeq
<1>4. m.ts \in 0 .. (StampMod - 1) /\ StampMod \in Nat \ {0}
  BY <1>3 DEF Msgs, ChunkAssumption
<1>5. cs.head.ts = HeadAt(hd, q).ts
  BY <1>0 DEF HeadIs
<1>6. CASE cs.first = 0
  <2>1. HeadAt(hd, q).ts = m.ts
    BY <1>0, <1>1, <1>2, <1>3, <1>6 DEF HeadFits, HeadAt
  <2> QED
    BY <1>2, <1>3, <1>5, <1>6, <2>1 DEF Stamp
<1>7. CASE cs.first # 0
  <2>1. i > 1 /\ HeadAt(hd, q).ts = (m.ts - S[q.c][i - 1].ts) % StampMod
    BY <1>0, <1>1, <1>2, <1>3, <1>7 DEF HeadFits, HeadAt
  <2>2. i - 1 \in 1 .. Len(S[q.c])
    BY <1>2, <2>1
  <2>3. PICK p \in Msgs : p = S[q.c][i - 1]
    BY <1>1, <2>2, ElementOfSeq
  <2>4. p.ts \in 0 .. (StampMod - 1) /\ cs.ts = p.ts
    <3>1. p.ts \in 0 .. (StampMod - 1)
      BY <2>3 DEF Msgs
    <3>2. q.num # 1 /\ S[q.c][q.num - 1] = p
      BY <1>2, <2>1, <2>3
    <3>3. cs.ts = S[q.c][q.num - 1].ts
      BY <1>0, <3>2
    <3> QED
      BY <3>1, <3>2, <3>3
  <2>5. PICK t \in 0 .. (StampMod - 1) : t = m.ts
    BY <1>4
  <2>6. PICK y \in 0 .. (StampMod - 1) : y = p.ts
    BY <2>4
  <2>7. (y + ((t - y) % StampMod)) % StampMod = t
    BY <1>4, ModBack
  <2>8. Stamp(cs) = (cs.ts + cs.head.ts) % StampMod
    BY <1>7 DEF Stamp
  <2> QED
    BY <1>2, <1>3, <1>5, <2>1, <2>3, <2>4, <2>5, <2>6, <2>7, <2>8
<1> QED
  BY <1>6, <1>7

\* The reader's parts and places as far as the last part it reads (ReadPayload).
LEMMA PlacesNext ==
    ASSUME NEW S, NEW hd, NEW A, NEW Q, NEW off, NEW at, History(S, hd, A, Q, off, at),
           NEW n \in 0 .. Len(Q), n < Len(Q)
    PROVE  at[n + 1] = After(Q[n + 1], at[n]) /\ Announced(S)
<1>1. n + 1 \in 1 .. Len(Q) /\ (n + 1) - 1 = n
  BY DEF History, PartsFit
<1> QED
  BY <1>1 DEF History, PartsFit

\* Payload that completes a part (ReadPayload), but not its message.
LEMMA PayPartKeeps ==
    ASSUME ChunkAssumption, NEW S \in [AllCsids -> Seq(Msgs)], S = sent, Tame,
           NEW hd, NEW A, NEW Q, NEW off, NEW at, NEW n, NEW k, Sound(hd, A, Q, off, at, n, k),
           state = "payload", UNCHANGED <<writerVars, wire, headCache, current>>,
           PayStep(cks[current], PayBody, PayGot, PayLeft), ~(PayGot < PayLeft),
           ~(cks[current].head.len <= Len(PayBody)), buffered \in Nat
    PROVE  (\E i, j : Sound(hd, A, Q, off, at, i, j)') /\ Charged
<1>1. At(S, hd, A, off[n], Q[n + 1], at[n], k) /\ n < Len(Q)
  BY AtIs, DataHas
<1>2. PICK q : q = Q[n + 1]
  OBVIOUS
<1>3. PICK o : o = off[n]
  OBVIOUS
<1>4. PICK s : s = at[n]
  OBVIOUS
<1>5. At(S, hd, A, o, q, s, k)
  BY <1>1, <1>2, <1>3, <1>4
<1>6. Announced(S) /\ at[n + 1] = After(q, s)
  <2>1. History(S, hd, A, Q, off, at) /\ n \in 0 .. Len(Q)
    BY SoundIs
  <2> QED
    BY <1>1, <1>2, <1>4, <2>1, PlacesNext
<1>7. /\ AtPay(S, hd, o, q, k, received[current], cks[current], PayBody, PayGot, PayLeft)
      /\ current = q.c /\ current \in DOMAIN cks /\ PayGot \in 0 .. Len(data)
  BY <1>5, <1>6, PayAtIs
<1>8. PICK r : r = received[current]
  OBVIOUS
<1>9. PICK cs : cs = cks[current]
  OBVIOUS
<1>10. PICK u : u = PayBody
  OBVIOUS
<1>11. PICK m : m = PayGot
  OBVIOUS
<1>12. PICK w : w = PayLeft
  OBVIOUS
<1>13. /\ cs \in StreamRecs /\ cs.hdr = <<>> /\ HeadIs(cs, HeadAt(hd, q))
       /\ cs.fmt = Fmt(hd, q) /\ cs.first = hd[q.c][q.num].fmt
       /\ w \in Nat /\ m \in 0 .. w /\ cs.chunkRead \in Nat
       /\ cs.chunkRead + w = q.upto - q.from
       /\ k = PayFrom(hd, q) + cs.chunkRead
       /\ Kept(S, q.c, q.num, q.from + cs.chunkRead, r, cs)
       /\ cs.head.len = Len(S[q.c][q.num].body)
       /\ u \in Seq(Cells) /\ Len(u) = (q.from + cs.chunkRead) + m
       /\ Follows(u, S[q.c][q.num].body, 0)
  BY <1>7, <1>8, <1>9, <1>10, <1>11, <1>12 DEF AtPay
<1>14. m = w /\ ~(m < w) /\ PayStep(cs, u, m, w) /\ ~(cs.head.len <= Len(u))
  <2>1. ~(m < w) /\ PayStep(cs, u, m, w) /\ ~(cs.head.len <= Len(u))
    BY <1>9, <1>10, <1>11, <1>12
  <2>2. m \in 0 .. w /\ w \in Nat
    BY <1>13
  <2> QED
    BY <2>1, <2>2
<1>15. PICK ds : ds = WithPart(cs, u, 0)
  OBVIOUS
<1>16. /\ data' = Drop(data, m) /\ cks' = [cks EXCEPT ![current] = ds] /\ state' = "basic"
       /\ UNCHANGED <<readSize, received>>
  BY <1>14, <1>15 DEF PayStep
<1>17. /\ ds \in StreamRecs /\ ds.hdr = <<>> /\ ds.first = cs.first
       /\ ds.message = u /\ ds.chunkRead = 0 /\ ds.hasExt = cs.hasExt /\ ds.ts = cs.ts
       /\ ds.head = cs.head
  <2>1. cs \in StreamRecs /\ u \in Seq(Cells) /\ 0 \in Nat
    BY <1>13
  <2>2. /\ WithPart(cs, u, 0) \in StreamRecs
        /\ WithPart(cs, u, 0).hdr = cs.hdr /\ WithPart(cs, u, 0).fmt = cs.fmt
        /\ WithPart(cs, u, 0).first = cs.first
        /\ WithPart(cs, u, 0).message = u /\ WithPart(cs, u, 0).chunkRead = 0
        /\ WithPart(cs, u, 0).hasExt = cs.hasExt /\ WithPart(cs, u, 0).ts = cs.ts
        /\ WithPart(cs, u, 0).head = cs.head
    BY <2>1, WithPartIs
  <2> QED
    BY <1>13, <1>15, <2>2
<1>18. PICK x \in Nat : x = q.from
  BY <1>5 DEF At, PartAt, PartRecs
<1>19. PICK y \in Nat : y = q.upto /\ y >= x
  BY <1>5, <1>18 DEF At, PartAt, PartRecs, PartSizes
<1>20. PICK v \in Nat : v = cs.chunkRead
  BY <1>13
<1>21. v + w = y - x
  BY <1>13, <1>18, <1>19, <1>20
<1>22. Len(u) = y
  <2>1. x \in Nat /\ y \in Nat /\ v \in Nat /\ w \in Nat /\ v + w = y - x
    BY <1>13, <1>21
  <2>2. (x + v) + w = y
    BY <2>1, Filled
  <2> QED
    BY <1>13, <1>14, <1>18, <1>20, <2>2
<1>23. /\ q.num \in 1 .. Len(S[q.c]) /\ Len(S[q.c][q.num].body) \in Nat
       /\ y <= Len(S[q.c][q.num].body) /\ (y = 0 => Len(S[q.c][q.num].body) = 0)
  <2>1. /\ q \in PartRecs /\ s \in Places /\ (\A c \in AllCsids : PlaceFits(S, c, s[c]))
        /\ NextPart(S, q, s)
    BY <1>5 DEF At, PartAt
  <2> QED
    BY <1>6, <1>19, <2>1, NextIs
<1>24. PICK l \in Nat : l = Len(S[q.c][q.num].body) /\ y < l /\ l > 1
  <2>1. PICK l \in Nat : l = Len(S[q.c][q.num].body) /\ y <= l /\ (y = 0 => l = 0)
    BY <1>23
  <2>2. ~(l <= y)
    BY <1>13, <1>14, <1>22, <2>1
  <2>3. y \in Nat
    OBVIOUS
  <2>4. y < l /\ l > 1
    BY <2>1, <2>2, <2>3
  <2> QED
    BY <2>1, <2>4
<1>25. q.c # Ctrl
  <2> SUFFICES ASSUME q.c = Ctrl PROVE FALSE
    OBVIOUS
  <2>1. Ctrl \in AllCsids
    BY DEF AllCsids
  <2>2. Len(S[Ctrl][q.num].body) = 1
    BY <1>6, <1>23, <2>1 DEF Announced
  <2> QED
    BY <1>24, <2>2
<1>26. readSize' = SizeAfter(S, at[n + 1][Ctrl].num)
  <2>1. s \in Places /\ Ctrl \in AllCsids
    BY <1>5 DEF At, PartAt, AllCsids
  <2>2. at[n + 1][Ctrl] = s[Ctrl]
    BY <1>6, <1>25, <2>1 DEF After, Places
  <2> QED
    BY <1>5, <1>16, <2>2 DEF At
<1>27. Kept(S, q.c, q.num, y, r, ds)
  <2>1. \A j \in 1 .. y : u[j] = S[q.c][q.num].body[j]
    <3>1. \A j \in 1 .. y : u[j] = S[q.c][q.num].body[0 + j]
      BY <1>13, <1>22 DEF Follows
    <3>2. \A j \in 1 .. y : 0 + j = j
      BY <1>19
    <3> QED
      BY <3>1, <3>2
  <2>2. /\ Len(r) = q.num - 1 /\ \A i \in 1 .. (q.num - 1) : r[i] = S[q.c][i]
        /\ cs.ts = IF q.num = 1 THEN 0 ELSE S[q.c][q.num - 1].ts
    BY <1>13 DEF Kept
  <2>3. /\ ds.ts = (IF q.num = 1 THEN 0 ELSE S[q.c][q.num - 1].ts)
        /\ Len(ds.message) = y /\ \A j \in 1 .. y : ds.message[j] = S[q.c][q.num].body[j]
    BY <1>17, <1>22, <2>1, <2>2
  <2> QED
    BY <2>2, <2>3 DEF Kept
<1>28. PICK p : p = [num |-> q.num, upto |-> q.upto]
  OBVIOUS
<1>29. Rests(S, hd, q.c, p, r, ds)
  <2>1. p.num = q.num /\ p.upto = y
    BY <1>19, <1>28
  <2>2. ~Done(S, q.c, p)
    BY <1>23, <1>24, <2>1 DEF Done
  <2>3. HeadIs(ds, hd[q.c][p.num].head)
    BY <1>13, <1>17, <2>1 DEF HeadIs, HeadBut, HeadAt
  <2> QED
    BY <1>13, <1>17, <1>27, <2>1, <2>2, <2>3 DEF Rests
<1>30. Rests(S, hd, current, [num |-> Q[n + 1].num, upto |-> Q[n + 1].upto], received'[current], ds)
  BY <1>2, <1>7, <1>8, <1>16, <1>28, <1>29
<1>31. Ends(m, ds)
  BY <1>7, <1>11, <1>16 DEF Ends
<1>32. k + m = PartLen(hd, Q[n + 1])
  <2>1. PICK z \in Nat : z = PayFrom(hd, q)
    <3>1. PartSizes(hd, q)
      BY <1>5 DEF At, PartAt
    <3>2. PICK y1 \in Nat : y1 = HeadFrom(q)
      BY <3>1 DEF PartSizes, HeadFrom
    <3>3. PICK y2 \in Nat : y2 = HeadLen[Fmt(hd, q)]
      BY <3>1 DEF PartSizes
    <3>4. PICK y3 \in Nat : y3 = ELen(HeadAt(hd, q))
      BY <3>1 DEF PartSizes
    <3> QED
      BY <3>2, <3>3, <3>4 DEF ExtFrom, PayFrom
  <2>2. (z + v) + w = z + (v + w)
    <3>1. z \in Nat /\ v \in Nat /\ w \in Nat
      BY <1>13
    <3> QED
      BY <3>1, Assoc
  <2>3. PartLen(hd, q) = z + (v + w)
    BY <1>18, <1>19, <1>21, <2>1 DEF PartLen
  <2> QED
    BY <1>2, <1>13, <1>14, <1>20, <2>1, <2>2, <2>3
<1>33. state # "basic"
  OBVIOUS
<1>34. Sound(hd, A, Q, off, at, n + 1, 0)'
  BY <1>26, <1>30, <1>31, <1>32, <1>33, EndKeeps
<1>35. PICK i : i = n + 1
  OBVIOUS
<1>36. Sound(hd, A, Q, off, at, i, 0)'
  BY <1>34, <1>35
<1>37. Charged
  <2>1. PICK a \in Nat : a = Len(cks[current].message) /\ Len(ds.message) = a + m
    <3>1. Len(cs.message) = q.from + cs.chunkRead
      BY <1>13 DEF Kept
    <3>2. PICK a \in Nat : a = x + v
      OBVIOUS
    <3> QED
      BY <1>9, <1>13, <1>17, <1>18, <1>20, <3>1, <3>2
  <2>2. m \in Nat /\ w \in Nat /\ m <= w
    BY <1>13
  <2>3. buffered' = buffered + m /\ buffered + w <= MaxBuffered
    BY <1>14 DEF PayStep
  <2> QED
    BY <1>16, <1>17, <2>1, <2>2, <2>3, ChargeMore
<1> QED
  BY <1>36, <1>37

\* Payload that completes a message (Complete).
LEMMA PayDoneKeeps ==
    ASSUME ChunkAssumption, NEW S \in [AllCsids -> Seq(Msgs)], S = sent, Tame,
           NEW hd, NEW A, NEW Q, NEW off, NEW at, NEW n, NEW k, Sound(hd, A, Q, off, at, n, k),
           state = "payload", UNCHANGED <<writerVars, wire, headCache, current>>,
           PayStep(cks[current], PayBody, PayGot, PayLeft), ~(PayGot < PayLeft),
           cks[current].head.len <= Len(PayBody), received \in [AllCsids -> Seq(Msgs)],
           buffered \in Nat
    PROVE  /\ \E i, j : Sound(hd, A, Q, off, at, i, j)'
           /\ Charged /\ received' \in [AllCsids -> Seq(Msgs)]
<1>1. At(S, hd, A, off[n], Q[n + 1], at[n], k) /\ n < Len(Q)
  BY AtIs, DataHas
<1>2. PICK q : q = Q[n + 1]
  OBVIOUS
<1>3. PICK o : o = off[n]
  OBVIOUS
<1>4. PICK s : s = at[n]
  OBVIOUS
<1>5. At(S, hd, A, o, q, s, k)
  BY <1>1, <1>2, <1>3, <1>4
<1>6. Announced(S) /\ at[n + 1] = After(q, s)
  <2>1. History(S, hd, A, Q, off, at) /\ n \in 0 .. Len(Q)
    BY SoundIs
  <2> QED
    BY <1>1, <1>2, <1>4, <2>1, PlacesNext
<1>7. /\ AtPay(S, hd, o, q, k, received[current], cks[current], PayBody, PayGot, PayLeft)
      /\ current = q.c /\ current \in DOMAIN cks /\ PayGot \in 0 .. Len(data)
  BY <1>5, <1>6, PayAtIs
<1>8. PICK r : r = received[current]
  OBVIOUS
<1>9. PICK cs : cs = cks[current]
  OBVIOUS
<1>10. PICK u : u = PayBody
  OBVIOUS
<1>11. PICK m : m = PayGot
  OBVIOUS
<1>12. PICK w : w = PayLeft
  OBVIOUS
<1>13. /\ cs \in StreamRecs /\ cs.hdr = <<>> /\ HeadIs(cs, HeadAt(hd, q))
       /\ cs.fmt = Fmt(hd, q) /\ cs.first = hd[q.c][q.num].fmt
       /\ w \in Nat /\ m \in 0 .. w /\ cs.chunkRead \in Nat
       /\ cs.chunkRead + w = q.upto - q.from
       /\ k = PayFrom(hd, q) + cs.chunkRead
       /\ Kept(S, q.c, q.num, q.from + cs.chunkRead, r, cs)
       /\ cs.head.len = Len(S[q.c][q.num].body)
       /\ u \in Seq(Cells) /\ Len(u) = (q.from + cs.chunkRead) + m
       /\ Follows(u, S[q.c][q.num].body, 0)
  BY <1>7, <1>8, <1>9, <1>10, <1>11, <1>12 DEF AtPay
<1>14. m = w /\ ~(m < w) /\ PayStep(cs, u, m, w) /\ cs.head.len <= Len(u)
  <2>1. ~(m < w) /\ PayStep(cs, u, m, w) /\ cs.head.len <= Len(u)
    BY <1>9, <1>10, <1>11, <1>12
  <2>2. m \in 0 .. w /\ w \in Nat
    BY <1>13
  <2> QED
    BY <2>1, <2>2
<1>15. PICK g : g = Msg(cs.head.type, cs.head.stream, Stamp(cs), u)
  OBVIOUS
<1>16. PICK ds : ds = WithDone(cs)
  OBVIOUS
<1>17. /\ data' = Drop(data, m) /\ cks' = [cks EXCEPT ![current] = ds] /\ state' = "basic"
       /\ received' = [received EXCEPT ![current] = Append(@, g)]
       /\ readSize' = IF cs.head.type = SetSize THEN u[1].v ELSE readSize
  BY <1>14, <1>15, <1>16 DEF PayStep
<1>18. PICK x \in Nat : x = q.from
  BY <1>5 DEF At, PartAt, PartRecs
<1>19. PICK y \in Nat : y = q.upto /\ y >= x
  BY <1>5, <1>18 DEF At, PartAt, PartRecs, PartSizes
<1>20. PICK v \in Nat : v = cs.chunkRead
  BY <1>13
<1>21. v + w = y - x
  BY <1>13, <1>18, <1>19, <1>20
<1>22. Len(u) = y
  <2>1. x \in Nat /\ y \in Nat /\ v \in Nat /\ w \in Nat /\ v + w = y - x
    BY <1>13, <1>21
  <2>2. (x + v) + w = y
    BY <2>1, Filled
  <2> QED
    BY <1>13, <1>14, <1>18, <1>20, <2>2
<1>23. /\ q \in PartRecs /\ s \in Places /\ q.c \in AllCsids
       /\ PartAt(S, hd, A, o, q, s) /\ HeadFits(S, hd, q.c, q.num)
       /\ \A c \in AllCsids : PlaceFits(S, c, s[c])
       /\ NextPart(S, q, s)
  BY <1>5 DEF At, PartAt, PartRecs
<1>24. PICK l \in Nat : l = Len(S[q.c][q.num].body) /\ y <= l /\ q.num \in 1 .. Len(S[q.c])
  BY <1>6, <1>19, <1>23, NextIs
<1>25. y = l
  <2>1. l <= y
    BY <1>13, <1>14, <1>22, <1>24
  <2>2. l \in Nat /\ y \in Nat /\ y <= l
    BY <1>24
  <2> QED
    BY <2>1, <2>2
<1>26. /\ cs.ts = (IF q.num = 1 THEN 0 ELSE S[q.c][q.num - 1].ts)
       /\ Len(r) = q.num - 1 /\ \A i \in 1 .. (q.num - 1) : r[i] = S[q.c][i]
  BY <1>13 DEF Kept
<1>27. Stamp(cs) = S[q.c][q.num].ts /\ S[q.c][q.num] \in Msgs
  <2>1. Timed(S, hd, q, cs)
    BY <1>13, <1>26 DEF Timed
  <2>2. PartAt(S, hd, A, o, q, s)
    BY <1>23
  <2> QED
    BY <2>1, <2>2, StampIs
<1>28. g = S[q.c][q.num]
  <2>1. PICK M \in Msgs : M = S[q.c][q.num]
    BY <1>27
  <2>2. M = [type |-> M.type, stream |-> M.stream, ts |-> M.ts, body |-> M.body] /\ M.body \in Seq(Cells)
    BY DEF Msgs
  <2>3. cs.head.type = M.type /\ cs.head.stream = M.stream
    BY <1>13, <1>23, <2>1 DEF HeadFits, HeadIs, HeadBut, HeadAt
  <2>4. u = M.body
    <3>1. Len(u) = Len(M.body) /\ \A i \in 1 .. Len(u) : u[i] = M.body[0 + i]
      BY <1>13, <1>22, <1>24, <1>25, <2>1 DEF Follows
    <3>2. \A i \in 1 .. Len(u) : 0 + i = i
      BY <1>13
    <3>3. \A i \in 1 .. Len(u) : u[i] = M.body[i]
      BY <3>1, <3>2
    <3>4. u \in Seq(Cells) /\ M.body \in Seq(Cells)
      BY <1>13, <2>2
    <3> QED
      BY <3>1, <3>3, <3>4, SeqEqual
  <2> QED
    BY <1>15, <1>27, <2>1, <2>2, <2>3, <2>4 DEF Msg
<1>29. /\ ds \in StreamRecs /\ ds.hdr = <<>> /\ ds.message = <<>> /\ ds.chunkRead = 0
       /\ ds.hasExt = cs.hasExt /\ ds.ts = S[q.c][q.num].ts /\ ds.head = cs.head
  <2>1. cs \in StreamRecs
    BY <1>13
  <2>2. S[q.c][q.num].ts \in 0 .. (StampMod - 1)
    BY <1>27 DEF Msgs
  <2>3. Stamp(cs) \in 0 .. (StampMod - 1)
    BY <1>27, <2>2
  <2>4. /\ WithDone(cs) \in StreamRecs
        /\ WithDone(cs).hdr = cs.hdr /\ WithDone(cs).message = <<>> /\ WithDone(cs).chunkRead = 0
        /\ WithDone(cs).hasExt = cs.hasExt /\ WithDone(cs).ts = Stamp(cs)
        /\ WithDone(cs).head = cs.head
    BY <2>1, <2>3, WithDoneIs
  <2> QED
    BY <1>13, <1>16, <1>27, <2>4
<1>30. PICK rs \in Seq(Msgs) : rs = received[q.c] /\ rs = r
  BY <1>7, <1>8, <1>23
<1>31. received'[current] = Append(rs, g)
  BY <1>7, <1>17, <1>23, <1>30
<1>32. PICK N \in Nat : N = q.num /\ N > 0
  BY <1>23 DEF PartRecs
<1>33. PICK t : t = Append(rs, g)
  OBVIOUS
<1>34. Len(t) = N /\ \A i \in 1 .. N : t[i] = S[q.c][i]
  <2>1. g \in Msgs
    BY <1>27, <1>28
  <2>2. /\ Len(Append(rs, g)) = Len(rs) + 1 /\ Append(rs, g)[Len(rs) + 1] = g
        /\ \A i \in 1 .. Len(rs) : Append(rs, g)[i] = rs[i]
    BY <2>1
  <2>3. PICK e \in Nat : e = Len(rs) /\ e = N - 1
    BY <1>26, <1>30, <1>32
  <2>4. e + 1 = N
    BY <1>32, <2>3
  <2>5. \A i \in 1 .. e : rs[i] = S[q.c][i]
    BY <1>26, <1>30, <1>32, <2>3
  <2>6. \A i \in 1 .. N : i \in 1 .. e \/ i = N
    BY <2>3, <2>4
  <2> QED
    BY <1>28, <1>32, <1>33, <2>2, <2>3, <2>4, <2>5, <2>6
<1>35. Kept(S, q.c, N + 1, 0, t, ds)
  <2>1. (N + 1) - 1 = N /\ N + 1 # 1
    BY <1>32
  <2>2. Len(ds.message) = 0 /\ \A j \in 1 .. 0 : ds.message[j] = S[q.c][N + 1].body[j]
    BY <1>29
  <2>3. ds.ts = S[q.c][N].ts
    BY <1>29, <1>32
  <2> QED
    BY <1>34, <2>1, <2>2, <2>3 DEF Kept
<1>36. PICK p : p = [num |-> q.num, upto |-> q.upto]
  OBVIOUS
<1>37. Rests(S, hd, q.c, p, t, ds)
  <2>1. p.num = N /\ p.upto = y /\ p.num = q.num
    BY <1>19, <1>32, <1>36
  <2>2. Done(S, q.c, p)
    BY <1>24, <1>25, <2>1 DEF Done
  <2>3. HeadIs(ds, hd[q.c][p.num].head)
    BY <1>13, <1>29, <2>1 DEF HeadIs, HeadBut, HeadAt
  <2> QED
    BY <1>29, <1>35, <2>1, <2>2, <2>3 DEF Rests
<1>38. Rests(S, hd, current, [num |-> Q[n + 1].num, upto |-> Q[n + 1].upto], received'[current], ds)
  BY <1>2, <1>7, <1>31, <1>33, <1>36, <1>37
<1>39. cs.head.type = S[q.c][q.num].type
  BY <1>13, <1>23 DEF HeadFits, HeadIs, HeadBut, HeadAt
<1>40. readSize' = SizeAfter(S, at[n + 1][Ctrl].num)
  <2>0. Ctrl \in AllCsids
    BY DEF AllCsids
  <2>1. CASE q.c = Ctrl
    <3>1. /\ S[q.c][q.num].type = SetSize /\ Len(S[q.c][q.num].body) = 1
      BY <1>6, <1>24, <2>0, <2>1 DEF Announced
    <3>2. at[n + 1][Ctrl].num = N
      BY <1>6, <1>23, <1>32, <2>0, <2>1 DEF After, Places
    <3>3. u[1] = S[q.c][q.num].body[1]
      <4>1. Len(u) = 1
        BY <1>22, <1>24, <1>25, <3>1
      <4>2. \A i \in 1 .. 1 : u[i] = S[q.c][q.num].body[0 + i]
        BY <1>13, <4>1 DEF Follows
      <4>3. u[1] = S[q.c][q.num].body[0 + 1]
        BY <4>2
      <4> QED
        BY <4>3
    <3>4. SizeAfter(S, N) = S[Ctrl][N].body[1].v
      BY <1>32 DEF SizeAfter
    <3> QED
      BY <1>17, <1>32, <1>39, <2>1, <3>1, <3>2, <3>3, <3>4
  <2>2. CASE q.c # Ctrl
    <3>1. S[q.c][q.num].type # SetSize
      BY <1>6, <1>23, <1>24, <2>2 DEF Announced
    <3>2. at[n + 1][Ctrl] = s[Ctrl]
      BY <1>6, <1>23, <2>0, <2>2 DEF After, Places
    <3>3. readSize = SizeAfter(S, s[Ctrl].num)
      BY <1>5 DEF At
    <3> QED
      BY <1>17, <1>39, <3>1, <3>2, <3>3
  <2> QED
    BY <2>1, <2>2
<1>41. Ends(m, ds)
  <2>1. \A d \in AllCsids : d # current => received'[d] = received[d]
    BY <1>17
  <2> QED
    BY <1>7, <1>11, <1>17, <2>1 DEF Ends
<1>42. k + m = PartLen(hd, Q[n + 1])
  <2>1. PICK z \in Nat : z = PayFrom(hd, q)
    <3>1. PartSizes(hd, q)
      BY <1>5 DEF At, PartAt
    <3>2. PICK y1 \in Nat : y1 = HeadFrom(q)
      BY <3>1 DEF PartSizes, HeadFrom
    <3>3. PICK y2 \in Nat : y2 = HeadLen[Fmt(hd, q)]
      BY <3>1 DEF PartSizes
    <3>4. PICK y3 \in Nat : y3 = ELen(HeadAt(hd, q))
      BY <3>1 DEF PartSizes
    <3> QED
      BY <3>2, <3>3, <3>4 DEF ExtFrom, PayFrom
  <2>2. (z + v) + w = z + (v + w)
    <3>1. z \in Nat /\ v \in Nat /\ w \in Nat
      BY <1>13
    <3> QED
      BY <3>1, Assoc
  <2>3. PartLen(hd, q) = z + (v + w)
    BY <1>18, <1>19, <1>21, <2>1 DEF PartLen
  <2> QED
    BY <1>2, <1>13, <1>14, <1>20, <2>1, <2>2, <2>3
<1>43. state # "basic"
  OBVIOUS
<1>44. Sound(hd, A, Q, off, at, n + 1, 0)'
  BY <1>38, <1>40, <1>41, <1>42, <1>43, EndKeeps
<1>45. PICK i : i = n + 1
  OBVIOUS
<1>46. Sound(hd, A, Q, off, at, i, 0)'
  BY <1>44, <1>45
<1>47. Charged
  <2>1. PICK a \in Nat : a = Len(cs.message)
    <3>1. Len(cs.message) = q.from + cs.chunkRead
      BY <1>13 DEF Kept
    <3>2. PICK a \in Nat : a = x + v
      OBVIOUS
    <3> QED
      BY <1>18, <1>20, <3>1, <3>2
  <2>2. buffered' = CountDone(cs, u)
    BY <1>14 DEF PayStep
  <2>3. Len(u) \in Nat
    BY <1>22
  <2> QED
    BY <1>9, <1>17, <1>29, <2>1, <2>2, <2>3, ChargeDone
<1>48. received' \in [AllCsids -> Seq(Msgs)]
  <2>1. g \in Msgs /\ current \in AllCsids
    BY <1>7, <1>23, <1>27, <1>28
  <2>2. Append(received[current], g) \in Seq(Msgs)
    BY <2>1
  <2> QED
    BY <1>17, <2>1, <2>2
<1> QED
  BY <1>46, <1>47, <1>48

\* Payload is read (ReadPayload).
LEMMA PayloadKeeps ==
    ASSUME ChunkAssumption, NEW S \in [AllCsids -> Seq(Msgs)], S = sent, Tame,
           received \in [AllCsids -> Seq(Msgs)], buffered \in Nat,
           NEW hd, NEW A, NEW Q, NEW off, NEW at, NEW n, NEW k, Sound(hd, A, Q, off, at, n, k),
           ReadPayload, failure' = "none"
    PROVE  /\ \E i, j : Sound(hd, A, Q, off, at, i, j)'
           /\ Charged /\ received' \in [AllCsids -> Seq(Msgs)] /\ current \in DOMAIN cks
<1>1. state = "payload"
  BY DEF ReadPayload
<1>2. At(S, hd, A, off[n], Q[n + 1], at[n], k)
  BY <1>1, AtIs
<1>3. Announced(S)
  <2>1. History(S, hd, A, Q, off, at)
    BY SoundIs
  <2> QED
    BY <2>1 DEF History
<1>4. /\ AtPay(S, hd, off[n], Q[n + 1], k, received[current], cks[current], PayBody, PayGot, PayLeft)
      /\ current \in DOMAIN cks
  BY <1>1, <1>2, <1>3, PayAtIs
<1>5. PayLeft \in Nat
  BY <1>4 DEF AtPay
<1>6. UNCHANGED <<writerVars, wire, headCache, current>> /\ PayStep(cks[current], PayBody, PayGot, PayLeft)
  <2>1. PICK cs : cs = cks[current]
    OBVIOUS
  <2>2. PICK w : w = PayLeft
    OBVIOUS
  <2>3. w = Need(cs) - cs.chunkRead /\ w \in Int
    BY <1>5, <2>1, <2>2 DEF PayLeft
  <2>4. cks \in [DOMAIN cks -> StreamRecs] /\ MaxBuffered \in Nat
    BY DEF Tame, ChunkAssumption
  <2>5. /\ UNCHANGED <<writerVars, wire, headCache, current>>
        /\ PayStep(cs, cs.message \o Take(data, Cut(w, Len(data))), Cut(w, Len(data)), w)
    BY <1>4, <2>1, <2>3, <2>4, PayStepIs
  <2> QED
    BY <2>1, <2>2, <2>5 DEF PayBody, PayGot
<1>7. CASE PayGot < PayLeft
  <2>1. (\E j : Sound(hd, A, Q, off, at, n, j)') /\ Charged
    BY <1>1, <1>6, <1>7, PayMoreKeeps
  <2>2. received' = received
    BY <1>6, <1>7 DEF PayStep
  <2> QED
    BY <1>4, <2>1, <2>2
<1>8. CASE ~(PayGot < PayLeft) /\ ~(cks[current].head.len <= Len(PayBody))
  <2>1. (\E i, j : Sound(hd, A, Q, off, at, i, j)') /\ Charged
    BY <1>1, <1>6, <1>8, PayPartKeeps
  <2>2. received' = received
    BY <1>6, <1>8 DEF PayStep
  <2> QED
    BY <1>4, <2>1, <2>2
<1>9. CASE ~(PayGot < PayLeft) /\ cks[current].head.len <= Len(PayBody)
  <2>1. /\ \E i, j : Sound(hd, A, Q, off, at, i, j)'
        /\ Charged /\ received' \in [AllCsids -> Seq(Msgs)]
    BY <1>1, <1>6, <1>9, PayDoneKeeps
  <2> QED
    BY <1>4, <2>1
<1> QED
  BY <1>7, <1>8, <1>9

-------------------------------------------------------------------------------
(* What the reader keeps.                                                    *)

\* A basic header makes no chunk stream too many known, and keeps no payload (ReadBasicHead).
LEMMA OpensKeeps ==
    ASSUME ChunkAssumption, Tame, IsFiniteSet(DOMAIN cks), Cardinality(DOMAIN cks) <= MaxStreams, Opens
    PROVE  /\ Tame' /\ Held' = Held
           /\ IsFiniteSet(DOMAIN cks') /\ Cardinality(DOMAIN cks') <= MaxStreams
<1>1. CASE cks' = cks
  BY <1>1 DEF Tame, Held
<1>2. CASE \E c \in AllCsids, f \in 0 .. 3 :
              /\ Room(c)
              /\ cks' = [d \in DOMAIN cks \cup {c} |-> IF d = c THEN Headed(f, BasicKnown(c)) ELSE cks[d]]
  <2>1. PICK c \in AllCsids, f \in 0 .. 3 :
              /\ Room(c)
              /\ cks' = [d \in DOMAIN cks \cup {c} |-> IF d = c THEN Headed(f, BasicKnown(c)) ELSE cks[d]]
    BY <1>2
  <2>2. PICK cs \in StreamRecs : cs = BasicKnown(c)
    BY NewIs DEF BasicKnown, Tame
  <2>3. PICK h \in StreamRecs : h = Headed(f, cs) /\ h.message = cs.message
    BY HeadedIs
  <2>4. PICK D : D = DOMAIN cks
    OBVIOUS
  <2>5. /\ DOMAIN cks' = D \cup {c} /\ cks'[c] = h
        /\ \A d \in D : d # c => cks'[d] = cks[d]
        /\ cks' \in [D \cup {c} -> StreamRecs]
    BY <2>1, <2>2, <2>3, <2>4 DEF Tame
  <2>6. Tame'
    BY <2>4, <2>5 DEF Tame
  <2>7. IsFiniteSet(D \cup {c}) /\ Cardinality(D \cup {c}) = IF c \in D THEN Cardinality(D) ELSE Cardinality(D) + 1
    BY <2>4, FS_AddElement
  <2>8. Cardinality(D \cup {c}) <= MaxStreams
    <3>1. PICK x \in Nat : x = Cardinality(D)
      BY <2>4, FS_CardinalityType
    <3>2. PICK y \in Nat : y = MaxStreams
      BY DEF ChunkAssumption
    <3>3. CASE c \in D
      BY <2>4, <2>7, <3>3
    <3>4. CASE c \notin D
      <4>1. ~(x >= y)
        BY <2>1, <2>4, <3>1, <3>2, <3>4 DEF Room
      <4>2. x + 1 <= y
        BY <4>1
      <4> QED
        BY <2>7, <3>1, <3>2, <3>4, <4>2
    <3> QED
      BY <3>3, <3>4
  <2>9. Held' = Held
    <3>1. CASE c \in D
      <4>1. \A d \in D : cks'[d].message = cks[d].message
        BY <2>2, <2>3, <2>4, <2>5, <3>1 DEF BasicKnown
      <4>2. DOMAIN cks' = D
        BY <2>5, <3>1
      <4> QED
        BY <2>4, <4>1, <4>2 DEF Held
    <3>2. CASE c \notin D
      <4>1. cks'[c].message = <<>>
        BY <2>2, <2>3, <2>4, <2>5, <3>2 DEF BasicKnown, NewStream
      <4>2. \A d \in D : cks'[d].message = cks[d].message
        BY <2>5, <3>2
      <4>3. {c} \X (1 .. Len(cks'[c].message)) = {}
        BY <4>1
      <4> QED
        BY <2>4, <2>5, <4>2, <4>3 DEF Held
    <3> QED
      BY <3>1, <3>2
  <2> QED
    BY <2>4, <2>5, <2>6, <2>7, <2>8, <2>9
<1> QED
  BY <1>1, <1>2 DEF Opens

\* The cells of one message.
LEMMA CellsOf ==
    ASSUME NEW c, NEW l \in Nat
    PROVE  IsFiniteSet({c} \X (1 .. l)) /\ Cardinality({c} \X (1 .. l)) = l
<1>1. IsFiniteSet(1 .. l) /\ Cardinality(1 .. l) = l
  <2>1. /\ IsFiniteSet(1 .. l) /\ Cardinality(1 .. l) = IF 1 > l THEN 0 ELSE l - 1 + 1
    BY FS_Interval
  <2> QED
    BY <2>1
<1>2. IsFiniteSet({c}) /\ Cardinality({c}) = 1
  BY FS_Singleton
<1>3. IsFiniteSet({c} \X (1 .. l)) /\ Cardinality({c} \X (1 .. l)) = Cardinality({c}) * Cardinality(1 .. l)
  BY <1>1, <1>2, FS_Product
<1> QED
  BY <1>1, <1>2, <1>3

\* The payload that is kept, but for that of one chunk stream.
Others(c) == UNION {{d} \X (1 .. Len(cks[d].message)) : d \in DOMAIN cks \ {c}}

\* The count stays that of what is kept (ReadPayload).
LEMMA ChargedKeeps ==
    ASSUME ChunkAssumption, Tame, current \in DOMAIN cks, Charged, buffered \in Nat,
           IsFiniteSet(Held), Cardinality(Held) <= MaxBuffered, buffered = Cardinality(Held)
    PROVE  /\ Tame' /\ DOMAIN cks' = DOMAIN cks
           /\ IsFiniteSet(Held') /\ Cardinality(Held') <= MaxBuffered /\ buffered' = Cardinality(Held')
           /\ buffered' \in Nat
<1>1. PICK ds \in StreamRecs, a \in Nat, b \in Nat :
        /\ cks' = [cks EXCEPT ![current] = ds]
        /\ a = Len(cks[current].message) /\ b = Len(ds.message)
        /\ buffered' \in Int /\ buffered' + a = buffered + b
        /\ b = 0 \/ buffered' <= MaxBuffered
  BY DEF Charged
<1>2. PICK c : c = current
  OBVIOUS
<1>3. /\ DOMAIN cks' = DOMAIN cks /\ cks'[c] = ds /\ c \in DOMAIN cks
      /\ \A d \in DOMAIN cks : d # c => cks'[d] = cks[d]
      /\ cks' \in [DOMAIN cks -> StreamRecs]
  BY <1>1, <1>2 DEF Tame
<1>4. Tame'
  BY <1>3 DEF Tame
<1>5. PICK R : R = Others(c)
  OBVIOUS
<1>6. Held = R \cup ({c} \X (1 .. a))
  BY <1>1, <1>2, <1>3, <1>5 DEF Held, Others
<1>7. Held' = R \cup ({c} \X (1 .. b))
  <2>1. R = UNION {{d} \X (1 .. Len(cks'[d].message)) : d \in DOMAIN cks \ {c}}
    BY <1>3, <1>5 DEF Others
  <2> QED
    BY <1>1, <1>3, <2>1 DEF Held
<1>8. \A l \in Nat : R \cap ({c} \X (1 .. l)) = {}
  BY <1>5 DEF Others
<1>9. IsFiniteSet(R)
  <2>1. R \in SUBSET Held
    BY <1>6
  <2> QED
    BY <2>1, FS_Subset
<1>10. PICK x \in Nat : x = Cardinality(R)
  BY <1>9, FS_CardinalityType
<1>11. \A l \in Nat : IsFiniteSet(R \cup ({c} \X (1 .. l))) /\ Cardinality(R \cup ({c} \X (1 .. l))) = x + l
  <2> TAKE l \in Nat
  <2>1. IsFiniteSet({c} \X (1 .. l)) /\ Cardinality({c} \X (1 .. l)) = l
    BY CellsOf
  <2>2. PICK X : X = {c} \X (1 .. l)
    OBVIOUS
  <2>3. /\ IsFiniteSet(R \cup X)
        /\ Cardinality(R \cup X) = Cardinality(R) + Cardinality(X) - Cardinality(R \cap X)
    BY <1>9, <2>1, <2>2, FS_Union
  <2>4. Cardinality(R \cap X) = 0
    BY <1>8, <2>2, FS_EmptySet
  <2> QED
    BY <1>10, <2>1, <2>2, <2>3, <2>4
<1>12. Cardinality(Held) = x + a /\ IsFiniteSet(Held') /\ Cardinality(Held') = x + b
  BY <1>6, <1>7, <1>11
<1>13. buffered' = x + b
  <2>1. PICK y \in Int : y = buffered'
    BY <1>1
  <2>2. y + a = (x + a) + b
    BY <1>1, <1>12, <2>1
  <2>3. y = x + b
    BY <2>2
  <2> QED
    BY <2>1, <2>3
<1>14. x + b <= MaxBuffered
  <2>1. CASE b = 0
    <3>1. MaxBuffered \in Nat
      BY DEF ChunkAssumption
    <3>2. x + a <= MaxBuffered
      BY <1>12
    <3> QED
      BY <2>1, <3>1, <3>2
  <2>2. CASE b # 0
    BY <1>1, <1>13, <2>2
  <2> QED
    BY <2>1, <2>2
<1> QED
  BY <1>3, <1>4, <1>12, <1>13, <1>14

-------------------------------------------------------------------------------
(* What the invariant shows.                                                 *)

Keeps(S, c, r, cs) ==
    Prefix(r, S[c]) /\ Len(cs.hdr) < 4 /\ Len(cs.message) <= cs.head.len

\* A chunk stream at rest has the first messages, and no more of the next than it is long.
LEMMA RestsShows ==
    ASSUME ChunkAssumption, NEW S \in [AllCsids -> Seq(Msgs)], NEW hd, HeadsFit(S, hd),
           NEW c \in AllCsids, NEW p \in Place, p.num # 0, PlaceFits(S, c, p),
           NEW r, NEW cs \in StreamRecs, Rests(S, hd, c, p, r, cs)
    PROVE  Keeps(S, c, r, cs)
<1>1. PICK N \in Nat : N = p.num /\ N > 0
  BY DEF Place
<1>2. PICK L \in Nat : L = Len(S[c]) /\ N <= L
  BY <1>1 DEF PlaceFits
<1>3. N \in 1 .. Len(S[c])
  BY <1>1, <1>2
<1>4. HeadFits(S, hd, c, N)
  BY <1>3 DEF HeadsFit
<1>5. cs.head.len = Len(S[c][N].body)
  BY <1>1, <1>4 DEF HeadFits, Rests, HeadIs, HeadBut
<1>6. Len(cs.hdr) < 4 /\ cs.head.len \in Nat
  <2>1. cs.hdr = <<>>
    BY DEF Rests
  <2> QED
    BY <2>1 DEF StreamRecs, Heads
<1>7. CASE Done(S, c, p)
  <2>1. /\ Len(r) = (N + 1) - 1 /\ \A i \in 1 .. ((N + 1) - 1) : r[i] = S[c][i]
        /\ Len(cs.message) = 0
    BY <1>1, <1>7 DEF Rests, Kept
  <2>2. (N + 1) - 1 = N
    OBVIOUS
  <2>3. Len(r) = N /\ \A i \in 1 .. N : r[i] = S[c][i]
    BY <2>1, <2>2
  <2>4. Prefix(r, S[c])
    BY <1>2, <2>3 DEF Prefix
  <2>5. Len(cs.message) <= cs.head.len
    BY <1>6, <2>1
  <2> QED
    BY <1>6, <2>4, <2>5 DEF Keeps
<1>8. CASE ~Done(S, c, p)
  <2>1. /\ Len(r) = N - 1 /\ \A i \in 1 .. (N - 1) : r[i] = S[c][i]
        /\ Len(cs.message) = p.upto
    BY <1>1, <1>8 DEF Rests, Kept
  <2>2. p.upto <= Len(S[c][N].body)
    BY <1>1 DEF PlaceFits
  <2>3. Prefix(r, S[c])
    <3>1. N - 1 <= L
      BY <1>1, <1>2
    <3> QED
      BY <1>2, <2>1, <3>1 DEF Prefix
  <2>4. Len(cs.message) <= cs.head.len
    BY <1>5, <2>1, <2>2
  <2> QED
    BY <1>6, <2>3, <2>4 DEF Keeps
<1> QED
  BY <1>7, <1>8

\* So has the one that is being read.
LEMMA WithinShows ==
    ASSUME ChunkAssumption, NEW S \in [AllCsids -> Seq(Msgs)], Announced(S),
           NEW hd, NEW A, NEW o, NEW q, NEW s, PartAt(S, hd, A, o, q, s),
           NEW k, NEW st, NEW r, NEW cs \in StreamRecs, Within(S, hd, A, o, q, k, st, r, cs)
    PROVE  Keeps(S, q.c, r, cs) /\ st \in {"head", "ext", "payload"}
<1>1. /\ q \in PartRecs /\ s \in Places /\ (\A c \in AllCsids : PlaceFits(S, c, s[c])) /\ NextPart(S, q, s)
      /\ HeadFits(S, hd, q.c, q.num) /\ PartSizes(hd, q)
  BY DEF PartAt
<1>2. PICK N \in Nat : N = q.num /\ N > 0
  BY <1>1 DEF PartRecs
<1>3. PICK x \in Nat : x = q.from
  BY <1>1 DEF PartRecs
<1>4. PICK y \in Nat : y = q.upto
  BY <1>1 DEF PartRecs
<1>5. PICK l \in Nat : l = Len(S[q.c][N].body) /\ x <= y /\ y <= l
  BY <1>1, <1>2, <1>3, <1>4, NextIs
<1>6. PICK L \in Nat : L = Len(S[q.c]) /\ N <= L
  <2>1. q.c \in AllCsids
    BY <1>1 DEF PartRecs
  <2> QED
    BY <1>1, <1>2, <2>1 DEF NextPart
<1>7. PICK v \in Nat : v = cs.chunkRead
  BY DEF StreamRecs
<1>8. /\ Len(r) = N - 1 /\ \A i \in 1 .. (N - 1) : r[i] = S[q.c][i]
      /\ Len(cs.message) = x + v
  BY <1>2, <1>3, <1>7 DEF Within, Kept
<1>9. Prefix(r, S[q.c])
  <2>1. N - 1 <= L
    BY <1>2, <1>6
  <2> QED
    BY <1>6, <1>8, <2>1 DEF Prefix
<1>10. HeadBut(cs, HeadAt(hd, q)) => cs.head.len = l
  BY <1>1, <1>2, <1>5 DEF HeadBut, HeadFits, HeadAt
<1>11. cs.head.len \in Nat
  BY DEF StreamRecs, Heads
<1>12. CASE st = "head" /\ AtHead(hd, A, o, q, k, cs)
  <2>1. cs.fmt # 3 /\ v = 0 /\ Len(cs.hdr) < HeadLen[cs.fmt]
    BY <1>7, <1>12 DEF AtHead
  <2>2. x = 0
    <3>1. Fmt(hd, q) # 3
      BY <2>1 DEF Within
    <3> QED
      BY <1>3, <3>1 DEF Fmt
  <2>3. PICK z \in Nat : z = Len(cs.hdr)
    BY DEF StreamRecs
  <2>4. PICK e \in 0 .. 4 : e = HeadLen[cs.fmt]
    BY HeadLenIs DEF StreamRecs
  <2>5. z < 4
    BY <2>1, <2>3, <2>4
  <2>6. Len(cs.message) <= cs.head.len
    BY <1>8, <1>11, <2>1, <2>2
  <2> QED
    BY <1>9, <1>12, <2>3, <2>5, <2>6 DEF Keeps
<1>13. CASE st = "ext" /\ AtExt(hd, A, o, q, k, cs)
  <2>1. v = 0 /\ Len(cs.hdr) < 2 /\ cs.head.len = l
    BY <1>7, <1>10, <1>13 DEF AtExt
  <2>2. PICK z \in Nat : z = Len(cs.hdr)
    BY DEF StreamRecs
  <2>3. z < 4
    BY <2>1, <2>2
  <2>4. x + v <= l
    BY <1>5, <2>1
  <2> QED
    BY <1>8, <1>9, <1>13, <2>1, <2>2, <2>3, <2>4 DEF Keeps
<1>14. CASE st = "payload" /\ AtPayload(hd, q, k, cs)
  <2>1. cs.hdr = <<>> /\ cs.head.len = l
    BY <1>10, <1>14 DEF AtPayload, HeadIs
  <2>2. v < y - x \/ (v = 0 /\ y = x)
    BY <1>3, <1>4, <1>7, <1>14 DEF AtPayload
  <2>3. x + v <= l
    BY <1>5, <2>2
  <2>4. Len(cs.hdr) < 4
    BY <2>1
  <2> QED
    BY <1>8, <1>9, <1>14, <2>1, <2>3, <2>4 DEF Keeps
<1> QED
  BY <1>12, <1>13, <1>14 DEF Within

\* What the invariant shows of the reader, and what stays so when it has failed.
Shown ==
    /\ \A c \in AllCsids : Prefix(received[c], sent[c])
    /\ state \in {"basic", "head", "ext", "payload"}
    /\ readSize \in Sizes \cup {FixSize}
    /\ \A c \in DOMAIN cks : Len(cks[c].hdr) < 4 /\ Len(cks[c].message) <= cks[c].head.len

LEMMA SoundShows ==
    ASSUME ChunkAssumption, NEW S \in [AllCsids -> Seq(Msgs)], S = sent, Tame,
           NEW hd, NEW A, NEW Q, NEW off, NEW at, NEW n, NEW k, Sound(hd, A, Q, off, at, n, k)
    PROVE  Shown /\ Len(headCache) < 2
<1>1. /\ History(S, hd, A, Q, off, at) /\ Reader(S, hd, A, Q, off, at, n, k)
      /\ Q \in Seq(PartRecs) /\ at \in [0 .. Len(Q) -> Places] /\ n \in 0 .. Len(Q) /\ k \in Nat
      /\ Len(Q) \in Nat
  BY SoundIs
<1>2. PICK s \in Places : s = at[n]
  BY <1>1
<1>3. /\ Announced(S) /\ HeadsFit(S, hd) /\ \A c \in AllCsids : PlaceFits(S, c, s[c])
  BY <1>1, <1>2 DEF History, PartsFit
<1>4. readSize \in Sizes \cup {FixSize}
  <2>1. readSize = SizeAfter(S, s[Ctrl].num)
    BY <1>1, <1>2 DEF Reader
  <2>2. Ctrl \in AllCsids
    BY DEF AllCsids
  <2>3. PICK i \in Nat : i = s[Ctrl].num
    BY <2>2 DEF Places
  <2>4. i <= Len(S[Ctrl]) /\ Len(S[Ctrl]) \in Nat
    BY <1>3, <2>2, <2>3 DEF PlaceFits
  <2>5. SizeAfter(S, i) \in Sizes \cup {FixSize}
    BY <1>3, <2>4, SizeIs
  <2> QED
    BY <2>1, <2>3, <2>5
<1>5. ASSUME NEW c \in AllCsids, Settled(S, hd, c, s[c])
      PROVE  /\ Prefix(received[c], S[c])
             /\ c \in DOMAIN cks => Keeps(S, c, received[c], cks[c])
  <2>1. CASE s[c].num = 0
    <3>1. c \notin DOMAIN cks /\ received[c] = <<>>
      BY <1>5, <2>1 DEF Settled
    <3>2. Len(S[c]) \in Nat
      OBVIOUS
    <3> QED
      BY <3>1, <3>2 DEF Prefix
  <2>2. CASE s[c].num # 0
    <3>1. c \in DOMAIN cks /\ Rests(S, hd, c, s[c], received[c], cks[c])
      BY <1>5, <2>2 DEF Settled
    <3>2. PICK cs \in StreamRecs : cs = cks[c]
      BY <3>1 DEF Tame
    <3>3. PICK p \in Place : p = s[c]
      BY DEF Places, Place
    <3>4. PICK r : r = received[c]
      OBVIOUS
    <3>5. Rests(S, hd, c, p, r, cs) /\ p.num # 0 /\ PlaceFits(S, c, p)
      BY <1>3, <2>2, <3>1, <3>2, <3>3, <3>4
    <3>6. Keeps(S, c, r, cs)
      BY <1>3, <3>5, RestsShows
    <3> QED
      BY <3>2, <3>4, <3>6 DEF Keeps
  <2> QED
    BY <2>1, <2>2
<1>6. ASSUME state # "basic"
      PROVE  /\ current \in AllCsids /\ current \in DOMAIN cks
             /\ Keeps(S, current, received[current], cks[current])
             /\ state \in {"head", "ext", "payload"}
  <2>1. At(S, hd, A, off[n], Q[n + 1], at[n], k)
    BY <1>6, AtIs
  <2>2. PICK q : q = Q[n + 1]
    OBVIOUS
  <2>3. PICK o : o = off[n]
    OBVIOUS
  <2>4. /\ PartAt(S, hd, A, o, q, s) /\ current = q.c /\ q.c \in DOMAIN cks /\ q.c \in AllCsids
        /\ Within(S, hd, A, o, q, k, state, received[q.c], cks[q.c])
    BY <1>2, <1>6, <2>1, <2>2, <2>3 DEF At
  <2>5. PICK cs \in StreamRecs : cs = cks[q.c]
    BY <2>4 DEF Tame
  <2>6. PICK r : r = received[q.c]
    OBVIOUS
  <2>7. PICK st : st = state
    OBVIOUS
  <2>8. PartAt(S, hd, A, o, q, s) /\ Within(S, hd, A, o, q, k, st, r, cs)
    BY <2>4, <2>5, <2>6, <2>7
  <2>9. Keeps(S, q.c, r, cs) /\ st \in {"head", "ext", "payload"}
    BY <1>3, <2>8, WithinShows
  <2> QED
    BY <2>4, <2>5, <2>6, <2>7, <2>9
<1>7. ASSUME NEW c \in AllCsids
      PROVE  /\ Prefix(received[c], S[c])
             /\ c \in DOMAIN cks => Keeps(S, c, received[c], cks[c])
  <2>1. CASE state = "basic" \/ c # current
    <3>1. Settled(S, hd, c, s[c])
      BY <1>1, <1>2, <2>1 DEF Reader
    <3> QED
      BY <1>5, <3>1
  <2>2. CASE state # "basic" /\ c = current
    BY <1>6, <2>2 DEF Keeps
  <2> QED
    BY <2>1, <2>2
<1>8. Len(headCache) < 2
  <2>1. CASE state = "basic"
    <3>1. Len(headCache) = k /\ (IF n = Len(Q) THEN k = 0 ELSE k < BLen(Q[n + 1].c))
      BY <1>1, <2>1 DEF Reader
    <3>2. k < 2
      BY <1>1, <3>1 DEF BLen
    <3> QED
      BY <3>1, <3>2
  <2>2. CASE state # "basic"
    BY <1>1, <2>2 DEF Reader
  <2> QED
    BY <2>1, <2>2
<1>9. \A c \in DOMAIN cks : c \in AllCsids
  BY DEF Tame
<1> QED
  BY <1>4, <1>6, <1>7, <1>8, <1>9 DEF Shown, Keeps

-------------------------------------------------------------------------------
(* The invariant is inductive.                                               *)

\* Writers and histories, whether the reader has failed or not.
Typed ==
    /\ peer \in Peers /\ failure \in {"none", "streams", "length"}
    /\ sent \in [AllCsids -> Seq(Msgs)] /\ received \in [AllCsids -> Seq(Msgs)]
    /\ Tame

\* What the limits are compared with is what is kept.
Counted ==
    /\ IsFiniteSet(DOMAIN cks) /\ Cardinality(DOMAIN cks) <= MaxStreams
    /\ IsFiniteSet(Held) /\ Cardinality(Held) <= MaxBuffered /\ buffered \in Nat
    /\ failure = "none" => buffered = Cardinality(Held)

\* The reader is at a definite place of what was written, until it fails.
IInv ==
    /\ Typed /\ Counted
    /\ failure = "none" => \E hd, A, Q, off, at, n, k : Sound(hd, A, Q, off, at, n, k)
    /\ failure # "none" => Shown

LEMMA InitSound ==
    ASSUME ChunkAssumption, Init
    PROVE  \E hd, A, Q, off, at, n, k : Sound(hd, A, Q, off, at, n, k)
<1> DEFINE S  == [c \in AllCsids |-> <<>>]
           s  == [c \in AllCsids |-> [num |-> 0, upto |-> 0]]
           Q  == <<>>
           at == [i \in 0 .. 0 |-> s]
           off == [i \in 0 .. 0 |-> 0]
<1>1. Ctrl \in AllCsids /\ FixSize \in Nat \ {0}
  BY DEF AllCsids, ChunkAssumption
<1>2. S \in [AllCsids -> Seq(Msgs)] /\ S \in [AllCsids -> Seq([fmt : 0 .. 3, head : Heads])]
      /\ \A c \in AllCsids : S[c] = <<>> /\ Len(S[c]) = 0
  OBVIOUS
<1>3. s \in Places /\ \A c \in AllCsids : s[c].num = 0
  BY DEF Places
<1> HIDE DEF S, s
<1>4. Announced(S)
  BY <1>2 DEF Announced
<1>5. HeadsFit(S, S)
  BY <1>2 DEF HeadsFit
<1>6. Q \in Seq(PartRecs) /\ Len(Q) = 0 /\ at[0] = s /\ off[0] = 0
      /\ at \in [0 .. Len(Q) -> Places] /\ off \in [0 .. Len(Q) -> Nat]
      /\ 0 .. Len(Q) = {0} /\ 1 .. Len(Q) = {}
  BY <1>3
<1> HIDE DEF at, off, Q
<1>7. \A c \in AllCsids : PlaceFits(S, c, s[c])
  BY <1>2, <1>3 DEF PlaceFits
<1>8. PartsFit(S, Q, at)
  BY <1>3, <1>6, <1>7 DEF PartsFit
<1>9. CellsFit(S, S, <<>>, Q, off)
  <2>1. <<>> \in Seq(Cells) /\ Len(<<>>) = 0
    OBVIOUS
  <2> QED
    BY <1>6, <2>1 DEF CellsFit
<1>10. sent = S /\ received = S
  BY DEF Init, S
<1>11. SizeAfter(S, 0) = FixSize
  BY DEF SizeAfter
<1>12. WritersFit(S, S, s)
  <2>1. [head |-> None, ts |-> 0, size |-> FixSize] \in WriterRecs
    BY <1>1 DEF WriterRecs
  <2>2. writers = [c \in AllCsids |-> [head |-> None, ts |-> 0, size |-> FixSize]]
    BY DEF Init
  <2>3. writers \in [AllCsids -> WriterRecs]
    BY <2>1, <2>2
  <2>4. ASSUME NEW c \in AllCsids PROVE WriterFits(S, S, c, writers[c])
    <3>1. writers[c] \in WriterRecs /\ writers[c].head = None /\ writers[c].size = FixSize
      BY <2>2, <2>3
    <3> QED
      BY <1>1, <1>2, <1>11, <3>1 DEF WriterFits
  <2>5. queued = [c \in AllCsids |-> <<>>]
    BY DEF Init
  <2>6. <<>> \in Seq(Seq(Cells))
    OBVIOUS
  <2>7. queued \in [AllCsids -> Seq(Seq(Cells))] /\ \A c \in AllCsids : queued[c] = <<>>
    BY <2>5, <2>6
  <2>8. ASSUME NEW c \in AllCsids PROVE QueueFits(S, S, c, s[c], queued[c])
    BY <1>2, <1>3, <2>7 DEF QueueFits, Done
  <2> QED
    BY <1>1, <2>3, <2>4, <2>7, <2>8 DEF WritersFit
<1>13. Reader(S, S, <<>>, Q, off, at, 0, 0)
  <2>1. headCache = <<>> /\ state = "basic" /\ readSize = FixSize /\ DOMAIN cks = {}
    BY DEF Init
  <2>2. headCache \in Seq(Cells) /\ Len(headCache) = 0
    BY <2>1
  <2>3. \A c \in AllCsids : Settled(S, S, c, s[c])
    BY <1>2, <1>3, <1>10, <2>1 DEF Settled
  <2>4. 0 \in 0 .. Len(Q) /\ 0 \in Nat /\ \A j \in 1 .. 0 : headCache[j] = <<>>[off[0] + j]
    BY <1>6
  <2> QED
    BY <1>1, <1>3, <1>6, <1>11, <2>1, <2>2, <2>3, <2>4 DEF Reader
<1>14. Supply(<<>>, off[0] + 0)
  <2>1. data = <<>> /\ wire = <<>>
    BY DEF Init
  <2>2. data \in Seq(Cells) /\ wire \in Seq(Cells) /\ Len(data) = 0 /\ Len(wire) = 0
    BY <2>1
  <2>3. off[0] + 0 = 0 /\ Len(<<>>) = 0
    BY <1>6
  <2>4. Len(<<>>) = off[0] + 0 + Len(data) + Len(wire)
    BY <2>2, <2>3
  <2> QED
    BY <2>2, <2>4 DEF Supply
<1>15. History(sent, S, <<>>, Q, off, at)
  BY <1>4, <1>5, <1>8, <1>9, <1>10 DEF History
<1>16. Sound(S, <<>>, Q, off, at, 0, 0)
  BY <1>6, <1>10, <1>12, <1>13, <1>14, <1>15 DEF Sound
<1> QED
  BY <1>16

LEMMA InitIs ==
    ASSUME ChunkAssumption, Init
    PROVE  IInv
<1>1. failure = "none" /\ peer \in Peers /\ buffered = 0
  BY DEF Init
<1>2. DOMAIN cks = {} /\ cks = [c \in {} |-> NewStream]
  BY DEF Init
<1>3. Held = {}
  BY <1>2 DEF Held
<1>4. Tame
  BY <1>2 DEF Tame
<1>5. Typed
  <2>1. sent = [c \in AllCsids |-> <<>>] /\ received = [c \in AllCsids |-> <<>>]
    BY DEF Init
  <2>2. <<>> \in Seq(Msgs)
    OBVIOUS
  <2>3. sent \in [AllCsids -> Seq(Msgs)] /\ received \in [AllCsids -> Seq(Msgs)]
    BY <2>1, <2>2
  <2> QED
    BY <1>1, <1>4, <2>3 DEF Typed
<1>6. Counted
  <2>1. MaxStreams \in Nat /\ MaxBuffered \in Nat
    BY DEF ChunkAssumption
  <2> QED
    BY <1>1, <1>2, <1>3, <2>1, FS_EmptySet DEF Counted
<1> QED
  BY <1>1, <1>5, <1>6, InitSound DEF IInv

\* What the writers do changes nothing of the reader.
LEMMA WritersFrame ==
    ASSUME IInv, UNCHANGED readerVars, peer' = peer,
           sent' \in [AllCsids -> Seq(Msgs)], Grows(sent, sent'),
           failure = "none" => (\E hd, A, Q, off, at, n, k : Sound(hd, A, Q, off, at, n, k))'
    PROVE  IInv'
<1>1. /\ state' = state /\ cks' = cks /\ readSize' = readSize /\ buffered' = buffered
      /\ failure' = failure /\ received' = received
  BY DEF readerVars
<1>2. Typed'
  BY <1>1 DEF IInv, Typed, Tame
<1>3. Counted'
  BY <1>1 DEF IInv, Counted, Held
<1>4. failure # "none" => Shown'
  <2> HAVE failure # "none"
  <2>1. Shown
    BY DEF IInv
  <2>2. \A c \in AllCsids : Prefix(received[c], sent'[c])
    <3> TAKE c \in AllCsids
    <3>1. Prefix(received[c], sent[c]) /\ Prefix(sent[c], sent'[c])
      BY <2>1 DEF Shown, Grows
    <3>2. received[c] \in Seq(Msgs) /\ sent[c] \in Seq(Msgs) /\ sent'[c] \in Seq(Msgs)
      BY DEF IInv, Typed
    <3>3. PICK x \in Nat : x = Len(received[c])
      BY <3>2
    <3>4. PICK y \in Nat : y = Len(sent[c])
      BY <3>2
    <3>5. PICK z \in Nat : z = Len(sent'[c])
      BY <3>2
    <3>6. x <= y /\ y <= z
      BY <3>1, <3>3, <3>4, <3>5 DEF Prefix
    <3>7. x <= z /\ \A i \in 1 .. x : i \in 1 .. y
      BY <3>6
    <3> QED
      BY <3>1, <3>3, <3>4, <3>5, <3>7 DEF Prefix
  <2> QED
    BY <1>1, <2>1, <2>2 DEF Shown
<1> QED
  BY <1>1, <1>2, <1>3, <1>4 DEF IInv

LEMMA SameGrows ==
    ASSUME NEW S \in [AllCsids -> Seq(Msgs)]
    PROVE  Grows(S, S)
BY DEF Grows, Prefix

\* What the reader does changes nothing of the writers.
LEMMA ReadFrame ==
    ASSUME ChunkAssumption, IInv, failure = "none", UNCHANGED writerVars, Counted', Tame',
           received' \in [AllCsids -> Seq(Msgs)],
           \/ /\ failure' = "none"
              /\ (\E hd, A, Q, off, at, n, k : Sound(hd, A, Q, off, at, n, k))'
           \/ failure' \in {"streams", "length"} /\ UNCHANGED <<state, cks, readSize, received>>
    PROVE  IInv'
<1>1. peer' = peer /\ sent' = sent
  BY DEF writerVars
<1>2. Typed'
  BY <1>1 DEF IInv, Typed
<1>3. CASE failure' = "none" /\ (\E hd, A, Q, off, at, n, k : Sound(hd, A, Q, off, at, n, k))'
  BY <1>2, <1>3 DEF IInv
<1>4. CASE failure' \in {"streams", "length"} /\ UNCHANGED <<state, cks, readSize, received>>
  <2>1. PICK hd, A, Q, off, at, n, k : Sound(hd, A, Q, off, at, n, k)
    BY DEF IInv
  <2>2. PICK S \in [AllCsids -> Seq(Msgs)] : S = sent
    BY DEF IInv, Typed
  <2>3. Tame
    BY DEF IInv, Typed
  <2>4. Shown
    BY <2>1, <2>2, <2>3, SoundShows
  <2>5. Shown'
    BY <1>1, <1>4, <2>4 DEF Shown
  <2> QED
    BY <1>2, <1>4, <2>5 DEF IInv
<1> QED
  BY <1>3, <1>4

LEMMA AppendedIs ==
    ASSUME NEW S \in [AllCsids -> Seq(Msgs)], NEW c \in AllCsids, NEW m \in Msgs
    PROVE  Add(S, c, m) \in [AllCsids -> Seq(Msgs)] /\ Grows(S, Add(S, c, m))
BY Appended

LEMMA WriteDataKeeps ==
    ASSUME ChunkAssumption, OwnHasPayload, IInv,
           NEW c \in Csids, NEW type \in Types, NEW stream \in Streams, NEW len \in Lens, NEW ts \in Stamps,
           WriteData(c, type, stream, len, ts)
    PROVE  IInv'
<1>1. PICK S \in [AllCsids -> Seq(Msgs)] : S = sent
  BY DEF IInv, Typed
<1>2. peer \in Peers /\ c \in AllCsids /\ Tame
  BY DEF IInv, Typed, AllCsids
<1>3. PICK m \in Msgs : m.type \in Types /\ (m.body = <<>> => peer = "foreign") /\ Writes(c, m)
  BY <1>1, <1>2, WriteIs
<1>4. UNCHANGED readerVars /\ peer' = peer
  BY <1>3 DEF Writes
<1>5. sent' = S \/ sent' = Add(S, c, m)
  BY <1>1, <1>3 DEF Writes, Add
<1>6. sent' \in [AllCsids -> Seq(Msgs)] /\ Grows(sent, sent')
  <2>1. Add(S, c, m) \in [AllCsids -> Seq(Msgs)] /\ Grows(S, Add(S, c, m))
    BY <1>2, AppendedIs
  <2>2. Grows(S, S)
    BY SameGrows
  <2> QED
    BY <1>1, <1>5, <2>1, <2>2
<1>7. failure = "none" => (\E hd, A, Q, off, at, n, k : Sound(hd, A, Q, off, at, n, k))'
  <2> HAVE failure = "none"
  <2>1. PICK hd, A, Q, off, at, n, k : Sound(hd, A, Q, off, at, n, k)
    BY DEF IInv
  <2>2. cks \in [DOMAIN cks -> StreamRecs] /\ sent \in [AllCsids -> Seq(Msgs)]
    BY <1>1, <1>2 DEF Tame
  <2>3. \E gd : Sound(gd, A, Q, off, at, n, k)'
    BY <1>2, <1>3, <2>1, <2>2, WriteKeeps
  <2> QED
    BY <2>3
<1> QED
  BY <1>4, <1>6, <1>7, WritersFrame

LEMMA WriteSetChunkSizeKeeps ==
    ASSUME ChunkAssumption, IInv, NEW z \in Sizes, WriteSetChunkSize(z)
    PROVE  IInv'
<1>1. PICK S \in [AllCsids -> Seq(Msgs)] : S = sent
  BY DEF IInv, Typed
<1>2. Ctrl \in AllCsids /\ Tame
  BY DEF IInv, Typed, AllCsids
<1>3. UNCHANGED readerVars /\ peer' = peer /\ sent' = Add(S, Ctrl, SizeMsg(z))
  BY <1>1 DEF WriteSetChunkSize, Add, SizeMsg
<1>4. SizeMsg(z) \in Msgs
  BY SizeMsgIs
<1>5. sent' \in [AllCsids -> Seq(Msgs)] /\ Grows(sent, sent')
  <2>1. Add(S, Ctrl, SizeMsg(z)) \in [AllCsids -> Seq(Msgs)] /\ Grows(S, Add(S, Ctrl, SizeMsg(z)))
    BY <1>2, <1>4, AppendedIs
  <2> QED
    BY <1>1, <1>3, <2>1
<1>6. failure = "none" => (\E hd, A, Q, off, at, n, k : Sound(hd, A, Q, off, at, n, k))'
  <2> HAVE failure = "none"
  <2>1. PICK hd, A, Q, off, at, n, k : Sound(hd, A, Q, off, at, n, k)
    BY DEF IInv
  <2>2. cks \in [DOMAIN cks -> StreamRecs] /\ sent \in [AllCsids -> Seq(Msgs)]
    BY <1>1, <1>2 DEF Tame
  <2>3. \E gd, B, R, of, bt : Sound(gd, B, R, of, bt, n, k)'
    BY <2>1, <2>2, SizeKeeps
  <2> QED
    BY <2>3
<1> QED
  BY <1>3, <1>5, <1>6, WritersFrame

LEMMA SendChunkKeeps ==
    ASSUME ChunkAssumption, IInv, NEW c \in Csids, SendChunk(c)
    PROVE  IInv'
<1>1. PICK S \in [AllCsids -> Seq(Msgs)] : S = sent
  BY DEF IInv, Typed
<1>2. Tame
  BY DEF IInv, Typed
<1>3. UNCHANGED readerVars /\ peer' = peer /\ sent' = S
  BY <1>1 DEF SendChunk
<1>4. sent' \in [AllCsids -> Seq(Msgs)] /\ Grows(sent, sent')
  <2>1. Grows(S, S)
    BY SameGrows
  <2> QED
    BY <1>1, <1>3, <2>1
<1>5. failure = "none" => (\E hd, A, Q, off, at, n, k : Sound(hd, A, Q, off, at, n, k))'
  <2> HAVE failure = "none"
  <2>1. PICK hd, A, Q, off, at, n, k : Sound(hd, A, Q, off, at, n, k)
    BY DEF IInv
  <2>2. cks \in [DOMAIN cks -> StreamRecs] /\ sent \in [AllCsids -> Seq(Msgs)]
    BY <1>1, <1>2 DEF Tame
  <2>3. \E B, R, of, bt : Sound(hd, B, R, of, bt, n, k)'
    BY <2>1, <2>2, SendKeeps
  <2> QED
    BY <2>3
<1> QED
  BY <1>3, <1>4, <1>5, WritersFrame

LEMMA InputStepKeeps ==
    ASSUME ChunkAssumption, IInv, NEW m \in 1 .. Len(wire), Input(m)
    PROVE  IInv'
<1>1. /\ failure = "none" /\ UNCHANGED <<writerVars, state, cks, readSize, buffered, failure, received>>
  BY DEF Input
<1>2. Tame' /\ Counted' /\ received' \in [AllCsids -> Seq(Msgs)] /\ failure' = "none"
  BY <1>1 DEF IInv, Typed, Counted, Tame, Held
<1>3. PICK hd, A, Q, off, at, n, k : Sound(hd, A, Q, off, at, n, k)
  BY <1>1 DEF IInv
<1>4. Sound(hd, A, Q, off, at, n, k)'
  BY <1>3, InputKeeps
<1>5. (\E hd1, A1, Q1, off1, at1, n1, k1 : Sound(hd1, A1, Q1, off1, at1, n1, k1))'
  BY <1>4
<1> QED
  BY <1>1, <1>2, <1>5, ReadFrame

LEMMA ReadBasicHeadKeeps ==
    ASSUME ChunkAssumption, IInv, ReadBasicHead
    PROVE  IInv'
<1>1. /\ failure = "none" /\ UNCHANGED <<writerVars, buffered, received, readSize>>
      /\ failure' = "none" \/ (failure' = "streams" /\ UNCHANGED <<state, cks>>)
  <2>1. failure = "none"
    BY DEF ReadBasicHead, Parsing
  <2> QED
    BY <2>1 DEF ReadBasicHead
<1>2. received' \in [AllCsids -> Seq(Msgs)] /\ Tame /\ Counted
  BY <1>1 DEF IInv, Typed
<1>3. CASE failure' = "none"
  <2>1. PICK S \in [AllCsids -> Seq(Msgs)] : S = sent
    BY DEF IInv, Typed
  <2>2. PICK hd, A, Q, off, at, n, k : Sound(hd, A, Q, off, at, n, k)
    BY <1>1 DEF IInv
  <2>3. (\E j : Sound(hd, A, Q, off, at, n, j)') /\ Opens
    <3>1. cks \in [DOMAIN cks -> StreamRecs]
      BY <1>2 DEF Tame
    <3> QED
      BY <1>3, <2>1, <2>2, <3>1, BasicHeadKeeps
  <2>4. /\ Tame' /\ Held' = Held
        /\ IsFiniteSet(DOMAIN cks') /\ Cardinality(DOMAIN cks') <= MaxStreams
    <3>1. IsFiniteSet(DOMAIN cks) /\ Cardinality(DOMAIN cks) <= MaxStreams
      BY <1>2 DEF Counted
    <3> QED
      BY <1>2, <2>3, <3>1, OpensKeeps
  <2>5. Counted'
    BY <1>1, <1>2, <1>3, <2>4 DEF Counted
  <2>6. (\E hd1, A1, Q1, off1, at1, n1, k1 : Sound(hd1, A1, Q1, off1, at1, n1, k1))'
    BY <2>3
  <2> QED
    BY <1>1, <1>2, <1>3, <2>4, <2>5, <2>6, ReadFrame
<1>4. CASE failure' = "streams" /\ UNCHANGED <<state, cks>>
  <2>1. Tame' /\ Counted'
    BY <1>1, <1>2, <1>4 DEF Tame, Counted, Held
  <2> QED
    BY <1>1, <1>2, <1>4, <2>1, ReadFrame
<1> QED
  BY <1>1, <1>3, <1>4

LEMMA ReadMsgHeadKeeps ==
    ASSUME ChunkAssumption, IInv, ReadMsgHead
    PROVE  IInv'
<1>1. /\ failure = "none" /\ UNCHANGED <<writerVars, buffered, received, readSize, failure>>
  BY DEF ReadMsgHead, Parsing
<1>2. received' \in [AllCsids -> Seq(Msgs)] /\ Tame /\ Counted
  BY <1>1 DEF IInv, Typed
<1>3. PICK S \in [AllCsids -> Seq(Msgs)] : S = sent
  BY DEF IInv, Typed
<1>4. PICK hd, A, Q, off, at, n, k : Sound(hd, A, Q, off, at, n, k)
  BY <1>1 DEF IInv
<1>5. (\E j : Sound(hd, A, Q, off, at, n, j)') /\ Tame' /\ Held' = Held
  BY <1>2, <1>3, <1>4, MsgHeadKeeps
<1>6. DOMAIN cks' = DOMAIN cks
  <2>1. PICK want : want = HeadLen[cks[current].fmt] - Len(cks[current].hdr)
    OBVIOUS
  <2>2. PICK hdr : hdr = cks[current].hdr \o Take(data, Cut(want, Len(data)))
    OBVIOUS
  <2>3. PICK h : h = Decoded(cks[current].head, hdr)
    OBVIOUS
  <2>4. IF Len(data) < want THEN cks' = [cks EXCEPT ![current].hdr = hdr]
        ELSE cks' = [cks EXCEPT ![current].hdr = <<>>, ![current].head = h,
                                ![current].hasExt = (h.ts = ExtStamp)]
    BY <2>1, <2>2, <2>3 DEF ReadMsgHead
  <2> QED
    BY <2>4
<1>7. Counted'
  BY <1>1, <1>2, <1>5, <1>6 DEF Counted
<1>8. (\E hd1, A1, Q1, off1, at1, n1, k1 : Sound(hd1, A1, Q1, off1, at1, n1, k1))'
  BY <1>5
<1> QED
  BY <1>1, <1>2, <1>5, <1>7, <1>8, ReadFrame

LEMMA ReadExtendTsKeeps ==
    ASSUME ChunkAssumption, IInv, ReadExtendTs
    PROVE  IInv'
<1>1. /\ failure = "none" /\ UNCHANGED <<writerVars, buffered, received, readSize, failure>>
  BY DEF ReadExtendTs, Parsing
<1>2. received' \in [AllCsids -> Seq(Msgs)] /\ Tame /\ Counted
  BY <1>1 DEF IInv, Typed
<1>3. PICK S \in [AllCsids -> Seq(Msgs)] : S = sent
  BY DEF IInv, Typed
<1>4. PICK hd, A, Q, off, at, n, k : Sound(hd, A, Q, off, at, n, k)
  BY <1>1 DEF IInv
<1>5. (\E j : Sound(hd, A, Q, off, at, n, j)') /\ Tame' /\ Held' = Held
  BY <1>2, <1>3, <1>4, ExtendTsKeeps
<1>6. DOMAIN cks' = DOMAIN cks
  <2>1. \/ \E x : cks' = [cks EXCEPT ![current].hdr = x]
        \/ \E x, y : cks' = [cks EXCEPT ![current].hdr = x, ![current].head.ts = y]
    BY DEF ReadExtendTs
  <2> QED
    BY <1>2, <2>1 DEF Tame
<1>7. Counted'
  BY <1>1, <1>2, <1>5, <1>6 DEF Counted
<1>8. (\E hd1, A1, Q1, off1, at1, n1, k1 : Sound(hd1, A1, Q1, off1, at1, n1, k1))'
  BY <1>5
<1> QED
  BY <1>1, <1>2, <1>5, <1>7, <1>8, ReadFrame

LEMMA ReadPayloadKeeps ==
    ASSUME ChunkAssumption, IInv, ReadPayload
    PROVE  IInv'
<1>1. /\ failure = "none" /\ UNCHANGED writerVars
      /\ failure' = "none" \/ (failure' = "length" /\ UNCHANGED <<state, cks, readSize, buffered, received>>)
  <2>1. failure = "none"
    BY DEF ReadPayload, Parsing
  <2> QED
    BY <2>1 DEF ReadPayload
<1>2. received \in [AllCsids -> Seq(Msgs)] /\ Tame /\ Counted
  BY DEF IInv, Typed
<1>3. CASE failure' = "none"
  <2>1. PICK S \in [AllCsids -> Seq(Msgs)] : S = sent
    BY DEF IInv, Typed
  <2>2. PICK hd, A, Q, off, at, n, k : Sound(hd, A, Q, off, at, n, k)
    BY <1>1 DEF IInv
  <2>3. buffered \in Nat
    BY <1>2 DEF Counted
  <2>4. /\ \E i, j : Sound(hd, A, Q, off, at, i, j)'
        /\ Charged /\ received' \in [AllCsids -> Seq(Msgs)] /\ current \in DOMAIN cks
    BY <1>2, <1>3, <2>1, <2>2, <2>3, PayloadKeeps
  <2>5. /\ Tame' /\ DOMAIN cks' = DOMAIN cks
        /\ IsFiniteSet(Held') /\ Cardinality(Held') <= MaxBuffered /\ buffered' = Cardinality(Held')
        /\ buffered' \in Nat
    <3>1. IsFiniteSet(Held) /\ Cardinality(Held) <= MaxBuffered /\ buffered = Cardinality(Held)
      BY <1>1, <1>2 DEF Counted
    <3> QED
      BY <1>2, <2>3, <2>4, <3>1, ChargedKeeps
  <2>6. Counted'
    BY <1>2, <2>5 DEF Counted
  <2>7. (\E hd1, A1, Q1, off1, at1, n1, k1 : Sound(hd1, A1, Q1, off1, at1, n1, k1))'
    BY <2>4
  <2> QED
    BY <1>1, <1>3, <2>4, <2>5, <2>6, <2>7, ReadFrame
<1>4. CASE failure' = "length" /\ UNCHANGED <<state, cks, readSize, buffered, received>>
  <2>1. Tame' /\ Counted' /\ received' \in [AllCsids -> Seq(Msgs)]
    BY <1>2, <1>4 DEF Tame, Counted, Held
  <2> QED
    BY <1>1, <1>4, <2>1, ReadFrame
<1> QED
  BY <1>1, <1>3, <1>4

LEMMA StutterKeeps ==
    ASSUME IInv, UNCHANGED vars
    PROVE  IInv'
<1>1. /\ UNCHANGED <<peer, writers, queued, midway, sent, wire, data, state, headCache, current, cks,
                      readSize, buffered, failure, received>>
  BY DEF vars, writerVars, readerVars
<1>2. Typed' /\ Counted'
  BY <1>1 DEF IInv, Typed, Counted, Tame, Held
<1>3. failure # "none" => Shown'
  BY <1>1 DEF IInv, Shown
<1>4. failure = "none" => (\E hd, A, Q, off, at, n, k : Sound(hd, A, Q, off, at, n, k))'
  <2> HAVE failure = "none"
  <2>1. PICK hd, A, Q, off, at, n, k : Sound(hd, A, Q, off, at, n, k)
    BY DEF IInv
  <2>2. Sound(hd, A, Q, off, at, n, k)'
    BY <1>1, <2>1 DEF Sound, WritersFit, Reader, Settled, Reading, Supply
  <2> QED
    BY <2>2
<1> QED
  BY <1>1, <1>2, <1>3, <1>4 DEF IInv

\* The invariant holds, with the chunks mixed and the input cut in any way.
THEOREM ChunkInvariant == ASSUME ChunkAssumption, OwnHasPayload PROVE Spec => []IInv
<1>1. Init => IInv
  BY InitIs
<1>2. IInv /\ [Next]_vars => IInv'
  <2> SUFFICES ASSUME IInv, [Next]_vars PROVE IInv'
    OBVIOUS
  <2>1. CASE \E c \in Csids, type \in Types, stream \in Streams, len \in Lens, ts \in Stamps :
                WriteData(c, type, stream, len, ts)
    BY <2>1, WriteDataKeeps
  <2>2. CASE \E z \in Sizes : WriteSetChunkSize(z)
    BY <2>2, WriteSetChunkSizeKeeps
  <2>3. CASE \E c \in Csids : SendChunk(c)
    BY <2>3, SendChunkKeeps
  <2>4. CASE \E m \in 1 .. Len(wire) : Input(m)
    BY <2>4, InputStepKeeps
  <2>5. CASE ReadBasicHead
    BY <2>5, ReadBasicHeadKeeps
  <2>6. CASE ReadMsgHead
    BY <2>6, ReadMsgHeadKeeps
  <2>7. CASE ReadExtendTs
    BY <2>7, ReadExtendTsKeeps
  <2>8. CASE ReadPayload
    BY <2>8, ReadPayloadKeeps
  <2>9. CASE UNCHANGED vars
    BY <2>9, StutterKeeps
  <2> QED
    BY <2>1, <2>2, <2>3, <2>4, <2>5, <2>6, <2>7, <2>8, <2>9 DEF Next
<1> QED
  BY <1>1, <1>2, PTL DEF Spec

LEMMA Shows ==
    ASSUME ChunkAssumption, IInv
    PROVE  Shown /\ (failure = "none" => Len(headCache) < 2)
<1>1. CASE failure = "none"
  <2>1. PICK hd, A, Q, off, at, n, k : Sound(hd, A, Q, off, at, n, k)
    BY <1>1 DEF IInv
  <2>2. PICK S \in [AllCsids -> Seq(Msgs)] : S = sent
    BY DEF IInv, Typed
  <2>3. Tame
    BY DEF IInv, Typed
  <2> QED
    BY <2>1, <2>2, <2>3, SoundShows
<1>2. CASE failure # "none"
  BY <1>2 DEF IInv
<1> QED
  BY <1>1, <1>2

\* The caches hold less than what the reader waits for, and no message grows
\* longer than it was announced (readRtmpMessage).
THEOREM TypesCorrect == ASSUME ChunkAssumption, OwnHasPayload PROVE Spec => []TypeOK
<1>1. IInv => TypeOK
  <2> SUFFICES ASSUME IInv PROVE TypeOK
    OBVIOUS
  <2>1. Shown /\ (failure = "none" => Len(headCache) < 2)
    BY Shows
  <2>2. DOMAIN cks \subseteq AllCsids /\ cks \in [DOMAIN cks -> StreamRecs]
    BY DEF IInv, Typed, Tame
  <2>3. \A c \in DOMAIN cks : /\ cks[c].fmt \in 0..3 /\ cks[c].first \in 0..3
                              /\ cks[c].ts \in 0 .. (StampMod - 1)
    BY <2>2 DEF StreamRecs
  <2>4. failure \in {"none", "streams", "length"} /\ buffered \in Nat
    BY DEF IInv, Typed, Counted
  <2> QED
    BY <2>1, <2>2, <2>3, <2>4 DEF TypeOK, Shown
<1> QED
  BY <1>1, ChunkInvariant, PTL

\* maxChunkStreams and maxBufferedMsgLen are kept, and the count they are
\* compared with is that of the payload kept (readRtmpMessage).
THEOREM LimitsAreKept == ASSUME ChunkAssumption, OwnHasPayload PROVE Spec => []LimitsHold
<1>1. IInv => LimitsHold
  BY DEF IInv, Counted, LimitsHold, TotalBuffered, Held
<1> QED
  BY <1>1, ChunkInvariant, PTL

\* What is read from a chunk stream is what was written to it (readRtmpMessage, writeData).
THEOREM ReadsAsWritten == ASSUME ChunkAssumption, OwnHasPayload PROVE Spec => []DeliveredAsWritten
<1>1. IInv => DeliveredAsWritten
  <2> SUFFICES ASSUME IInv, NEW c \in AllCsids
               PROVE  Len(received[c]) <= Len(sent[c]) /\ received[c] = SubSeq(sent[c], 1, Len(received[c]))
    BY DEF DeliveredAsWritten
  <2>1. PICK r \in Seq(Msgs) : r = received[c]
    BY DEF IInv, Typed
  <2>2. PICK s \in Seq(Msgs) : s = sent[c]
    BY DEF IInv, Typed
  <2>3. Len(r) <= Len(s) /\ \A i \in 1 .. Len(r) : r[i] = s[i]
    BY <2>1, <2>2, Shows DEF Shown, Prefix
  <2>4. \A i \in 1 .. Len(r) : s[i] \in Msgs
    BY <2>3
  <2>5. /\ SubSeq(s, 1, Len(r)) \in Seq(Msgs) /\ Len(SubSeq(s, 1, Len(r))) = Len(r)
        /\ \A i \in 1 .. Len(r) : SubSeq(s, 1, Len(r))[i] = s[i]
    BY <2>3, <2>4
  <2>6. r = SubSeq(s, 1, Len(r))
    BY <2>3, <2>5, SeqEqual
  <2> QED
    BY <2>1, <2>2, <2>3, <2>6
<1> QED
  BY <1>1, ChunkInvariant, PTL

\* A part of which the reader waits for more is not all there.
LEMMA WithinLess ==
    ASSUME ChunkAssumption, NEW S \in [AllCsids -> Seq(Msgs)], Announced(S),
           NEW hd, NEW A, NEW o, NEW q, NEW s, PartAt(S, hd, A, o, q, s), NEW k \in Nat,
           NEW st, NEW r, NEW cs \in StreamRecs, Within(S, hd, A, o, q, k, st, r, cs)
    PROVE  k < PartLen(hd, q) \/ (st = "payload" /\ cs.head.len = 0)
<1>1. /\ q \in PartRecs /\ s \in Places /\ (\A c \in AllCsids : PlaceFits(S, c, s[c])) /\ NextPart(S, q, s)
      /\ HeadFits(S, hd, q.c, q.num) /\ PartSizes(hd, q)
  BY DEF PartAt
<1>2. PICK x \in Nat : x = q.from
  BY <1>1 DEF PartRecs
<1>3. PICK y \in Nat : y = q.upto /\ y >= x
  BY <1>1, <1>2 DEF PartRecs, PartSizes
<1>4. PICK b \in Nat : b = HeadFrom(q)
  BY <1>1 DEF PartSizes, HeadFrom
<1>5. PICK h \in Nat : h = HeadLen[Fmt(hd, q)]
  BY <1>1 DEF PartSizes
<1>6. PICK e \in Nat : e = ELen(HeadAt(hd, q))
  BY <1>1 DEF PartSizes
<1>7. ExtFrom(hd, q) = b + h /\ PayFrom(hd, q) = (b + h) + e /\ PartLen(hd, q) = ((b + h) + e) + (y - x)
  BY <1>2, <1>3, <1>4, <1>5, <1>6 DEF ExtFrom, PayFrom, PartLen
<1>8. cs.fmt = Fmt(hd, q)
  BY DEF Within
<1>9. CASE st = "head" /\ AtHead(hd, A, o, q, k, cs)
  <2>1. PICK z \in Nat : z = Len(cs.hdr)
    BY DEF StreamRecs
  <2>2. k = b + z /\ z < h
    BY <1>4, <1>5, <1>8, <1>9, <2>1 DEF AtHead
  <2>3. k < ((b + h) + e) + (y - x)
    BY <1>3, <2>2
  <2> QED
    BY <1>7, <2>3
<1>10. CASE st = "ext" /\ AtExt(hd, A, o, q, k, cs)
  <2>1. PICK z \in Nat : z = Len(cs.hdr)
    BY DEF StreamRecs
  <2>2. k = (b + h) + z /\ z < 2 /\ e = 2
    BY <1>6, <1>7, <1>10, <2>1 DEF AtExt
  <2>3. k < ((b + h) + e) + (y - x)
    BY <1>3, <2>2
  <2> QED
    BY <1>7, <2>3
<1>11. CASE st = "payload" /\ AtPayload(hd, q, k, cs)
  <2>1. PICK v \in Nat : v = cs.chunkRead
    BY DEF StreamRecs
  <2>2. k = ((b + h) + e) + v /\ (v < y - x \/ y = x)
    BY <1>2, <1>3, <1>7, <1>11, <2>1 DEF AtPayload
  <2>3. CASE v < y - x
    <3>1. k < ((b + h) + e) + (y - x)
      BY <1>3, <2>2, <2>3
    <3> QED
      BY <1>7, <3>1
  <2>4. CASE y = x
    <3>1. PICK l \in Nat : l = Len(S[q.c][q.num].body)
      BY <1>1, NextIs
    <3>2. PICK z \in Nat : z = SizeAfter(S, s[Ctrl].num) /\ z > 0
      <4>1. Ctrl \in AllCsids
        BY DEF AllCsids
      <4>2. PICK i \in Nat : i = s[Ctrl].num
        BY <1>1, <4>1 DEF Places
      <4>3. i <= Len(S[Ctrl]) /\ Len(S[Ctrl]) \in Nat
        BY <1>1, <4>1, <4>2 DEF PlaceFits
      <4>4. SizeAfter(S, i) \in Nat \ {0}
        BY <4>3, SizeIs
      <4> QED
        BY <4>2, <4>4
    <3>3. y = Cut(x + z, l) /\ (x = 0 \/ x < l)
      BY <1>1, <1>2, <1>3, <3>1, <3>2 DEF NextPart
    <3>4. x \in Nat /\ y \in Nat /\ z \in Nat /\ l \in Nat /\ z > 0 /\ y = x /\ y = Cut(x + z, l) /\ (x = 0 \/ x < l)
      BY <2>4, <3>2, <3>3
    <3>5. l = 0
      BY <3>4 DEF Cut
    <3>6. cs.head.len = l
      BY <1>1, <1>11, <3>1 DEF AtPayload, HeadIs, HeadBut, HeadFits, HeadAt
    <3> QED
      BY <1>11, <3>5, <3>6
  <2> QED
    BY <2>2, <2>3, <2>4
<1> QED
  BY <1>9, <1>10, <1>11 DEF Within

\* Nothing is left to read, and the reader wants no message without payload.
Exhausted ==
    /\ data = <<>> /\ wire = <<>> /\ \A c \in AllCsids : queued[c] = <<>>
    /\ ~(state = "payload" /\ cks[current].head.len = 0)

\* The reader has then read every part.
LEMMA AllRead ==
    ASSUME ChunkAssumption, NEW S \in [AllCsids -> Seq(Msgs)], S = sent, Tame, Exhausted,
           NEW hd, NEW A, NEW Q, NEW off, NEW at, NEW n, NEW k, Sound(hd, A, Q, off, at, n, k)
    PROVE  state = "basic" /\ n = Len(Q)
<1>1. /\ History(S, hd, A, Q, off, at) /\ Reader(S, hd, A, Q, off, at, n, k) /\ Supply(A, off[n] + k)
      /\ n \in 0 .. Len(Q) /\ k \in Nat /\ Len(Q) \in Nat /\ off[n] \in Nat /\ A \in Seq(Cells)
      /\ at \in [0 .. Len(Q) -> Places]
  BY SoundIs
<1>2. PICK o \in Nat : o = off[n]
  BY <1>1
<1>3. Len(A) = o + k
  <2>1. Len(data) = 0 /\ Len(wire) = 0
    BY DEF Exhausted
  <2>2. Len(A) = o + k + Len(data) + Len(wire)
    BY <1>1, <1>2 DEF Supply
  <2> QED
    BY <1>1, <2>1, <2>2
<1>4. Announced(S)
  BY <1>1 DEF History
<1>5. ASSUME n < Len(Q) PROVE FALSE
  <2>1. PICK q : q = Q[n + 1]
    OBVIOUS
  <2>2. PICK s : s = at[n]
    OBVIOUS
  <2>3. PartAt(S, hd, A, o, q, s)
    <3>1. PartAt(S, hd, A, off[n], Q[n + 1], at[n])
      BY <1>1, <1>5, PartIs
    <3> QED
      BY <1>2, <2>1, <2>2, <3>1
  <2>4. PICK l \in Nat : l = PartLen(hd, q) /\ o + l <= Len(A) /\ PartSizes(hd, q)
    BY <2>3 DEF PartAt, PartSizes
  <2>5. ~(k < l)
    BY <1>1, <1>2, <1>3, <2>4
  <2>6. CASE state = "basic"
    <3>1. k < BLen(q.c)
      BY <1>1, <1>5, <2>1, <2>6 DEF Reader
    <3>2. PICK b \in Nat : b = BLen(q.c)
      BY <2>4 DEF PartSizes
    <3>3. PICK h \in Nat : h = HeadLen[Fmt(hd, q)]
      BY <2>4 DEF PartSizes
    <3>4. PICK e \in Nat : e = ELen(HeadAt(hd, q))
      BY <2>4 DEF PartSizes
    <3>5. PICK p \in Nat : p = q.upto - q.from
      BY <2>4 DEF PartSizes
    <3>6. l = ((b + h) + e) + p
      BY <2>4, <3>2, <3>3, <3>4, <3>5 DEF PartLen, PayFrom, ExtFrom, HeadFrom
    <3>7. k < l
      BY <1>1, <3>1, <3>2, <3>6
    <3> QED
      BY <2>5, <3>7
  <2>7. CASE state # "basic"
    <3>1. At(S, hd, A, off[n], Q[n + 1], at[n], k)
      BY <2>7, AtIs
    <3>2. /\ current = q.c /\ q.c \in DOMAIN cks
          /\ Within(S, hd, A, o, q, k, state, received[q.c], cks[q.c])
      BY <1>2, <2>1, <2>7, <3>1 DEF At
    <3>3. PICK cs \in StreamRecs : cs = cks[q.c]
      BY <3>2 DEF Tame
    <3>4. PICK r : r = received[q.c]
      OBVIOUS
    <3>5. PICK st : st = state
      OBVIOUS
    <3>6. Within(S, hd, A, o, q, k, st, r, cs)
      BY <3>2, <3>3, <3>4, <3>5
    <3>7. k < PartLen(hd, q) \/ (st = "payload" /\ cs.head.len = 0)
      BY <1>1, <1>4, <2>3, <3>6, WithinLess
    <3> QED
      BY <2>4, <2>5, <3>2, <3>3, <3>5, <3>7 DEF Exhausted
  <2> QED
    BY <2>6, <2>7
<1>6. n = Len(Q)
  BY <1>1, <1>5
<1> QED
  BY <1>1, <1>6 DEF Reader

\* Once all the input there is has been parsed every message has been handed over
\* (readRtmpMessage).
THEOREM NothingIsHeldBack == ASSUME ChunkAssumption, OwnHasPayload PROVE Spec => []NothingHeldBack
<1>1. IInv => NothingHeldBack
  <2> SUFFICES ASSUME IInv, wire = <<>>, \A c \in AllCsids : queued[c] = <<>>, ~Parsing, failure = "none"
               PROVE  received = sent /\ state = "basic" /\ headCache = <<>>
    BY DEF NothingHeldBack
  <2>1. PICK S \in [AllCsids -> Seq(Msgs)] : S = sent
    BY DEF IInv, Typed
  <2>2. Tame /\ received \in [AllCsids -> Seq(Msgs)]
    BY DEF IInv, Typed
  <2>3. PICK hd, A, Q, off, at, n, k : Sound(hd, A, Q, off, at, n, k)
    BY DEF IInv
  <2>4. Exhausted
    BY DEF Parsing, Exhausted
  <2>5. state = "basic" /\ n = Len(Q)
    BY <2>1, <2>2, <2>3, <2>4, AllRead
  <2>6. /\ History(S, hd, A, Q, off, at) /\ Reader(S, hd, A, Q, off, at, n, k)
        /\ WritersFit(S, hd, at[Len(Q)]) /\ at \in [0 .. Len(Q) -> Places] /\ n \in 0 .. Len(Q)
    BY <2>1, <2>3, SoundIs
  <2>7. PICK s \in Places : s = at[n]
    BY <2>6
  <2>8. headCache = <<>>
    <3>1. headCache \in Seq(Cells) /\ Len(headCache) = 0
      BY <2>5, <2>6 DEF Reader
    <3> QED
      BY <3>1
  <2>9. ASSUME NEW c \in AllCsids PROVE received[c] = S[c]
    <3>1. PICK p \in Place : p = s[c]
      BY DEF Places, Place
    <3>2. QueueFits(S, hd, c, p, <<>>)
      BY <2>5, <2>6, <2>7, <3>1 DEF WritersFit
    <3>3. p.num = Len(S[c]) /\ Done(S, c, p)
      <4>1. ~ \E cut \in [1 .. Len(<<>>) + 1 -> Nat] : Pending(S, hd, c, p, <<>>, cut)
        BY DEF Pending
      <4> QED
        BY <3>2, <4>1 DEF QueueFits
    <3>4. Settled(S, hd, c, p)
      BY <2>5, <2>6, <2>7, <3>1 DEF Reader
    <3>5. PICK r \in Seq(Msgs) : r = received[c]
      BY <2>2
    <3>6. PICK x \in Seq(Msgs) : x = S[c]
      OBVIOUS
    <3>7. PICK N \in Nat : N = Len(x) /\ N = p.num
      BY <3>3, <3>6
    <3>8. CASE N = 0
      <4>1. received[c] = <<>>
        BY <3>4, <3>7, <3>8 DEF Settled
      <4>2. x = <<>>
        <5>1. Len(x) = 0
          BY <3>7, <3>8
        <5> QED
          BY <5>1
      <4> QED
        BY <3>6, <4>1, <4>2
    <3>9. CASE N # 0
      <4>1. Rests(S, hd, c, p, r, cks[c])
        BY <3>4, <3>5, <3>7, <3>9 DEF Settled
      <4>2. Len(r) = (N + 1) - 1 /\ \A i \in 1 .. ((N + 1) - 1) : r[i] = x[i]
        BY <3>3, <3>6, <3>7, <4>1 DEF Rests, Kept
      <4>3. (N + 1) - 1 = N
        OBVIOUS
      <4>4. Len(r) = Len(x) /\ \A i \in 1 .. Len(r) : r[i] = x[i]
        BY <3>7, <4>2, <4>3
      <4>5. r = x
        BY <4>4, SeqEqual
      <4> QED
        BY <3>5, <3>6, <4>5
    <3> QED
      BY <3>8, <3>9
  <2>10. received = S
    BY <2>2, <2>9
  <2> QED
    BY <2>1, <2>5, <2>8, <2>10
<1> QED
  BY <1>1, ChunkInvariant, PTL

-------------------------------------------------------------------------------
(* RtmpChunk implements Lanes.                                               *)

Lane == INSTANCE Lanes WITH Lane <- AllCsids, taken <- sent, given <- received

\* A message that is written is taken (writeData).
LEMMA AddTakes ==
    ASSUME NEW c \in AllCsids, NEW m \in Msgs, sent \in [AllCsids -> Seq(Msgs)],
           sent' = Add(sent, c, m), received' = received
    PROVE  Lane!Take(c)
<1>1. PICK r \in Seq(Msgs) : r = sent[c]
  OBVIOUS
<1>2. sent'[c] = Append(r, m) /\ sent' = [sent EXCEPT ![c] = Append(r, m)]
  BY <1>1 DEF Add
<1>3. Len(Append(r, m)) = Len(r) + 1 /\ Append(r, m)[Len(r) + 1] = m
  OBVIOUS
<1> QED
  BY <1>1, <1>2, <1>3 DEF Lane!Take

\* A message that is complete is given (Complete).
LEMMA AppendGives ==
    ASSUME NEW c \in AllCsids, NEW g, received \in [AllCsids -> Seq(Msgs)], sent \in [AllCsids -> Seq(Msgs)],
           received' = [received EXCEPT ![c] = Append(@, g)], sent' = sent,
           received' \in [AllCsids -> Seq(Msgs)], Prefix(received'[c], sent'[c])
    PROVE  Lane!Give(c)
<1>1. PICK r \in Seq(Msgs) : r = received[c]
  OBVIOUS
<1>2. PICK s \in Seq(Msgs) : s = sent[c]
  OBVIOUS
<1>3. PICK t \in Seq(Msgs) : t = received'[c]
  OBVIOUS
<1>4. t = Append(r, g) /\ received' = [received EXCEPT ![c] = Append(r, g)]
  BY <1>1, <1>3
<1>5. PICK l \in Nat : l = Len(r)
  OBVIOUS
<1>6. Len(t) = l + 1 /\ t[l + 1] = g
  BY <1>4, <1>5
<1>7. Len(t) <= Len(s) /\ \A i \in 1 .. Len(t) : t[i] = s[i]
  BY <1>2, <1>3 DEF Prefix
<1>8. s[l + 1] = g /\ l < Len(s)
  BY <1>6, <1>7
<1> QED
  BY <1>1, <1>2, <1>4, <1>5, <1>8 DEF Lane!Give

\* RtmpChunk implements Lanes: whatever the pieces of the input, the messages of a
\* chunk stream are handed over one by one as they were written (writeData,
\* readRtmpMessage).
THEOREM RefinesLanes == ASSUME ChunkAssumption, OwnHasPayload PROVE Spec => Lane!Spec
<1>1. Init => Lane!Init
  BY DEF Init, Lane!Init
<1>2. IInv => Shown /\ Typed
  BY Shows DEF IInv
<1>3. Typed /\ (Typed /\ Shown)' /\ [Next]_vars => [Lane!Next]_Lane!vars
  <2> SUFFICES ASSUME Typed, Typed', Shown', [Next]_vars PROVE [Lane!Next]_Lane!vars
    OBVIOUS
  <2>1. /\ sent \in [AllCsids -> Seq(Msgs)] /\ received \in [AllCsids -> Seq(Msgs)]
        /\ received' \in [AllCsids -> Seq(Msgs)] /\ peer \in Peers
        /\ \A c \in AllCsids : Prefix(received'[c], sent'[c])
    BY DEF Typed, Shown
  <2>2. ASSUME NEW c \in Csids, NEW type \in Types, NEW stream \in Streams, NEW len \in Lens, NEW ts \in Stamps,
               WriteData(c, type, stream, len, ts)
        PROVE  [Lane!Next]_Lane!vars
    <3>1. PICK m \in Msgs : Writes(c, m)
      BY <2>1, <2>2, WriteIs
    <3>2. received' = received /\ (sent' = sent \/ sent' = Add(sent, c, m))
      BY <3>1 DEF Writes, Add, readerVars
    <3>3. c \in AllCsids
      BY DEF AllCsids
    <3> QED
      BY <2>1, <3>2, <3>3, AddTakes DEF Lane!Next, Lane!vars
  <2>3. ASSUME NEW z \in Sizes, WriteSetChunkSize(z) PROVE [Lane!Next]_Lane!vars
    <3>1. SizeMsg(z) \in Msgs /\ Ctrl \in AllCsids
      BY SizeMsgIs DEF AllCsids
    <3>2. received' = received /\ sent' = Add(sent, Ctrl, SizeMsg(z))
      BY <2>3 DEF WriteSetChunkSize, Add, SizeMsg, readerVars
    <3> QED
      BY <2>1, <3>1, <3>2, AddTakes DEF Lane!Next
  <2>4. ASSUME NEW c \in Csids, SendChunk(c) PROVE [Lane!Next]_Lane!vars
    BY <2>4 DEF SendChunk, readerVars, Lane!vars
  <2>5. ASSUME NEW m \in 1 .. Len(wire), Input(m) PROVE [Lane!Next]_Lane!vars
    BY <2>5 DEF Input, writerVars, Lane!vars
  <2>6. CASE ReadBasicHead
    BY <2>6 DEF ReadBasicHead, writerVars, Lane!vars
  <2>7. CASE ReadMsgHead
    BY <2>7 DEF ReadMsgHead, writerVars, Lane!vars
  <2>8. CASE ReadExtendTs
    BY <2>8 DEF ReadExtendTs, writerVars, Lane!vars
  <2>9. CASE ReadPayload
    <3>1. /\ sent' = sent
          /\ received' = received \/ \E g : received' = [received EXCEPT ![current] = Append(@, g)]
      BY <2>9 DEF ReadPayload, Complete, writerVars
    <3>2. CASE received' = received \/ current \notin AllCsids
      <4>1. received' = received
        BY <2>1, <3>1, <3>2
      <4> QED
        BY <3>1, <4>1 DEF Lane!vars
    <3>3. CASE current \in AllCsids /\ \E g : received' = [received EXCEPT ![current] = Append(@, g)]
      BY <2>1, <3>1, <3>3, AppendGives DEF Lane!Next
    <3> QED
      BY <3>1, <3>2, <3>3
  <2>10. CASE UNCHANGED vars
    BY <2>10 DEF vars, writerVars, readerVars, Lane!vars
  <2> QED
    BY <2>2, <2>3, <2>4, <2>5, <2>6, <2>7, <2>8, <2>9, <2>10 DEF Next
<1> QED
  BY <1>1, <1>2, <1>3, ChunkInvariant, PTL DEF Spec, Lane!Spec
===============================================================================
