----------------------------- MODULE SrtLinkProofs -----------------------------
(***************************************************************************)
(* Proofs about SrtLink: its inductive invariant and the safety properties *)
(* that follow from it, for every sequence width, initial number, window,  *)
(* queue and buffer size, and every behaviour of the network.              *)
(***************************************************************************)
EXTENDS SrtLink, FiniteSetTheorems, SequenceTheorems, TLAPS

-------------------------------------------------------------------------------
(* Circular arithmetic: within half the circle of ISN, numbers behave as     *)
(* the naturals Idx gives.                                                   *)

\* Idx and seqDiff stay within half the sequence space (seqDiff).
LEMMA DiffType ==
    \A a, b \in SeqNum : seqDiff(a, b) \in (-SeqHalf) .. (SeqHalf - 1)
BY SeqAssumption DEF SeqNum, SeqMod, seqDiff

\* The place of a sequence number in the stream is an integer.
LEMMA IdxType == \A s \in SeqNum : Idx(s) \in Int
BY SeqAssumption, LinkAssumption DEF SeqNum, SeqMod, seqDiff, Idx

\* Distinct numbers have distinct positions.
LEMMA IdxInjective == \A a, b \in SeqNum : Idx(a) = Idx(b) => a = b
BY SeqAssumption, LinkAssumption DEF SeqNum, SeqMod, seqDiff, Idx

\* Between numbers in use, seqDiff is the difference of their positions.
LEMMA IdxDiff ==
    ASSUME NEW a \in SeqNum, NEW b \in SeqNum,
           -1 <= Idx(a), Idx(a) <= MaxWrites, -1 <= Idx(b), Idx(b) <= MaxWrites
    PROVE  seqDiff(a, b) = Idx(b) - Idx(a)
BY SeqAssumption, LinkAssumption DEF SeqNum, SeqMod, seqDiff, Idx

\* seqNext moves one position on (seqNext).
LEMMA IdxNext ==
    ASSUME NEW a \in SeqNum, -1 <= Idx(a), Idx(a) < MaxWrites
    PROVE  seqNext(a) \in SeqNum /\ Idx(seqNext(a)) = Idx(a) + 1
BY SeqAssumption, LinkAssumption DEF SeqNum, SeqMod, seqDiff, Idx, seqNext

\* A number reached from one in use without leaving the range in use.
LEMMA IdxReach ==
    ASSUME NEW a \in SeqNum, NEW s \in SeqNum,
           -1 <= Idx(a), Idx(a) <= MaxWrites,
           0 <= seqDiff(a, s), Idx(a) + seqDiff(a, s) <= MaxWrites
    PROVE  Idx(s) = Idx(a) + seqDiff(a, s)
BY SeqAssumption, LinkAssumption DEF SeqNum, SeqMod, seqDiff, Idx

\* Span(a, b) is the half-open interval of positions.
LEMMA SpanIdx ==
    ASSUME NEW a \in SeqNum, NEW b \in SeqNum, NEW s \in SeqNum,
           0 <= Idx(a), Idx(a) <= MaxWrites, 0 <= Idx(b), Idx(b) <= MaxWrites
    PROVE  s \in Span(a, b) <=> (Idx(a) <= Idx(s) /\ Idx(s) < Idx(b))
BY SeqAssumption, LinkAssumption DEF SeqNum, SeqMod, seqDiff, Idx, Span

\* A run <<a, b>> of numbers in use covers the positions from a to b.
LEMMA BetweenIdx ==
    ASSUME NEW r \in SeqNum \X SeqNum, NEW s \in SeqNum,
           0 <= Idx(r[1]), Idx(r[1]) <= Idx(r[2]), Idx(r[2]) <= MaxWrites
    PROVE  Between(s, r) <=> (Idx(r[1]) <= Idx(s) /\ Idx(s) <= Idx(r[2]))
BY SeqAssumption, LinkAssumption DEF SeqNum, SeqMod, seqDiff, Idx, Between

\* The numbers before ISN and ISN itself.
LEMMA IdxStart ==
    /\ Idx(ISN) = 0
    /\ seqAdd(ISN, -1) \in SeqNum /\ Idx(seqAdd(ISN, -1)) = -1
BY SeqAssumption, LinkAssumption DEF SeqNum, SeqMod, seqDiff, Idx, seqAdd

-------------------------------------------------------------------------------
(* Facts about the parts of the invariant.                                   *)

\* The send buffer ends at the last packet written (Write, releaseSent).
LEMMA BaseIs ==
    ASSUME TypeOK, SenderInv
    PROVE  /\ Len(sndBuf) \in 0 .. MaxWrites
           /\ SndBase = written - Len(sndBuf)
           /\ SndBase \in 0 .. written
<1>1. Len(sndBuf) \in Nat BY DEF TypeOK
<1>2. CASE sndBuf = <<>>
  BY <1>1, <1>2, LinkAssumption DEF TypeOK, SenderInv, SndBase
<1>3. CASE sndBuf # <<>>
  <2>1. Len(sndBuf) >= 1 BY <1>1, <1>3 DEF TypeOK
  <2> QED BY <1>1, <1>3, <2>1, LinkAssumption DEF TypeOK, SenderInv, SndBase
<1> QED BY <1>2, <1>3

\* A step of the sending half that lets go of packets, and writes none,
\* keeps the buffer a run that ends at the last packet written (releaseSent).
LEMMA ReleaseInv ==
    ASSUME TypeOK, SenderInv, NEW n \in 0 .. Len(sndBuf), releaseSent(n),
           UNCHANGED <<nextSeq, written>>
    PROVE  /\ sndBuf' \in Seq(Packet) /\ SenderInv'
           /\ SndBase' = SndBase + n
<1>1. /\ Len(sndBuf) \in Nat /\ sndBuf \in Seq(Packet)
      /\ SndBase = written - Len(sndBuf) /\ written \in Nat
  BY BaseIs DEF TypeOK
<1>2. /\ sndBuf' \in Seq(Packet) /\ Len(sndBuf') = Len(sndBuf) - n
      /\ \A i \in 1 .. Len(sndBuf') : sndBuf'[i] = sndBuf[i + n]
  BY <1>1 DEF releaseSent
<1>3. SenderInv'
  <2>1. nextSeq' = nextSeq /\ written' = written OBVIOUS
  <2>2. ASSUME NEW i \in 1 .. Len(sndBuf')
        PROVE  /\ sndBuf'[i].pay = written' - Len(sndBuf') + i - 1
               /\ Idx(sndBuf'[i].seq) = sndBuf'[i].pay
    <3>1. i \in Int /\ n \in Int /\ i + n \in 1 .. Len(sndBuf) /\ sndBuf'[i] = sndBuf[i + n]
      BY <1>1, <1>2
    <3>2. /\ sndBuf[i + n].pay = written - Len(sndBuf) + (i + n) - 1
          /\ Idx(sndBuf[i + n].seq) = sndBuf[i + n].pay
      BY <3>1 DEF SenderInv
    <3> QED BY <1>1, <1>2, <2>1, <3>1, <3>2
  <2> QED BY <1>1, <1>2, <2>1, <2>2 DEF SenderInv
<1>4. SndBase' = written - Len(sndBuf')
  <2>1. CASE sndBuf' = <<>>
    <3>1. Len(sndBuf') = 0 BY <2>1
    <3> QED BY <1>1, <2>1, <3>1 DEF SndBase
  <2>2. CASE sndBuf' # <<>>
    <3>1. Len(sndBuf') >= 1 BY <1>2, <2>2
    <3> QED BY <1>1, <1>2, <1>3, <2>2, <3>1 DEF SndBase, SenderInv
  <2> QED BY <2>1, <2>2
<1> QED BY <1>1, <1>2, <1>3, <1>4

\* What a step of the sending half must keep for the rest of the invariant:
\* packets are only added, and the oldest one held only moves on.
LEMMA SenderFrame ==
    ASSUME LinkInv, UNCHANGED rcvVars, ackNet' \subseteq ackNet,
           written' \in written .. MaxWrites, SndBase' \in Int, SndBase' >= SndBase
    PROVE  /\ ReceiverInv' /\ StreamInv' /\ NoSilentGap' /\ AckCoversNoLoss'
           /\ GiveUpJustified'
<1>1. SndBase \in Int /\ written \in Int /\ due \in Int
  BY BaseIs DEF LinkInv, TypeOK
<1>2. UNCHANGED <<rcvNext, rcvMax, rcvBuf, loss, rcvState, due, delivered, gaveUp, ready, discarded>>
  BY DEF rcvVars
<1>3. Idx(rcvMax) \in Int /\ \A s \in DOMAIN rcvBuf : Idx(s) \in Int
  BY IdxType DEF LinkInv, TypeOK
<1>4. ReceiverInv' BY <1>1, <1>2, <1>3 DEF LinkInv, ReceiverInv
<1>5. StreamInv' BY <1>2 DEF LinkInv, StreamInv, InOrder
<1>6. NoSilentGap' BY <1>2 DEF LinkInv, NoSilentGap
<1>7. AckCoversNoLoss' BY <1>2 DEF LinkInv, AckCoversNoLoss
<1>8. GiveUpJustified'
  BY <1>1, <1>2, LinkAssumption DEF LinkInv, GiveUpJustified, TypeOK
<1> QED BY <1>4, <1>5, <1>6, <1>7, <1>8

-------------------------------------------------------------------------------
(* Steps of the sending half.                                                *)

\* Write (conn.go) appends the next sequence number to the send buffer and
\* puts one packet on the network: the invariant survives.
LEMMA WriteInv == LinkInv /\ Write => LinkInv'
<1> SUFFICES ASSUME LinkInv, Write PROVE LinkInv'
  OBVIOUS
<1> DEFINE p == [seq |-> nextSeq, pay |-> written]
<1>1. /\ TypeOK /\ SenderInv /\ NetworkInv BY DEF LinkInv
<1>2. /\ written \in 0 .. (MaxWrites - 1) /\ written' = written + 1
      /\ nextSeq \in SeqNum /\ Idx(nextSeq) = written
      /\ nextSeq' \in SeqNum /\ Idx(nextSeq') = written'
  <2>1. written \in 0 .. (MaxWrites - 1) /\ nextSeq \in SeqNum /\ Idx(nextSeq) = written
    BY <1>1, LinkAssumption DEF TypeOK, SenderInv, Write
  <2>2. nextSeq' = seqNext(nextSeq) /\ written' = written + 1 BY DEF Write
  <2> QED BY <2>1, <2>2, IdxNext, LinkAssumption
<1>3. p \in Packet BY <1>2 DEF Packet
<1>4. /\ sndBuf' \in Seq(Packet) /\ Len(sndBuf') = Len(sndBuf) + 1
      /\ \A i \in 1 .. Len(sndBuf) : sndBuf'[i] = sndBuf[i]
      /\ sndBuf'[Len(sndBuf) + 1] = p
      /\ Len(sndBuf) \in Nat
  BY <1>1, <1>3 DEF TypeOK, Write
<1>5. SenderInv'
  <2>1. ASSUME NEW i \in 1 .. Len(sndBuf')
        PROVE  /\ sndBuf'[i].pay = written' - Len(sndBuf') + i - 1
               /\ Idx(sndBuf'[i].seq) = sndBuf'[i].pay
    <3>1. CASE i \in 1 .. Len(sndBuf)
      <4>1. /\ sndBuf[i].pay = written - Len(sndBuf) + i - 1
            /\ Idx(sndBuf[i].seq) = sndBuf[i].pay
        BY <1>1, <3>1 DEF SenderInv
      <4> QED BY <1>2, <1>4, <3>1, <4>1
    <3>2. CASE i = Len(sndBuf) + 1
      BY <1>2, <1>4, <3>2
    <3> QED BY <1>4, <3>1, <3>2
  <2> QED BY <1>1, <1>2, <1>4, <2>1 DEF SenderInv
<1>6. SndBase' = SndBase /\ SndBase \in 0 .. written
  BY <1>1, <1>2, <1>4, BaseIs DEF SndBase, SenderInv
<1>7. TypeOK'
  BY <1>1, <1>2, <1>3, <1>4, LinkAssumption DEF TypeOK, Write, rcvVars
<1>8. /\ ReceiverInv' /\ StreamInv' /\ NoSilentGap' /\ AckCoversNoLoss' /\ GiveUpJustified'
  <2>1. UNCHANGED rcvVars /\ ackNet' \subseteq ackNet BY DEF Write
  <2>2. written' \in written .. MaxWrites BY <1>2, LinkAssumption
  <2> QED BY <1>2, <1>6, <2>1, <2>2, SenderFrame
<1>9. NetworkInv'
  <2>1. UNCHANGED <<ackNet, nakNet, dropNet, rcvMax>> BY DEF Write, rcvVars
  <2>2. \A m \in dataNet' : m \in dataNet \/ m = p BY DEF Write
  <2>3. \A m \in dataNet' : m.pay < written' /\ Idx(m.seq) = m.pay
    BY <1>1, <1>2, <2>2 DEF NetworkInv, TypeOK, Packet
  <2> QED BY <1>1, <1>6, <2>1, <2>3 DEF NetworkInv
<1> QED BY <1>5, <1>7, <1>8, <1>9 DEF LinkInv

\* handleACK drops a prefix of the send buffer: what is dropped was below the
\* receiver's acknowledgement point, so the invariant survives.
LEMMA HandleACKInv == ASSUME LinkInv, NEW a \in ackNet, HandleACK(a) PROVE LinkInv'
<1>1. TypeOK /\ SenderInv /\ NetworkInv BY DEF LinkInv
<1>2. PICK n \in 0 .. Len(sndBuf) : releaseSent(n) BY DEF HandleACK
<1>3. UNCHANGED <<nextSeq, written, old, rcvVars, dataNet, nakNet, dropNet, finNet, lost,
                  sndState, sndDropped, fin>>
      /\ ackNet' \subseteq ackNet
  BY DEF HandleACK, Rest
<1>4. /\ sndBuf' \in Seq(Packet) /\ SenderInv' /\ SndBase' = SndBase + n
  BY <1>1, <1>2, <1>3, ReleaseInv
<1>5. SndBase \in Int /\ n \in Int /\ n >= 0 /\ written \in 0 .. MaxWrites
  BY <1>1, <1>2, BaseIs DEF TypeOK
<1>6. TypeOK' BY <1>1, <1>3, <1>4 DEF TypeOK, rcvVars
<1>7. ReceiverInv' /\ StreamInv' /\ NoSilentGap' /\ AckCoversNoLoss' /\ GiveUpJustified'
  <2>1. written' \in written .. MaxWrites /\ SndBase' >= SndBase BY <1>3, <1>4, <1>5
  <2> QED BY <1>3, <1>4, <1>5, <2>1, SenderFrame
<1>8. NetworkInv'
  <2>1. rcvMax' = rcvMax BY <1>3 DEF rcvVars
  <2>2. \A run \in dropNet : Idx(run[2]) \in Int BY <1>1, IdxType DEF TypeOK
  <2> QED BY <1>1, <1>3, <1>4, <1>5, <2>1, <2>2 DEF NetworkInv
<1> QED BY <1>4, <1>6, <1>7, <1>8 DEF LinkInv

\* The sender's tick gives up aged packets from the head of the buffer and
\* resends the tail: the give-ups are recorded, the resends are old packets.
LEMMA SenderTickInv ==
    ASSUME LinkInv, NEW hz, NEW again, SenderTick(hz, again) PROVE LinkInv'
<1>1. TypeOK /\ SenderInv /\ NetworkInv BY DEF LinkInv
<1>2. PICK n \in 0 .. Len(sndBuf) :
         /\ releaseSent(n)
         /\ sndDropped' = sndDropped \cup {sndBuf[i].pay : i \in 1 .. n}
         /\ again \subseteq {sndBuf[i] : i \in (n + 1) .. Min2(n + TailBurst, Len(sndBuf))}
  BY DEF SenderTick
<1>3. /\ UNCHANGED <<nextSeq, written, rcvVars, ackNet, nakNet, dropNet, finNet, lost, sndState, fin>>
      /\ dataNet' = dataNet \cup again /\ old' = hz /\ hz \in old .. written
  BY DEF SenderTick
<1>4. /\ sndBuf' \in Seq(Packet) /\ SenderInv' /\ SndBase' = SndBase + n
  BY <1>1, <1>2, <1>3, ReleaseInv
<1>5. /\ SndBase \in Int /\ n \in Int /\ n >= 0 /\ written \in 0 .. MaxWrites
      /\ old \in Int /\ Len(sndBuf) \in Nat
  BY <1>1, <1>2, BaseIs DEF TypeOK
<1>6. \A m \in again : \E i \in 1 .. Len(sndBuf) : m = sndBuf[i]
  BY <1>2, <1>5, LinkAssumption DEF Min2
<1>7. \A i \in 1 .. Len(sndBuf) : /\ sndBuf[i] \in Packet
                                  /\ sndBuf[i].pay < written /\ Idx(sndBuf[i].seq) = sndBuf[i].pay
  BY <1>1, <1>5 DEF TypeOK, SenderInv
<1>8. TypeOK'
  <2>1. sndDropped' \subseteq 0 .. (MaxWrites - 1)
    <3>1. \A i \in 1 .. n : i \in 1 .. Len(sndBuf) BY <1>2, <1>5
    <3>2. \A i \in 1 .. n : sndBuf[i].pay \in 0 .. (MaxWrites - 1) BY <1>7, <3>1 DEF Packet
    <3> QED BY <1>1, <1>2, <3>2 DEF TypeOK
  <2>2. dataNet' \subseteq Packet BY <1>1, <1>3, <1>6, <1>7 DEF TypeOK
  <2>3. old' \in 0 .. written' BY <1>1, <1>3, <1>5 DEF TypeOK
  <2> QED BY <1>1, <1>3, <1>4, <2>1, <2>2, <2>3 DEF TypeOK, rcvVars
<1>9. ReceiverInv' /\ StreamInv' /\ NoSilentGap' /\ AckCoversNoLoss' /\ GiveUpJustified'
  <2>1. written' \in written .. MaxWrites BY <1>3, <1>5
  <2> QED BY <1>3, <1>4, <1>5, <2>1, SenderFrame
<1>10. NetworkInv'
  <2>1. rcvMax' = rcvMax BY <1>3 DEF rcvVars
  <2>2. \A run \in dropNet : Idx(run[2]) \in Int BY <1>1, IdxType DEF TypeOK
  <2>3. \A m \in dataNet' : m.pay < written' /\ Idx(m.seq) = m.pay
    BY <1>1, <1>3, <1>6, <1>7 DEF NetworkInv
  <2> QED BY <1>1, <1>3, <1>4, <1>5, <2>1, <2>2, <2>3 DEF NetworkInv
<1> QED BY <1>4, <1>8, <1>9, <1>10 DEF LinkInv

\* handleNAK resends what the buffer still holds and asks to drop what it does
\* not: nothing new enters the stream.
LEMMA HandleNAKInv ==
    ASSUME LinkInv, NEW r \in nakNet, NEW again, HandleNAK(r, again) PROVE LinkInv'
<1>1. TypeOK /\ SenderInv /\ NetworkInv BY DEF LinkInv
<1>2. /\ UNCHANGED <<sndVars, rcvVars, ackNet, finNet, lost>>
      /\ dataNet' = dataNet \cup again /\ again \subseteq Held(r)
      /\ dropNet' = dropNet \cup encodeLossList(Gone(r))
      /\ nakNet' \subseteq nakNet
  BY DEF HandleNAK, Rest
<1>3. UNCHANGED <<nextSeq, written, sndBuf, sndState, old, sndDropped, fin, SndBase>>
  BY <1>2 DEF sndVars, SndBase
<1>4. /\ SndBase = written - Len(sndBuf) /\ SndBase \in Int /\ written \in 0 .. MaxWrites
      /\ Len(sndBuf) \in Nat /\ rcvMax \in SeqNum /\ Idx(rcvMax) \in Int
      /\ Idx(rcvMax) < written /\ -1 <= Idx(rcvMax)
  <2>1. /\ SndBase = written - Len(sndBuf) /\ SndBase \in Int /\ written \in 0 .. MaxWrites
        /\ Len(sndBuf) \in Nat
    BY <1>1, BaseIs DEF TypeOK
  <2>2. rcvMax \in SeqNum /\ Idx(rcvMax) \in Int BY <1>1, IdxType DEF TypeOK
  <2>3. Idx(rcvMax) < written /\ -1 <= Idx(rcvMax) BY DEF LinkInv, ReceiverInv
  <2> QED BY <2>1, <2>2, <2>3
<1>5. \A i \in 1 .. Len(sndBuf) : /\ sndBuf[i] \in Packet
                                  /\ sndBuf[i].pay = written - Len(sndBuf) + i - 1
                                  /\ sndBuf[i].pay < written /\ Idx(sndBuf[i].seq) = sndBuf[i].pay
  BY <1>1, <1>4 DEF TypeOK, SenderInv
<1>6. ASSUME NEW s \in Asked(r)
      PROVE  s \in SeqNum /\ 0 <= Idx(s) /\ Idx(s) <= Idx(rcvMax)
  <2>1. s \in SeqNum BY DEF Asked, decodeLossList
  <2>2. PICK run \in r : Between(s, run) BY DEF Asked, decodeLossList
  <2>3. /\ run \in SeqNum \X SeqNum
        /\ 0 <= Idx(run[1]) /\ Idx(run[1]) <= Idx(run[2]) /\ Idx(run[2]) <= Idx(rcvMax)
    BY <1>1 DEF TypeOK, NetworkInv
  <2>4. Idx(run[1]) \in Int /\ Idx(run[2]) \in Int BY <2>3, IdxType
  <2>5. Idx(run[2]) <= MaxWrites BY <1>4, <2>3, <2>4, LinkAssumption
  <2>6. Idx(run[1]) <= Idx(s) /\ Idx(s) <= Idx(run[2])
    BY <2>1, <2>2, <2>3, <2>5, BetweenIdx
  <2> QED BY <1>4, <2>1, <2>3, <2>4, <2>6, IdxType
<1>7. ASSUME NEW s \in Gone(r) PROVE Idx(s) < SndBase
  <2>1. s \in Asked(r) BY DEF Gone
  <2>2. s \in SeqNum /\ 0 <= Idx(s) /\ Idx(s) <= Idx(rcvMax) /\ Idx(s) \in Int
    BY <1>6, <2>1, IdxType
  <2>3. CASE sndBuf = <<>> BY <1>4, <2>2, <2>3 DEF SndBase
  <2>4. CASE sndBuf # <<>>
    <3>1. 1 \in 1 .. Len(sndBuf) BY <1>1, <1>4, <2>4 DEF TypeOK
    <3>2. sndBuf[1].seq \in SeqNum /\ Idx(sndBuf[1].seq) = SndBase
      BY <1>5, <2>4, <3>1 DEF Packet, SndBase
    <3>3. seqDiff(sndBuf[1].seq, s) < 0 BY <2>4 DEF Gone
    <3>4. /\ 0 <= SndBase /\ SndBase <= MaxWrites
      <4>1. SndBase \in 0 .. written BY <1>1, BaseIs
      <4> QED BY <1>4, <4>1, LinkAssumption
    <3>5. /\ -1 <= Idx(sndBuf[1].seq) /\ Idx(sndBuf[1].seq) <= MaxWrites
          /\ -1 <= Idx(s) /\ Idx(s) <= MaxWrites
      BY <1>4, <2>2, <3>2, <3>4, LinkAssumption
    <3>6. seqDiff(sndBuf[1].seq, s) = Idx(s) - SndBase
      BY <2>2, <3>2, <3>5, IdxDiff
    <3> QED BY <1>4, <2>2, <3>3, <3>6
  <2> QED BY <2>3, <2>4
<1>8. ASSUME NEW run \in encodeLossList(Gone(r))
      PROVE  /\ run \in SeqNum \X SeqNum
             /\ 0 <= Idx(run[1]) /\ Idx(run[1]) <= Idx(run[2])
             /\ Idx(run[2]) <= Idx(rcvMax) /\ Idx(run[2]) < SndBase
  <2>1. /\ run \in Gone(r) \X Gone(r) /\ 0 <= seqDiff(run[1], run[2])
    BY DEF encodeLossList
  <2>2. Gone(r) \subseteq Asked(r) BY DEF Gone
  <2>3. /\ run[1] \in Gone(r) /\ run[2] \in Gone(r) /\ run = <<run[1], run[2]>>
    BY <2>1
  <2>4. /\ run[1] \in SeqNum /\ run[2] \in SeqNum
        /\ 0 <= Idx(run[1]) /\ Idx(run[1]) <= Idx(rcvMax)
        /\ 0 <= Idx(run[2]) /\ Idx(run[2]) <= Idx(rcvMax) /\ Idx(run[2]) < SndBase
    BY <1>6, <1>7, <2>2, <2>3
  <2>5. Idx(run[1]) \in Int /\ Idx(run[2]) \in Int BY <2>4, IdxType
  <2>6. /\ -1 <= Idx(run[1]) /\ Idx(run[1]) <= MaxWrites
        /\ -1 <= Idx(run[2]) /\ Idx(run[2]) <= MaxWrites
    BY <1>4, <2>4, <2>5, LinkAssumption
  <2>7. seqDiff(run[1], run[2]) = Idx(run[2]) - Idx(run[1])
    BY <2>4, <2>6, IdxDiff
  <2>8. Idx(run[1]) <= Idx(run[2]) BY <2>1, <2>5, <2>7
  <2>9. run \in SeqNum \X SeqNum BY <2>3, <2>4
  <2> QED BY <2>4, <2>8, <2>9
<1>9. ASSUME NEW m \in Held(r)
      PROVE  m \in Packet /\ m.pay < written /\ Idx(m.seq) = m.pay
  <2>1. PICK s \in Asked(r) \ Gone(r) :
          /\ seqDiff(sndBuf[1].seq, s) < Len(sndBuf)
          /\ m = sndBuf[seqDiff(sndBuf[1].seq, s) + 1]
    BY DEF Held
  <2>2. ~(seqDiff(sndBuf[1].seq, s) < 0) /\ sndBuf # <<>> BY <2>1 DEF Gone
  <2>3. s \in SeqNum /\ sndBuf[1].seq \in SeqNum
    <3>1. 1 \in 1 .. Len(sndBuf) BY <1>1, <1>4, <2>2 DEF TypeOK
    <3> QED BY <1>5, <1>6, <2>1, <3>1 DEF Packet
  <2>4. seqDiff(sndBuf[1].seq, s) \in Int BY <2>3, DiffType, SeqAssumption
  <2>5. seqDiff(sndBuf[1].seq, s) + 1 \in 1 .. Len(sndBuf) BY <1>4, <2>1, <2>2, <2>4
  <2> QED BY <1>5, <2>1, <2>5
<1>10. TypeOK'
  <2>1. dataNet' \subseteq Packet BY <1>1, <1>2, <1>9 DEF TypeOK
  <2>2. dropNet' \subseteq SeqNum \X SeqNum BY <1>1, <1>2, <1>8 DEF TypeOK
  <2> QED BY <1>1, <1>2, <1>3, <2>1, <2>2 DEF TypeOK, rcvVars
<1>11. SenderInv' BY <1>1, <1>3 DEF SenderInv
<1>12. ReceiverInv' /\ StreamInv' /\ NoSilentGap' /\ AckCoversNoLoss' /\ GiveUpJustified'
  <2>1. written' \in written .. MaxWrites BY <1>3, <1>4
  <2> QED BY <1>2, <1>3, <1>4, <2>1, SenderFrame
<1>13. NetworkInv'
  <2>1. rcvMax' = rcvMax BY <1>2 DEF rcvVars
  <2> QED BY <1>1, <1>2, <1>3, <1>8, <1>9, <2>1 DEF NetworkInv
<1> QED BY <1>10, <1>11, <1>12, <1>13 DEF LinkInv

-------------------------------------------------------------------------------
(* Steps of the receiving half.                                              *)

\* The first n values of a function on 1 .. k, as a sequence.
LEMMA FunctionPrefix ==
    ASSUME NEW k \in Nat, NEW S, NEW f \in [1 .. k -> S], NEW n \in 0 .. k
    PROVE  /\ SubSeq(f, 1, n) \in Seq(S) /\ Len(SubSeq(f, 1, n)) = n
           /\ \A i \in 1 .. n : SubSeq(f, 1, n)[i] = f[i]
<1>1. f \in Seq(S) OBVIOUS
<1>2. Len(f) = k BY <1>1
<1> QED BY <1>1, <1>2

\* What joins ready and the stream of deliveries, when everything that comes
\* is past what was delivered and below some bound B (deliver, flushReceived).
LEMMA EnqueueInv ==
    ASSUME TypeOK, StreamInv, NEW ps \in SUBSET (0 .. (MaxWrites - 1)), NEW B \in Int,
           \A p \in ps : Idx(rcvNext) <= p /\ p < B,
           Idx(rcvNext) <= B, Enqueue(ps)
    PROVE  /\ ready' \in Seq(0 .. (MaxWrites - 1)) /\ delivered' \in Seq(0 .. (MaxWrites - 1))
           /\ discarded' \subseteq 0 .. (MaxWrites - 1)
           /\ InOrder' /\ \A i \in DOMAIN delivered' : delivered'[i] < B
<1> DEFINE P == 0 .. (MaxWrites - 1)
           k == Cardinality(ps)
<1>1. k \in Nat
  <2>1. IsFiniteSet(P) BY FS_Interval, LinkAssumption
  <2>2. IsFiniteSet(ps) BY <2>1, FS_Subset
  <2> QED BY <2>2, FS_CardinalityType
<1>2. PICK batch \in [1 .. k -> ps] :
        LET room == MaxReadyQueue - Len(ready)
            n    == IF room < 0 THEN 0 ELSE Min2(room, k)
        IN  /\ \A i, j \in 1 .. k : i < j => batch[i] < batch[j]
            /\ ready' = ready \o SubSeq(batch, 1, n)
            /\ delivered' = delivered \o SubSeq(batch, 1, n)
            /\ discarded' = discarded \cup {batch[i] : i \in (n + 1) .. k}
  BY DEF Enqueue
<1> HIDE DEF k
<1>3. /\ ready \in Seq(P) /\ delivered \in Seq(P) /\ discarded \subseteq P
      /\ Len(ready) \in Nat /\ Len(delivered) \in Nat
  BY DEF TypeOK
<1>4. PICK n \in 0 .. k : /\ ready' = ready \o SubSeq(batch, 1, n)
                          /\ delivered' = delivered \o SubSeq(batch, 1, n)
                          /\ discarded' = discarded \cup {batch[i] : i \in (n + 1) .. k}
  <2> DEFINE room == MaxReadyQueue - Len(ready)
             n == IF room < 0 THEN 0 ELSE Min2(room, k)
  <2>1. n \in 0 .. k BY <1>1, <1>3, LinkAssumption DEF Min2
  <2> HIDE DEF n
  <2> QED BY <1>2, <2>1 DEF n
<1> DEFINE sub == SubSeq(batch, 1, n)
<1>5. \A x \in P : x \in Int BY LinkAssumption
<1>6. /\ sub \in Seq(P) /\ Len(sub) = n /\ n \in Nat
      /\ \A i \in 1 .. n : sub[i] = batch[i] /\ batch[i] \in ps
  <2>1. batch \in [1 .. k -> P] BY <1>2
  <2>2. sub \in Seq(P) /\ Len(sub) = n /\ \A i \in 1 .. n : sub[i] = batch[i]
    BY <1>1, <1>4, <2>1, FunctionPrefix
  <2>3. n \in Nat /\ \A i \in 1 .. n : i \in 1 .. k BY <1>1, <1>4
  <2> QED BY <1>2, <2>2, <2>3
<1> HIDE DEF sub
<1>7. ready' \in Seq(P) /\ delivered' \in Seq(P)
  BY <1>3, <1>4, <1>6 DEF sub
<1>8. discarded' \subseteq P
  <2>1. \A i \in (n + 1) .. k : batch[i] \in ps BY <1>1, <1>2, <1>4
  <2> QED BY <1>3, <1>4, <2>1
<1>9. /\ Len(delivered') = Len(delivered) + n
      /\ \A i \in 1 .. Len(delivered) : delivered'[i] = delivered[i]
      /\ \A i \in 1 .. n : delivered'[Len(delivered) + i] = sub[i]
  BY <1>3, <1>4, <1>6 DEF sub
<1>10. DOMAIN delivered' = 1 .. (Len(delivered) + n) /\ DOMAIN delivered = 1 .. Len(delivered)
  BY <1>3, <1>7, <1>9
<1>11. \A i \in 1 .. Len(delivered) : delivered[i] \in Int /\ delivered[i] < Idx(rcvNext)
  <2>1. \A i \in 1 .. Len(delivered) : delivered[i] \in P BY <1>3, ElementOfSeq
  <2> QED BY <1>5, <1>10, <2>1 DEF StreamInv
<1>12. Idx(rcvNext) \in Int BY IdxType DEF TypeOK
<1>13. ASSUME NEW i \in DOMAIN delivered'
       PROVE  \/ i \in 1 .. Len(delivered) /\ delivered'[i] = delivered[i]
              \/ /\ i - Len(delivered) \in 1 .. n
                 /\ delivered'[i] = batch[i - Len(delivered)]
                 /\ delivered'[i] \in ps
  <2>1. CASE i \in 1 .. Len(delivered) BY <1>9, <2>1
  <2>2. CASE i - Len(delivered) \in 1 .. n
    <3>1. i = Len(delivered) + (i - Len(delivered)) BY <1>3, <1>10
    <3> QED BY <1>6, <1>9, <2>2, <3>1
  <2> QED BY <1>3, <1>6, <1>10, <2>1, <2>2
<1>14. \A i \in DOMAIN delivered' : delivered'[i] < B
  <2> SUFFICES ASSUME NEW i \in DOMAIN delivered' PROVE delivered'[i] < B
    OBVIOUS
  <2>1. CASE i \in 1 .. Len(delivered) /\ delivered'[i] = delivered[i]
    BY <1>11, <1>12, <2>1
  <2>2. CASE delivered'[i] \in ps
    BY <2>2
  <2> QED BY <1>13, <2>1, <2>2
<1>15. InOrder'
  <2> SUFFICES ASSUME NEW i \in DOMAIN delivered', NEW j \in DOMAIN delivered', i < j
               PROVE  delivered'[i] < delivered'[j]
    BY DEF InOrder
  <2>1. CASE j \in 1 .. Len(delivered)
    <3>1. i \in 1 .. Len(delivered) BY <1>3, <1>10, <2>1
    <3> QED BY <1>9, <1>10, <2>1, <3>1 DEF StreamInv, InOrder
  <2>2. CASE j - Len(delivered) \in 1 .. n /\ i \in 1 .. Len(delivered)
    <3>1. delivered'[j] \in ps /\ delivered'[j] \in Int /\ Idx(rcvNext) <= delivered'[j]
      <4>1. delivered'[j] \in ps BY <1>3, <1>13, <2>2
      <4>2. delivered'[j] \in P BY <4>1
      <4> QED BY <1>5, <4>1, <4>2
    <3>2. delivered'[i] \in Int /\ delivered'[i] < Idx(rcvNext) BY <1>9, <1>11, <2>2
    <3> QED BY <1>12, <3>1, <3>2
  <2>3. CASE j - Len(delivered) \in 1 .. n /\ i - Len(delivered) \in 1 .. n
    <3>1. /\ delivered'[i] = batch[i - Len(delivered)]
          /\ delivered'[j] = batch[j - Len(delivered)]
      BY <1>3, <1>13, <2>3
    <3>2. i - Len(delivered) < j - Len(delivered) BY <1>3, <1>10
    <3>3. i - Len(delivered) \in 1 .. k /\ j - Len(delivered) \in 1 .. k BY <1>1, <1>4, <2>3
    <3> QED BY <1>2, <3>1, <3>2, <3>3
  <2> QED BY <1>3, <1>6, <1>10, <2>1, <2>2, <2>3
<1> QED BY <1>7, <1>8, <1>14, <1>15

\* The packets deliver finds: those of the window, under their own number,
\* and marks for packets the sender let go. mx is the new rcvMax.
WindowOK(buf, los, mx) ==
    /\ mx \in SeqNum /\ Idx(rcvMax) <= Idx(mx) /\ Idx(mx) < written
    /\ DOMAIN buf \subseteq SeqNum
    /\ \A s \in DOMAIN buf : /\ buf[s] \in {Skip} \cup (0 .. (MaxWrites - 1))
                             /\ Idx(rcvNext) <= Idx(s) /\ Idx(s) <= Idx(mx)
                             /\ buf[s] = Skip => Idx(s) < SndBase
                             /\ buf[s] # Skip => buf[s] = Idx(s)
    /\ los \subseteq SeqNum /\ \A s \in los : 0 <= Idx(s) /\ Idx(s) <= Idx(mx)
    /\ Alive(rcvState) => /\ Span(rcvNext, seqNext(mx)) = DOMAIN buf \cup los
                          /\ DOMAIN buf \cap los = {}

\* deliver on such a window keeps the receiver's part of the invariant, and
\* gives up only what precedes a packet that is due or a skip mark.
LEMMA DeliverInv ==
    ASSUME LinkInv, NEW buf, NEW los, NEW mx, NEW hz \in due .. written,
           WindowOK(buf, los, mx), deliver(buf, los, hz),
           rcvMax' = mx, due' = hz, UNCHANGED <<written, sndBuf, rcvState>>
    PROVE  /\ rcvNext' \in SeqNum /\ loss' \subseteq los
           /\ DOMAIN rcvBuf' \subseteq SeqNum
           /\ \A s \in DOMAIN rcvBuf' : rcvBuf'[s] \in {Skip} \cup (0 .. (MaxWrites - 1))
           /\ ready' \in Seq(0 .. (MaxWrites - 1)) /\ delivered' \in Seq(0 .. (MaxWrites - 1))
           /\ discarded' \subseteq 0 .. (MaxWrites - 1) /\ gaveUp' \subseteq 0 .. (MaxWrites - 1)
           /\ due' \in 0 .. written'
           /\ ReceiverInv' /\ StreamInv' /\ NoSilentGap' /\ GiveUpJustified'
<1> DEFINE T == Taken(buf, hz)
           gap == Span(rcvNext, rcvNext') \ T
           ps == Payloads(buf, T)
<1>1. /\ TypeOK /\ SenderInv /\ ReceiverInv /\ StreamInv /\ GiveUpJustified BY DEF LinkInv
<1>2. /\ SndBase \in 0 .. written /\ SndBase' = SndBase /\ written \in 0 .. MaxWrites
      /\ due \in 0 .. written /\ MaxWrites \in Nat /\ hz \in Int /\ due \in Int /\ due <= hz
  BY <1>1, BaseIs, LinkAssumption DEF TypeOK, SndBase
<1>3. /\ rcvNext \in SeqNum /\ Idx(rcvNext) \in Int /\ 0 <= Idx(rcvNext)
      /\ mx \in SeqNum /\ Idx(mx) \in Int /\ Idx(rcvNext) <= Idx(mx) + 1
      /\ -1 <= Idx(mx) /\ Idx(mx) < MaxWrites /\ Idx(mx) < written
  <2>1. rcvNext \in SeqNum /\ rcvMax \in SeqNum /\ mx \in SeqNum BY <1>1 DEF TypeOK, WindowOK
  <2>2. Idx(rcvNext) \in Int /\ Idx(rcvMax) \in Int /\ Idx(mx) \in Int BY <2>1, IdxType
  <2>3. /\ 0 <= Idx(rcvNext) /\ Idx(rcvNext) <= Idx(rcvMax) + 1 /\ -1 <= Idx(rcvMax)
        /\ Idx(rcvMax) <= Idx(mx) /\ Idx(mx) < written
    BY <1>1 DEF ReceiverInv, WindowOK
  <2> QED BY <1>2, <2>1, <2>2, <2>3
<1>4. \A s \in DOMAIN buf :
        /\ s \in SeqNum /\ Idx(s) \in Int /\ Idx(rcvNext) <= Idx(s) /\ Idx(s) <= Idx(mx)
        /\ seqDiff(rcvNext, s) = Idx(s) - Idx(rcvNext)
        /\ buf[s] = Skip => Idx(s) < SndBase
        /\ buf[s] # Skip => buf[s] = Idx(s)
  <2> TAKE s \in DOMAIN buf
  <2>1. /\ s \in SeqNum /\ Idx(rcvNext) <= Idx(s) /\ Idx(s) <= Idx(mx)
        /\ buf[s] = Skip => Idx(s) < SndBase
        /\ buf[s] # Skip => buf[s] = Idx(s)
    BY DEF WindowOK
  <2>2. Idx(s) \in Int BY <2>1, IdxType
  <2>3. seqDiff(rcvNext, s) = Idx(s) - Idx(rcvNext)
    BY <1>3, <2>1, <2>2, <1>2, IdxDiff
  <2> QED BY <2>1, <2>2, <2>3
<1>5. T \subseteq DOMAIN buf BY DEF Taken
<1>6. \A s \in DOMAIN buf, t \in T : Idx(s) <= Idx(t) => s \in T
  BY <1>3, <1>4 DEF Taken
<1>7. \A t \in T : Playable(buf, t, hz) BY <1>3, <1>4 DEF Taken
<1>8. /\ \/ T = {} /\ rcvNext' = rcvNext
         \/ \E last \in T : /\ \A u \in T : seqDiff(u, last) >= 0
                            /\ rcvNext' = seqNext(last)
      /\ rcvBuf' = [s \in DOMAIN buf \ T |-> buf[s]]
      /\ loss' = los \ gap
      /\ gaveUp' = gaveUp \cup {Idx(s) : s \in gap}
      /\ Enqueue(ps)
  BY DEF deliver
<1> HIDE DEF T
<1>9. /\ rcvNext' \in SeqNum /\ Idx(rcvNext') \in Int
      /\ Idx(rcvNext) <= Idx(rcvNext') /\ Idx(rcvNext') <= Idx(mx) + 1
      /\ \A t \in T : Idx(t) < Idx(rcvNext')
      /\ \A s \in DOMAIN buf \ T : Idx(rcvNext') <= Idx(s)
      /\ \A s \in SeqNum \ T : Idx(s) < Idx(rcvNext') /\ Idx(rcvNext) <= Idx(s)
                             => Idx(s) < hz \/ Idx(s) < SndBase
  <2>1. CASE T = {} /\ rcvNext' = rcvNext
    BY <1>3, <1>4, <2>1, IdxType
  <2>2. ASSUME NEW last \in T, \A u \in T : seqDiff(u, last) >= 0, rcvNext' = seqNext(last)
        PROVE  <1>9!:
    <3>1. /\ last \in SeqNum /\ Idx(last) \in Int /\ Idx(rcvNext) <= Idx(last)
          /\ Idx(last) <= Idx(mx)
      BY <1>4, <1>5
    <3>2. rcvNext' \in SeqNum /\ Idx(rcvNext') = Idx(last) + 1
      <4>1. -1 <= Idx(last) /\ Idx(last) < MaxWrites BY <1>2, <1>3, <3>1
      <4> QED BY <2>2, <3>1, <4>1, IdxNext
    <3>3. \A u \in T : Idx(u) <= Idx(last)
      <4> TAKE u \in T
      <4>1. /\ u \in SeqNum /\ Idx(u) \in Int /\ Idx(rcvNext) <= Idx(u) /\ Idx(u) <= Idx(mx)
        BY <1>4, <1>5
      <4>2. /\ -1 <= Idx(u) /\ Idx(u) <= MaxWrites /\ -1 <= Idx(last) /\ Idx(last) <= MaxWrites
        BY <1>2, <1>3, <3>1, <4>1
      <4>3. seqDiff(u, last) = Idx(last) - Idx(u) BY <3>1, <4>1, <4>2, IdxDiff
      <4> QED BY <2>2, <3>1, <4>1, <4>3
    <3>4. \A s \in DOMAIN buf \ T : Idx(rcvNext') <= Idx(s)
      BY <1>4, <1>6, <3>1, <3>2
    <3>5. Idx(last) < hz \/ Idx(last) < SndBase
      BY <1>4, <1>5, <1>7 DEF Playable
    <3>6. ASSUME NEW s \in SeqNum \ T, Idx(s) < Idx(rcvNext')
          PROVE  Idx(s) < hz \/ Idx(s) < SndBase
      <4>1. Idx(s) \in Int BY IdxType
      <4>2. Idx(s) <= Idx(last) BY <3>1, <3>2, <3>6, <4>1
      <4> QED BY <1>2, <3>1, <3>5, <4>1, <4>2
    <3>7. \A t \in T : Idx(t) < Idx(rcvNext')
      BY <1>4, <1>5, <3>1, <3>2, <3>3
    <3> QED BY <1>3, <3>1, <3>2, <3>4, <3>6, <3>7
  <2> QED BY <1>8, <2>1, <2>2
<1>10. \A s \in SeqNum : s \in Span(rcvNext, rcvNext') <=> Idx(rcvNext) <= Idx(s) /\ Idx(s) < Idx(rcvNext')
  <2>1. /\ 0 <= Idx(rcvNext) /\ Idx(rcvNext) <= MaxWrites
        /\ 0 <= Idx(rcvNext') /\ Idx(rcvNext') <= MaxWrites
    BY <1>2, <1>3, <1>9
  <2> QED BY <1>3, <1>9, <2>1, SpanIdx
<1>11. \A s \in gap : /\ s \in SeqNum \ T /\ Idx(s) \in Int
                      /\ Idx(rcvNext) <= Idx(s) /\ Idx(s) < Idx(rcvNext')
  <2>1. gap \subseteq SeqNum BY DEF Span
  <2> QED BY <1>10, <2>1, IdxType
<1>12. \A p \in ps : \E s \in T : p = Idx(s)
  BY <1>4, <1>5 DEF Payloads
<1>13. ps \in SUBSET (0 .. (MaxWrites - 1)) /\ \A p \in ps : Idx(rcvNext) <= p /\ p < Idx(rcvNext')
  <2> SUFFICES ASSUME NEW p \in ps
               PROVE  p \in 0 .. (MaxWrites - 1) /\ Idx(rcvNext) <= p /\ p < Idx(rcvNext')
    OBVIOUS
  <2>1. PICK s \in T : p = Idx(s) BY <1>12
  <2>2. Idx(s) \in Int /\ Idx(rcvNext) <= Idx(s) /\ Idx(s) <= Idx(mx) /\ Idx(s) < Idx(rcvNext')
    BY <1>4, <1>5, <1>9
  <2> QED BY <1>2, <1>3, <2>1, <2>2
<1>14. /\ ready' \in Seq(0 .. (MaxWrites - 1)) /\ delivered' \in Seq(0 .. (MaxWrites - 1))
       /\ discarded' \subseteq 0 .. (MaxWrites - 1)
       /\ InOrder' /\ \A i \in DOMAIN delivered' : delivered'[i] < Idx(rcvNext')
  <2> HIDE DEF ps
  <2> QED BY <1>1, <1>8, <1>9, <1>13, EnqueueInv
<1>15. StreamInv' BY <1>14 DEF StreamInv
<1>16. \A s \in gap : Idx(s) \in 0 .. (MaxWrites - 1)
  BY <1>2, <1>3, <1>9, <1>11
<1>17. gaveUp' \subseteq 0 .. (MaxWrites - 1)
  BY <1>1, <1>8, <1>16 DEF TypeOK
<1>18. GiveUpJustified'
  <2> SUFFICES ASSUME NEW p \in gaveUp' PROVE p < hz \/ p < SndBase
    BY <1>2 DEF GiveUpJustified
  <2>1. CASE p \in gaveUp
    <3>1. p \in Int BY <1>1, <1>2, <2>1 DEF TypeOK
    <3>2. p < due \/ p < SndBase BY <1>1, <2>1 DEF GiveUpJustified
    <3> QED BY <1>2, <3>1, <3>2
  <2>2. CASE \E s \in gap : p = Idx(s)
    BY <1>9, <1>11, <2>2
  <2> QED BY <1>8, <2>1, <2>2
<1>19. /\ DOMAIN rcvBuf' = DOMAIN buf \ T
       /\ \A s \in DOMAIN buf \ T : rcvBuf'[s] = buf[s]
  BY <1>8
<1>20. /\ DOMAIN rcvBuf' \subseteq SeqNum
       /\ \A s \in DOMAIN rcvBuf' : rcvBuf'[s] \in {Skip} \cup (0 .. (MaxWrites - 1))
  BY <1>19 DEF WindowOK
<1>21. loss' \subseteq los BY <1>8
<1>22. ReceiverInv'
  <2>1. \A s \in DOMAIN rcvBuf' : /\ Idx(rcvNext') <= Idx(s) /\ Idx(s) <= Idx(mx)
                                  /\ rcvBuf'[s] = Skip => Idx(s) < SndBase
                                  /\ rcvBuf'[s] # Skip => rcvBuf'[s] = Idx(s)
    BY <1>4, <1>9, <1>19
  <2>2. \A s \in loss' : 0 <= Idx(s) /\ Idx(s) <= Idx(mx) BY <1>21 DEF WindowOK
  <2>3. 0 <= Idx(rcvNext') BY <1>3, <1>9
  <2> QED BY <1>2, <1>3, <1>9, <2>1, <2>2, <2>3 DEF ReceiverInv
<1>23. NoSilentGap'
  <2> SUFFICES ASSUME Alive(rcvState)
               PROVE  /\ Span(rcvNext', seqNext(mx)) = DOMAIN rcvBuf' \cup loss'
                      /\ DOMAIN rcvBuf' \cap loss' = {}
    BY DEF NoSilentGap
  <2>1. /\ Span(rcvNext, seqNext(mx)) = DOMAIN buf \cup los /\ DOMAIN buf \cap los = {}
        /\ los \subseteq SeqNum
    BY DEF WindowOK
  <2>2. seqNext(mx) \in SeqNum /\ Idx(seqNext(mx)) = Idx(mx) + 1
    BY <1>3, IdxNext
  <2>3. /\ 0 <= Idx(rcvNext) /\ Idx(rcvNext) <= MaxWrites
        /\ 0 <= Idx(rcvNext') /\ Idx(rcvNext') <= MaxWrites
        /\ 0 <= Idx(seqNext(mx)) /\ Idx(seqNext(mx)) <= MaxWrites
    BY <1>2, <1>3, <1>9, <2>2
  <2>4. \A s \in SeqNum : s \in Span(rcvNext, seqNext(mx))
                          <=> Idx(rcvNext) <= Idx(s) /\ Idx(s) < Idx(seqNext(mx))
    BY <1>3, <2>2, <2>3, SpanIdx
  <2>5. \A s \in SeqNum : s \in Span(rcvNext', seqNext(mx))
                          <=> Idx(rcvNext') <= Idx(s) /\ Idx(s) < Idx(seqNext(mx))
    BY <1>9, <2>2, <2>3, SpanIdx
  <2>6. \A s \in SeqNum : s \in gap <=> s \notin T /\ Idx(rcvNext) <= Idx(s) /\ Idx(s) < Idx(rcvNext')
    BY <1>10
  <2>7. ASSUME NEW s \in SeqNum
        PROVE  s \in Span(rcvNext', seqNext(mx)) <=> s \in DOMAIN rcvBuf' \cup loss'
    <3>1. Idx(s) \in Int BY IdxType
    <3>2. s \in DOMAIN rcvBuf' <=> s \in DOMAIN buf /\ s \notin T BY <1>19
    <3>3. s \in loss' <=> s \in los /\ s \notin gap BY <1>8
    <3>4. s \in Span(rcvNext, seqNext(mx)) <=> s \in DOMAIN buf \/ s \in los BY <2>1
    <3>5. s \in los => s \notin DOMAIN buf BY <2>1
    <3> HIDE DEF gap
    <3> QED BY <1>3, <1>5, <1>9, <2>4, <2>5, <2>6, <3>1, <3>2, <3>3, <3>4, <3>5
  <2>8. Span(rcvNext', seqNext(mx)) \subseteq SeqNum BY DEF Span
  <2>9. DOMAIN rcvBuf' \cup loss' \subseteq SeqNum BY <1>20, <1>21, <2>1
  <2>10. DOMAIN rcvBuf' \cap loss' = {} BY <1>19, <1>21, <2>1
  <2> QED BY <2>7, <2>8, <2>9, <2>10
<1>24. due' \in 0 .. written' BY <1>2
<1> QED BY <1>9, <1>14, <1>15, <1>17, <1>18, <1>20, <1>21, <1>22, <1>23, <1>24

\* A NAK names only numbers of the list it reports (sendNAK, encodeLossList).
LEMMA NakRuns ==
    ASSUME NEW S, S \subseteq SeqNum, NEW n, NEW top \in Int, top < MaxWrites,
           \A s \in S : 0 <= Idx(s) /\ Idx(s) <= top,
           NEW r \in nakPackets(S, n), NEW run \in r
    PROVE  /\ run \in SeqNum \X SeqNum
           /\ 0 <= Idx(run[1]) /\ Idx(run[1]) <= Idx(run[2]) /\ Idx(run[2]) <= top
<1>1. PICK k : r = encodeLossList({s \in S : (Rank(S, s) - 1) \div n = k}) BY DEF nakPackets
<1> DEFINE C == {s \in S : (Rank(S, s) - 1) \div n = k}
<1>2. C \subseteq S OBVIOUS
<1> HIDE DEF C
<1>3. run \in C \X C /\ 0 <= seqDiff(run[1], run[2]) BY <1>1 DEF encodeLossList, C
<1>4. run[1] \in S /\ run[2] \in S /\ run = <<run[1], run[2]>> BY <1>2, <1>3
<1>5. /\ run[1] \in SeqNum /\ run[2] \in SeqNum /\ Idx(run[1]) \in Int /\ Idx(run[2]) \in Int
      /\ 0 <= Idx(run[1]) /\ Idx(run[1]) <= top /\ 0 <= Idx(run[2]) /\ Idx(run[2]) <= top
  BY <1>4, IdxType
<1>6. /\ -1 <= Idx(run[1]) /\ Idx(run[1]) <= MaxWrites
      /\ -1 <= Idx(run[2]) /\ Idx(run[2]) <= MaxWrites
  BY <1>5, LinkAssumption
<1>7. seqDiff(run[1], run[2]) = Idx(run[2]) - Idx(run[1]) BY <1>5, <1>6, IdxDiff
<1>8. Idx(run[1]) <= Idx(run[2]) BY <1>3, <1>5, <1>7
<1>9. run \in SeqNum \X SeqNum BY <1>4, <1>5
<1> QED BY <1>5, <1>8, <1>9

\* The loss reports that sendNAK cuts a loss set into are sequence-number runs.
LEMMA NakTyped ==
    ASSUME NEW S, S \subseteq SeqNum, NEW n
    PROVE  nakPackets(S, n) \subseteq SUBSET (SeqNum \X SeqNum)
BY DEF nakPackets, encodeLossList

\* handleData stores a packet that fits, records the numbers it reveals as
\* lost, and plays what is due: the invariant survives.
LEMMA handleDataInv == ASSUME LinkInv, NEW m \in dataNet, handleData(m) PROVE LinkInv'
<1> DEFINE new == Revealed(m)
           buf == [s \in DOMAIN rcvBuf \cup {m.seq} |-> IF s = m.seq THEN m.pay ELSE rcvBuf[s]]
           los == (loss \ {m.seq}) \cup new
           mx == IF seqLess(rcvMax, m.seq) THEN m.seq ELSE rcvMax
<1>1. /\ TypeOK /\ SenderInv /\ ReceiverInv /\ NetworkInv /\ NoSilentGap /\ AckCoversNoLoss
  BY DEF LinkInv
<1>2. /\ Fits(m) /\ rcvMax' = mx
      /\ nakNet' = nakNet \cup nakPackets(new, MaxLossPerNak)
      /\ UNCHANGED <<sndVars, rcvState, ackNet, dropNet, finNet, lost>>
      /\ dataNet' \subseteq dataNet
  BY DEF handleData, Rest
<1>3. PICK hz \in due .. written : due' = hz /\ deliver(buf, los, hz)
  BY DEF handleData
<1>4. UNCHANGED <<nextSeq, written, sndBuf, sndState, old, sndDropped, fin>> /\ SndBase' = SndBase
  BY <1>2 DEF sndVars, SndBase
<1>5. /\ m.seq \in SeqNum /\ m.pay \in 0 .. (MaxWrites - 1) /\ m.pay < written
      /\ Idx(m.seq) = m.pay /\ m.seq \notin DOMAIN rcvBuf /\ Alive(rcvState)
      /\ 0 <= seqDiff(rcvNext, m.seq)
  BY <1>1, <1>2 DEF TypeOK, Packet, NetworkInv, Fits, Alive
<1>6. /\ MaxWrites \in Nat /\ written \in 0 .. MaxWrites /\ SndBase \in 0 .. written
  BY <1>1, BaseIs, LinkAssumption DEF TypeOK
<1>7. /\ rcvNext \in SeqNum /\ rcvMax \in SeqNum /\ Idx(rcvNext) \in Int /\ Idx(rcvMax) \in Int
      /\ Idx(m.seq) \in Int /\ 0 <= Idx(rcvNext) /\ Idx(rcvNext) <= Idx(rcvMax) + 1
      /\ -1 <= Idx(rcvMax) /\ Idx(rcvMax) < written /\ Idx(rcvNext) <= Idx(m.seq)
  <2>1. /\ rcvNext \in SeqNum /\ rcvMax \in SeqNum /\ Idx(rcvNext) \in Int /\ Idx(rcvMax) \in Int
        /\ Idx(m.seq) \in Int
    BY <1>1, <1>5, IdxType DEF TypeOK
  <2>2. /\ 0 <= Idx(rcvNext) /\ Idx(rcvNext) <= Idx(rcvMax) + 1
        /\ -1 <= Idx(rcvMax) /\ Idx(rcvMax) < written
    BY <1>1 DEF ReceiverInv
  <2>3. /\ -1 <= Idx(rcvNext) /\ Idx(rcvNext) <= MaxWrites
        /\ -1 <= Idx(m.seq) /\ Idx(m.seq) <= MaxWrites
    BY <1>5, <1>6, <2>1, <2>2
  <2>4. seqDiff(rcvNext, m.seq) = Idx(m.seq) - Idx(rcvNext) BY <1>5, <2>1, <2>3, IdxDiff
  <2> QED BY <1>5, <2>1, <2>2, <2>4
<1>8. seqDiff(rcvMax, m.seq) = Idx(m.seq) - Idx(rcvMax)
  <2>1. /\ -1 <= Idx(rcvMax) /\ Idx(rcvMax) <= MaxWrites
        /\ -1 <= Idx(m.seq) /\ Idx(m.seq) <= MaxWrites
    BY <1>5, <1>6, <1>7
  <2> QED BY <1>5, <1>7, <2>1, IdxDiff
<1>9. /\ mx \in SeqNum /\ Idx(mx) \in Int /\ Idx(rcvMax) <= Idx(mx) /\ Idx(m.seq) <= Idx(mx)
      /\ Idx(mx) < written /\ Idx(mx) < MaxWrites /\ -1 <= Idx(mx)
      /\ mx = rcvMax \/ mx = m.seq
  BY <1>5, <1>6, <1>7, <1>8 DEF seqLess
<1>10. seqNext(rcvMax) \in SeqNum /\ Idx(seqNext(rcvMax)) = Idx(rcvMax) + 1
       /\ seqNext(mx) \in SeqNum /\ Idx(seqNext(mx)) = Idx(mx) + 1
  <2>1. Idx(rcvMax) < MaxWrites BY <1>6, <1>7
  <2> HIDE DEF mx
  <2> QED BY <1>7, <1>9, <2>1, IdxNext
<1>11. \A s \in SeqNum : s \in new <=> Idx(rcvMax) < Idx(s) /\ Idx(s) < Idx(m.seq)
  <2> SUFFICES ASSUME NEW s \in SeqNum
               PROVE  s \in new <=> Idx(rcvMax) < Idx(s) /\ Idx(s) < Idx(m.seq)
    OBVIOUS
  <2>1. Idx(s) \in Int BY IdxType
  <2>2. /\ 0 <= Idx(seqNext(rcvMax)) /\ Idx(seqNext(rcvMax)) <= MaxWrites
        /\ 0 <= Idx(m.seq) /\ Idx(m.seq) <= MaxWrites
    BY <1>5, <1>6, <1>7, <1>10
  <2>3. s \in Span(seqNext(rcvMax), m.seq)
          <=> Idx(seqNext(rcvMax)) <= Idx(s) /\ Idx(s) < Idx(m.seq)
    BY <1>5, <1>10, <2>2, SpanIdx
  <2>4. seqLess(rcvMax, m.seq) <=> Idx(rcvMax) < Idx(m.seq) BY <1>7, <1>8 DEF seqLess
  <2>5. ASSUME Idx(rcvMax) < Idx(s), Idx(s) < Idx(m.seq)
        PROVE  seqDiff(rcvMax, s) <= MaxLossRange
    <3>1. -1 <= Idx(s) /\ Idx(s) <= MaxWrites /\ -1 <= Idx(rcvMax) /\ Idx(rcvMax) <= MaxWrites
      BY <1>6, <1>7, <2>1, <2>2, <2>5
    <3>2. seqDiff(rcvMax, s) = Idx(s) - Idx(rcvMax) BY <1>7, <3>1, IdxDiff
    <3>3. /\ -1 <= Idx(rcvNext) /\ Idx(rcvNext) <= MaxWrites
          /\ -1 <= Idx(m.seq) /\ Idx(m.seq) <= MaxWrites
      BY <1>6, <1>7, <2>2
    <3>4. seqDiff(rcvNext, m.seq) = Idx(m.seq) - Idx(rcvNext) BY <1>5, <1>7, <3>3, IdxDiff
    <3>5. seqDiff(rcvNext, m.seq) <= MaxRecvWindow BY <1>2 DEF Fits
    <3> QED BY <1>7, <2>1, <2>5, <3>2, <3>4, <3>5, LinkAssumption, SeqAssumption
  <2>6. s \in new <=> s \in Span(seqNext(rcvMax), m.seq) /\ seqLess(rcvMax, m.seq)
                      /\ seqDiff(rcvMax, s) <= MaxLossRange
    BY DEF Revealed
  <2> HIDE DEF new
  <2> QED BY <1>7, <1>10, <2>1, <2>3, <2>4, <2>5, <2>6
<1>12. new \subseteq SeqNum BY DEF Revealed, Span
<1> HIDE DEF new, mx
<1>13. WindowOK(buf, los, mx)
  <2>1. DOMAIN buf = DOMAIN rcvBuf \cup {m.seq} /\ DOMAIN buf \subseteq SeqNum
    BY <1>1, <1>5 DEF TypeOK
  <2>2. \A s \in DOMAIN buf : /\ buf[s] \in {Skip} \cup (0 .. (MaxWrites - 1))
                              /\ Idx(rcvNext) <= Idx(s) /\ Idx(s) <= Idx(mx)
                              /\ buf[s] = Skip => Idx(s) < SndBase
                              /\ buf[s] # Skip => buf[s] = Idx(s)
    <3> TAKE s \in DOMAIN buf
    <3>1. CASE s = m.seq
      <4>1. buf[s] = m.pay BY <2>1, <3>1
      <4>2. m.pay # Skip BY <1>5, <1>6 DEF Skip
      <4> QED BY <1>5, <1>7, <1>9, <3>1, <4>1, <4>2
    <3>2. CASE s # m.seq
      <4>1. s \in DOMAIN rcvBuf /\ buf[s] = rcvBuf[s] /\ Idx(s) \in Int BY <2>1, <3>2, IdxType
      <4>2. /\ rcvBuf[s] \in {Skip} \cup (0 .. (MaxWrites - 1))
            /\ Idx(rcvNext) <= Idx(s) /\ Idx(s) <= Idx(rcvMax)
            /\ rcvBuf[s] = Skip => Idx(s) < SndBase
            /\ rcvBuf[s] # Skip => rcvBuf[s] = Idx(s)
        BY <1>1, <4>1 DEF TypeOK, ReceiverInv
      <4> QED BY <1>7, <1>9, <4>1, <4>2
    <3> QED BY <3>1, <3>2
  <2> HIDE DEF buf
  <2>3. los \subseteq SeqNum /\ \A s \in los : 0 <= Idx(s) /\ Idx(s) <= Idx(mx)
    <3>1. los \subseteq SeqNum BY <1>1, <1>12 DEF TypeOK
    <3>2. ASSUME NEW s \in los PROVE 0 <= Idx(s) /\ Idx(s) <= Idx(mx)
      <4>1. s \in SeqNum /\ Idx(s) \in Int BY <3>1, IdxType
      <4>2. CASE s \in loss BY <1>1, <1>7, <1>9, <4>1, <4>2 DEF ReceiverInv
      <4>3. CASE s \in new BY <1>7, <1>9, <1>11, <4>1, <4>3
      <4> QED BY <4>2, <4>3
    <3> QED BY <3>1, <3>2
  <2>4. Span(rcvNext, seqNext(mx)) = DOMAIN buf \cup los /\ DOMAIN buf \cap los = {}
    <3>1. /\ 0 <= Idx(rcvNext) /\ Idx(rcvNext) <= MaxWrites
          /\ 0 <= Idx(seqNext(mx)) /\ Idx(seqNext(mx)) <= MaxWrites
          /\ 0 <= Idx(seqNext(rcvMax)) /\ Idx(seqNext(rcvMax)) <= MaxWrites
      BY <1>6, <1>7, <1>9, <1>10
    <3>2. \A s \in SeqNum : s \in Span(rcvNext, seqNext(mx))
                            <=> Idx(rcvNext) <= Idx(s) /\ Idx(s) < Idx(seqNext(mx))
      BY <1>7, <1>10, <3>1, SpanIdx
    <3>3. \A s \in SeqNum : s \in Span(rcvNext, seqNext(rcvMax))
                            <=> Idx(rcvNext) <= Idx(s) /\ Idx(s) < Idx(seqNext(rcvMax))
      BY <1>7, <1>10, <3>1, SpanIdx
    <3>4. Span(rcvNext, seqNext(rcvMax)) = DOMAIN rcvBuf \cup loss /\ DOMAIN rcvBuf \cap loss = {}
      BY <1>1, <1>5 DEF NoSilentGap
    <3>5. ASSUME NEW s \in SeqNum
          PROVE  /\ s \in Span(rcvNext, seqNext(mx)) <=> s \in DOMAIN buf \/ s \in los
                 /\ ~(s \in DOMAIN buf /\ s \in los)
      <4>1. Idx(s) \in Int BY IdxType
      <4>2. s \in DOMAIN buf <=> s \in DOMAIN rcvBuf \/ s = m.seq BY <2>1
      <4>3. s \in los <=> (s \in loss /\ s # m.seq) \/ s \in new OBVIOUS
      <4>4. s \in Span(rcvNext, seqNext(rcvMax)) <=> s \in DOMAIN rcvBuf \/ s \in loss BY <3>4
      <4>5. ~(s \in DOMAIN rcvBuf /\ s \in loss) BY <3>4
      <4>6. s = m.seq <=> Idx(s) = Idx(m.seq) BY <1>5, IdxInjective
      <4>7. Idx(mx) = Idx(rcvMax) \/ Idx(mx) = Idx(m.seq) BY <1>9
      <4>8. s \in new <=> Idx(rcvMax) < Idx(s) /\ Idx(s) < Idx(m.seq) BY <1>11
      <4> HIDE DEF los
      <4> QED BY <1>7, <1>9, <1>10, <3>2, <3>3, <4>1, <4>2, <4>3, <4>4, <4>5, <4>6, <4>7, <4>8
    <3>6. Span(rcvNext, seqNext(mx)) \subseteq SeqNum BY DEF Span
    <3> QED BY <2>1, <2>3, <3>5, <3>6
  <2> QED BY <1>9, <2>1, <2>2, <2>3, <2>4 DEF WindowOK
<1> HIDE DEF buf
<1>14. /\ rcvNext' \in SeqNum /\ loss' \subseteq los
       /\ DOMAIN rcvBuf' \subseteq SeqNum
       /\ \A s \in DOMAIN rcvBuf' : rcvBuf'[s] \in {Skip} \cup (0 .. (MaxWrites - 1))
       /\ ready' \in Seq(0 .. (MaxWrites - 1)) /\ delivered' \in Seq(0 .. (MaxWrites - 1))
       /\ discarded' \subseteq 0 .. (MaxWrites - 1) /\ gaveUp' \subseteq 0 .. (MaxWrites - 1)
       /\ due' \in 0 .. written'
       /\ ReceiverInv' /\ StreamInv' /\ NoSilentGap' /\ GiveUpJustified'
  <2> HIDE DEF los
  <2> QED BY <1>2, <1>3, <1>4, <1>13, DeliverInv
<1>15. TypeOK'
  <2>1. nakNet' \subseteq SUBSET (SeqNum \X SeqNum) BY <1>1, <1>2, <1>12, NakTyped DEF TypeOK
  <2>2. loss' \subseteq SeqNum BY <1>1, <1>12, <1>14 DEF TypeOK
  <2>3. rcvMax' \in SeqNum BY <1>2, <1>9
  <2> QED BY <1>1, <1>2, <1>4, <1>14, <2>1, <2>2, <2>3 DEF TypeOK
<1>16. SenderInv' BY <1>1, <1>4 DEF SenderInv
<1>17. NetworkInv'
  <2>1. \A p \in dataNet' : p.pay < written' /\ Idx(p.seq) = p.pay
    BY <1>1, <1>2, <1>4 DEF NetworkInv
  <2>2. \A a \in ackNet' : 0 <= Idx(a) /\ Idx(a) <= Idx(mx) + 1
    <3>1. \A a \in ackNet : Idx(a) \in Int BY <1>1, IdxType DEF TypeOK
    <3> QED BY <1>1, <1>2, <1>7, <1>9, <3>1 DEF NetworkInv
  <2>3. ASSUME NEW r \in nakNet', NEW run \in r
        PROVE  0 <= Idx(run[1]) /\ Idx(run[1]) <= Idx(run[2]) /\ Idx(run[2]) <= Idx(mx)
    <3>1. CASE r \in nakNet
      <4>1. 0 <= Idx(run[1]) /\ Idx(run[1]) <= Idx(run[2]) /\ Idx(run[2]) <= Idx(rcvMax)
        BY <1>1, <3>1 DEF NetworkInv
      <4>2. run \in SeqNum \X SeqNum BY <1>1, <3>1 DEF TypeOK
      <4>3. Idx(run[2]) \in Int BY <4>2, IdxType
      <4> QED BY <1>7, <1>9, <4>1, <4>3
    <3>2. CASE r \in nakPackets(new, MaxLossPerNak)
      <4>1. \A s \in new : 0 <= Idx(s) /\ Idx(s) <= Idx(mx)
        BY <1>7, <1>9, <1>11, <1>12, IdxType
      <4> QED BY <1>9, <1>12, <3>2, <4>1, NakRuns
    <3> QED BY <1>2, <3>1, <3>2
  <2>4. \A run \in dropNet' : /\ 0 <= Idx(run[1]) /\ Idx(run[1]) <= Idx(run[2])
                              /\ Idx(run[2]) <= Idx(mx) /\ Idx(run[2]) < SndBase
    <3>1. \A run \in dropNet : Idx(run[2]) \in Int BY <1>1, IdxType DEF TypeOK
    <3> QED BY <1>1, <1>2, <1>7, <1>9, <3>1 DEF NetworkInv
  <2> QED BY <1>2, <1>4, <2>1, <2>2, <2>3, <2>4 DEF NetworkInv
<1>18. AckCoversNoLoss'
  <2> SUFFICES ASSUME NEW a \in ackNet, NEW s \in los PROVE Idx(a) <= Idx(s)
    BY <1>2, <1>14 DEF AckCoversNoLoss
  <2>1. a \in SeqNum /\ s \in SeqNum /\ Idx(a) \in Int /\ Idx(s) \in Int
    BY <1>1, <1>12, IdxType DEF TypeOK
  <2>2. CASE s \in loss BY <1>1, <1>5, <2>2 DEF AckCoversNoLoss
  <2>3. CASE s \in new
    <3>1. Idx(a) <= Idx(rcvMax) + 1 BY <1>1 DEF NetworkInv
    <3> QED BY <1>7, <1>11, <2>1, <2>3, <3>1
  <2> QED BY <2>2, <2>3
<1> QED BY <1>14, <1>15, <1>16, <1>17, <1>18 DEF LinkInv

\* sendACK stops at the first number that is not there, so it never passes
\* rcvMax and, on a window without silent gaps, never passes a loss.
LEMMA AckPointBound ==
    ASSUME NEW next \in SeqNum, NEW max \in SeqNum, NEW a \in SeqNum, NEW buf, NEW los,
           0 <= Idx(next), Idx(next) <= Idx(max) + 1, Idx(max) < MaxWrites,
           \A s \in DOMAIN buf : s \in SeqNum /\ Idx(s) <= Idx(max),
           AckPoint(next, max, buf, a)
    PROVE  /\ 0 <= Idx(a) /\ Idx(a) <= Idx(max) + 1
           /\ \A s \in SeqNum \ DOMAIN buf : Idx(next) <= Idx(s) => Idx(a) <= Idx(s)
<1>1. /\ Idx(next) \in Int /\ Idx(max) \in Int /\ Idx(a) \in Int /\ MaxWrites \in Nat
      /\ seqDiff(next, a) \in Int
  BY IdxType, DiffType, LinkAssumption, SeqAssumption
<1>2. /\ seqDiff(next, a) >= 0 /\ Span(next, a) \subseteq DOMAIN buf BY DEF AckPoint
<1>3. seqNext(max) \in SeqNum /\ Idx(seqNext(max)) = Idx(max) + 1
  <2>1. -1 <= Idx(max) BY <1>1
  <2> QED BY <2>1, IdxNext
<1>4. seqDiff(next, seqNext(max)) = Idx(max) + 1 - Idx(next)
  <2>1. /\ -1 <= Idx(next) /\ Idx(next) <= MaxWrites
        /\ -1 <= Idx(seqNext(max)) /\ Idx(seqNext(max)) <= MaxWrites
    BY <1>1, <1>3
  <2>2. seqDiff(next, seqNext(max)) = Idx(seqNext(max)) - Idx(next) BY <1>3, <2>1, IdxDiff
  <2> QED BY <1>1, <1>3, <2>2
<1>5. seqNext(max) \notin DOMAIN buf BY <1>1, <1>3
<1>6. seqDiff(next, a) <= Idx(max) + 1 - Idx(next)
  <2> SUFFICES ASSUME ~(seqDiff(next, a) <= Idx(max) + 1 - Idx(next)) PROVE FALSE
    OBVIOUS
  <2>1. /\ 0 <= seqDiff(next, seqNext(max)) /\ seqDiff(next, seqNext(max)) < seqDiff(next, a)
    BY <1>1, <1>4
  <2>2. seqNext(max) \in Span(next, a) BY <1>3, <2>1 DEF Span
  <2> QED BY <1>2, <1>5, <2>2
<1>7. Idx(a) = Idx(next) + seqDiff(next, a)
  <2>1. /\ -1 <= Idx(next) /\ Idx(next) <= MaxWrites /\ Idx(next) + seqDiff(next, a) <= MaxWrites
    BY <1>1, <1>6
  <2> QED BY <1>2, <2>1, IdxReach
<1>8. 0 <= Idx(a) /\ Idx(a) <= Idx(max) + 1 BY <1>1, <1>2, <1>6, <1>7
<1>9. ASSUME NEW s \in SeqNum \ DOMAIN buf, Idx(next) <= Idx(s) PROVE Idx(a) <= Idx(s)
  <2>1. Idx(s) \in Int BY IdxType
  <2>2. /\ 0 <= Idx(next) /\ Idx(next) <= MaxWrites /\ 0 <= Idx(a) /\ Idx(a) <= MaxWrites
    BY <1>1, <1>8
  <2>3. s \in Span(next, a) <=> Idx(next) <= Idx(s) /\ Idx(s) < Idx(a) BY <2>2, SpanIdx
  <2> QED BY <1>1, <1>2, <1>9, <2>1, <2>3
<1> QED BY <1>8, <1>9

\* The receiver's tick plays what is due, acknowledges and repeats loss
\* reports: the invariant survives.
LEMMA ReceiverTickInv ==
    ASSUME LinkInv, NEW hz, NEW ackDue, NEW late, ReceiverTick(hz, ackDue, late)
    PROVE  LinkInv'
<1>1. /\ TypeOK /\ SenderInv /\ ReceiverInv /\ NetworkInv /\ NoSilentGap /\ AckCoversNoLoss
  BY DEF LinkInv
<1>2. /\ hz \in due .. written /\ due' = hz /\ deliver(rcvBuf, loss, hz)
      /\ UNCHANGED <<sndVars, rcvMax, rcvState, dataNet, dropNet, finNet, lost>>
  BY DEF ReceiverTick
<1>3. PICK a \in SeqNum : /\ AckPoint(rcvNext', rcvMax, rcvBuf', a)
                          /\ ackNet' = IF ackDue THEN ackNet \cup {a} ELSE ackNet
  BY DEF ReceiverTick
<1>4. PICK report \in SUBSET loss' : nakNet' = nakNet \cup nakPackets(report, MaxLossPerNak)
  <2> DEFINE report == {s \in late : Rank(late, s) <= MaxLossPerNak}
  <2>1. report \subseteq loss' /\ nakNet' = nakNet \cup nakPackets(report, MaxLossPerNak)
    BY DEF ReceiverTick
  <2> QED BY <2>1
<1>5. UNCHANGED <<nextSeq, written, sndBuf, sndState, old, sndDropped, fin>> /\ SndBase' = SndBase
  BY <1>2 DEF sndVars, SndBase
<1>6. WindowOK(rcvBuf, loss, rcvMax)
  <2>1. Idx(rcvMax) \in Int BY <1>1, IdxType DEF TypeOK
  <2> QED BY <1>1, <2>1 DEF WindowOK, TypeOK, ReceiverInv, NoSilentGap
<1>7. /\ rcvNext' \in SeqNum /\ loss' \subseteq loss
      /\ DOMAIN rcvBuf' \subseteq SeqNum
      /\ \A s \in DOMAIN rcvBuf' : rcvBuf'[s] \in {Skip} \cup (0 .. (MaxWrites - 1))
      /\ ready' \in Seq(0 .. (MaxWrites - 1)) /\ delivered' \in Seq(0 .. (MaxWrites - 1))
      /\ discarded' \subseteq 0 .. (MaxWrites - 1) /\ gaveUp' \subseteq 0 .. (MaxWrites - 1)
      /\ due' \in 0 .. written'
      /\ ReceiverInv' /\ StreamInv' /\ NoSilentGap' /\ GiveUpJustified'
  BY <1>2, <1>5, <1>6, DeliverInv
<1>8. /\ rcvMax \in SeqNum /\ rcvMax' = rcvMax /\ Idx(rcvMax) \in Int /\ Idx(rcvMax) < written
      /\ Idx(rcvMax) < MaxWrites /\ written \in 0 .. MaxWrites
      /\ 0 <= Idx(rcvNext') /\ Idx(rcvNext') <= Idx(rcvMax) + 1
      /\ \A s \in DOMAIN rcvBuf' : s \in SeqNum /\ Idx(s) <= Idx(rcvMax)
      /\ loss \subseteq SeqNum /\ \A s \in loss' : 0 <= Idx(s) /\ Idx(s) <= Idx(rcvMax)
  <2>1. rcvMax \in SeqNum /\ rcvMax' = rcvMax /\ written \in 0 .. MaxWrites /\ loss \subseteq SeqNum
    BY <1>1, <1>2 DEF TypeOK
  <2>2. Idx(rcvMax) \in Int BY <2>1, IdxType
  <2>3. /\ Idx(rcvMax) < written /\ 0 <= Idx(rcvNext') /\ Idx(rcvNext') <= Idx(rcvMax) + 1
        /\ \A s \in DOMAIN rcvBuf' : s \in SeqNum /\ Idx(s) <= Idx(rcvMax)
        /\ \A s \in loss' : 0 <= Idx(s) /\ Idx(s) <= Idx(rcvMax)
    BY <1>1, <1>7, <2>1 DEF ReceiverInv
  <2> QED BY <2>1, <2>2, <2>3, LinkAssumption
<1>9. /\ 0 <= Idx(a) /\ Idx(a) <= Idx(rcvMax) + 1
      /\ \A s \in SeqNum \ DOMAIN rcvBuf' : Idx(rcvNext') <= Idx(s) => Idx(a) <= Idx(s)
  BY <1>3, <1>7, <1>8, AckPointBound
<1>10. TypeOK'
  <2>1. nakNet' \subseteq SUBSET (SeqNum \X SeqNum)
    <3>1. report \subseteq SeqNum BY <1>4, <1>7, <1>8
    <3> QED BY <1>1, <1>4, <3>1, NakTyped DEF TypeOK
  <2>2. ackNet' \subseteq SeqNum BY <1>1, <1>3 DEF TypeOK
  <2> QED BY <1>1, <1>2, <1>5, <1>7, <1>8, <2>1, <2>2 DEF TypeOK
<1>11. SenderInv' BY <1>1, <1>5 DEF SenderInv
<1>12. NetworkInv'
  <2>1. \A b \in ackNet' : 0 <= Idx(b) /\ Idx(b) <= Idx(rcvMax) + 1
    BY <1>1, <1>3, <1>9 DEF NetworkInv
  <2>2. ASSUME NEW r \in nakNet', NEW run \in r
        PROVE  0 <= Idx(run[1]) /\ Idx(run[1]) <= Idx(run[2]) /\ Idx(run[2]) <= Idx(rcvMax)
    <3>1. CASE r \in nakNet BY <1>1, <3>1 DEF NetworkInv
    <3>2. CASE r \in nakPackets(report, MaxLossPerNak)
      <4>1. report \subseteq SeqNum /\ \A s \in report : 0 <= Idx(s) /\ Idx(s) <= Idx(rcvMax)
        BY <1>4, <1>7, <1>8
      <4> QED BY <1>8, <3>2, <4>1, NakRuns
    <3> QED BY <1>4, <3>1, <3>2
  <2> QED BY <1>1, <1>2, <1>5, <1>8, <2>1, <2>2 DEF NetworkInv
<1>13. AckCoversNoLoss'
  <2> SUFFICES ASSUME Alive(rcvState), NEW b \in ackNet', NEW s \in loss' PROVE Idx(b) <= Idx(s)
    BY <1>2 DEF AckCoversNoLoss
  <2>1. CASE b \in ackNet BY <1>1, <1>7, <2>1 DEF AckCoversNoLoss
  <2>2. CASE b = a
    <3>1. /\ Span(rcvNext', seqNext(rcvMax)) = DOMAIN rcvBuf' \cup loss'
          /\ DOMAIN rcvBuf' \cap loss' = {}
      BY <1>2, <1>7, <1>8 DEF NoSilentGap
    <3>2. s \in SeqNum \ DOMAIN rcvBuf' /\ s \in Span(rcvNext', seqNext(rcvMax))
      BY <1>7, <1>8, <3>1
    <3>3. -1 <= Idx(rcvMax) BY <1>1 DEF ReceiverInv
    <3>4. seqNext(rcvMax) \in SeqNum /\ Idx(seqNext(rcvMax)) = Idx(rcvMax) + 1
      BY <1>8, <3>3, IdxNext
    <3>5. /\ 0 <= Idx(rcvNext') /\ Idx(rcvNext') <= MaxWrites
          /\ 0 <= Idx(seqNext(rcvMax)) /\ Idx(seqNext(rcvMax)) <= MaxWrites
      <4>1. Idx(rcvNext') \in Int /\ MaxWrites \in Nat BY <1>7, IdxType, LinkAssumption
      <4> QED BY <1>8, <3>3, <3>4, <4>1
    <3>6. Idx(rcvNext') <= Idx(s) BY <1>7, <3>2, <3>4, <3>5, SpanIdx
    <3> QED BY <1>9, <2>2, <3>2, <3>6
  <2> QED BY <1>3, <2>1, <2>2
<1> QED BY <1>7, <1>10, <1>11, <1>12, <1>13 DEF LinkInv

\* What a drop request names and the receiver still waits for lies in its
\* window, and the sender no longer holds it (skipRange, handleNAK).
LEMMA DropMarks ==
    ASSUME LinkInv, NEW r \in dropNet, NEW s \in SeqNum, Between(s, r), seqDiff(rcvNext, s) >= 0
    PROVE  /\ Idx(s) \in Int /\ Idx(rcvNext) <= Idx(s) /\ Idx(s) <= Idx(rcvMax)
           /\ Idx(s) < SndBase /\ ~seqLess(rcvMax, s)
<1>1. TypeOK /\ SenderInv /\ ReceiverInv /\ NetworkInv BY DEF LinkInv
<1>2. /\ written \in 0 .. MaxWrites /\ MaxWrites \in Nat /\ SndBase \in 0 .. written
      /\ rcvNext \in SeqNum /\ rcvMax \in SeqNum /\ Idx(rcvNext) \in Int /\ Idx(rcvMax) \in Int
      /\ r \in SeqNum \X SeqNum /\ Idx(r[1]) \in Int /\ Idx(r[2]) \in Int
  <2>1. r \in SeqNum \X SeqNum BY <1>1 DEF TypeOK
  <2> QED BY <1>1, <2>1, BaseIs, IdxType, LinkAssumption DEF TypeOK
<1>3. /\ 0 <= Idx(r[1]) /\ Idx(r[1]) <= Idx(r[2]) /\ Idx(r[2]) <= Idx(rcvMax) /\ Idx(r[2]) < SndBase
      /\ 0 <= Idx(rcvNext) /\ Idx(rcvNext) <= Idx(rcvMax) + 1
      /\ -1 <= Idx(rcvMax) /\ Idx(rcvMax) < written
  BY <1>1 DEF NetworkInv, ReceiverInv
<1>4. Idx(s) \in Int BY IdxType
<1>5. Idx(r[2]) <= MaxWrites BY <1>2, <1>3
<1>6. Idx(r[1]) <= Idx(s) /\ Idx(s) <= Idx(r[2]) BY <1>2, <1>3, <1>5, BetweenIdx
<1>7. /\ -1 <= Idx(s) /\ Idx(s) <= MaxWrites /\ -1 <= Idx(rcvNext) /\ Idx(rcvNext) <= MaxWrites
      /\ -1 <= Idx(rcvMax) /\ Idx(rcvMax) <= MaxWrites
  BY <1>2, <1>3, <1>4, <1>5, <1>6
<1>8. /\ seqDiff(rcvNext, s) = Idx(s) - Idx(rcvNext) /\ seqDiff(rcvMax, s) = Idx(s) - Idx(rcvMax)
  BY <1>2, <1>7, IdxDiff
<1> QED BY <1>2, <1>3, <1>4, <1>6, <1>8 DEF seqLess

\* A drop request fills the named range with skips and plays on: the
\* invariant survives.
LEMMA HandleDropReqInv == ASSUME LinkInv, NEW r \in dropNet, HandleDropReq(r) PROVE LinkInv'
<1> DEFINE marks == {s \in SeqNum : /\ seqDiff(r[1], r[2]) <= MaxLossRange
                                    /\ Between(s, r)
                                    /\ seqDiff(rcvNext, s) >= 0
                                    /\ s \notin DOMAIN rcvBuf}
<1>1. /\ TypeOK /\ SenderInv /\ ReceiverInv /\ NetworkInv /\ NoSilentGap /\ AckCoversNoLoss
  BY DEF LinkInv
<1>2. /\ Alive(rcvState)
      /\ rcvBuf' = [s \in DOMAIN rcvBuf \cup marks |-> IF s \in marks THEN Skip ELSE rcvBuf[s]]
      /\ loss' = loss \ marks
      /\ \/ rcvMax' = rcvMax
         \/ \E top \in marks : seqLess(rcvMax, top) /\ rcvMax' = top
      /\ dropNet' \subseteq dropNet
      /\ UNCHANGED <<sndVars, rcvNext, ready, rcvState, due, delivered, gaveUp, discarded,
                     dataNet, ackNet, nakNet, finNet, lost>>
  BY DEF HandleDropReq, Rest
<1>3. UNCHANGED <<nextSeq, written, sndBuf, sndState, old, sndDropped, fin>> /\ SndBase' = SndBase
  BY <1>2 DEF sndVars, SndBase
<1>4. /\ written \in 0 .. MaxWrites /\ MaxWrites \in Nat /\ SndBase \in 0 .. written
      /\ rcvNext \in SeqNum /\ rcvMax \in SeqNum /\ Idx(rcvNext) \in Int /\ Idx(rcvMax) \in Int
      /\ r \in SeqNum \X SeqNum /\ Idx(r[1]) \in Int /\ Idx(r[2]) \in Int
  <2>1. r \in SeqNum \X SeqNum BY <1>1 DEF TypeOK
  <2> QED BY <1>1, <2>1, BaseIs, IdxType, LinkAssumption DEF TypeOK
<1>5. /\ 0 <= Idx(r[1]) /\ Idx(r[1]) <= Idx(r[2]) /\ Idx(r[2]) <= Idx(rcvMax) /\ Idx(r[2]) < SndBase
      /\ 0 <= Idx(rcvNext) /\ Idx(rcvNext) <= Idx(rcvMax) + 1
      /\ -1 <= Idx(rcvMax) /\ Idx(rcvMax) < written
  BY <1>1 DEF NetworkInv, ReceiverInv
<1>6. ASSUME NEW s \in marks
      PROVE  /\ s \in SeqNum /\ Idx(s) \in Int /\ Idx(rcvNext) <= Idx(s) /\ Idx(s) <= Idx(rcvMax)
             /\ Idx(s) < SndBase /\ ~seqLess(rcvMax, s)
  BY DropMarks
<1>7. rcvMax' = rcvMax BY <1>2, <1>6
<1>8. marks \subseteq SeqNum /\ marks \cap DOMAIN rcvBuf = {} OBVIOUS
<1> HIDE DEF marks
<1>9. /\ DOMAIN rcvBuf' = DOMAIN rcvBuf \cup marks
      /\ \A s \in marks : rcvBuf'[s] = Skip
      /\ \A s \in DOMAIN rcvBuf : rcvBuf'[s] = rcvBuf[s]
  BY <1>2, <1>8
<1>10. TypeOK' BY <1>1, <1>2, <1>3, <1>7, <1>8, <1>9 DEF TypeOK
<1>11. SenderInv' BY <1>1, <1>3 DEF SenderInv
<1>12. ReceiverInv'
  <2>1. \A s \in DOMAIN rcvBuf' : /\ Idx(rcvNext) <= Idx(s) /\ Idx(s) <= Idx(rcvMax)
                                  /\ rcvBuf'[s] = Skip => Idx(s) < SndBase
                                  /\ rcvBuf'[s] # Skip => rcvBuf'[s] = Idx(s)
    BY <1>1, <1>6, <1>9 DEF ReceiverInv
  <2> QED BY <1>1, <1>2, <1>3, <1>7, <2>1 DEF ReceiverInv
<1>13. NetworkInv' BY <1>1, <1>2, <1>3, <1>7 DEF NetworkInv
<1>14. StreamInv' BY <1>2 DEF LinkInv, StreamInv, InOrder
<1>15. NoSilentGap'
  <2>1. Span(rcvNext, seqNext(rcvMax)) = DOMAIN rcvBuf \cup loss /\ DOMAIN rcvBuf \cap loss = {}
    BY <1>1, <1>2 DEF NoSilentGap
  <2>2. seqNext(rcvMax) \in SeqNum /\ Idx(seqNext(rcvMax)) = Idx(rcvMax) + 1
    <3>1. Idx(rcvMax) < MaxWrites BY <1>4, <1>5
    <3> QED BY <1>4, <1>5, <3>1, IdxNext
  <2>3. /\ 0 <= Idx(rcvNext) /\ Idx(rcvNext) <= MaxWrites
        /\ 0 <= Idx(seqNext(rcvMax)) /\ Idx(seqNext(rcvMax)) <= MaxWrites
    BY <1>4, <1>5, <2>2
  <2>4. \A s \in marks : s \in Span(rcvNext, seqNext(rcvMax))
    <3> TAKE s \in marks
    <3>1. Idx(s) < Idx(seqNext(rcvMax)) BY <1>4, <1>6, <2>2
    <3> QED BY <1>4, <1>6, <2>2, <2>3, <3>1, SpanIdx
  <2>5. marks \subseteq loss BY <1>8, <2>1, <2>4
  <2> QED BY <1>2, <1>7, <1>8, <1>9, <2>1, <2>5 DEF NoSilentGap
<1>16. AckCoversNoLoss' BY <1>1, <1>2 DEF AckCoversNoLoss
<1>17. GiveUpJustified' BY <1>2, <1>3 DEF LinkInv, GiveUpJustified
<1> QED BY <1>10, <1>11, <1>12, <1>13, <1>14, <1>15, <1>16, <1>17 DEF LinkInv

\* The window is emptied and the receiver moves past it, as flushReceived
\* and Close do.
LEMMA EmptyWindow ==
    ASSUME LinkInv, rcvNext' = seqNext(rcvMax), DOMAIN rcvBuf' = {}, loss' \subseteq loss,
           loss' = {} \/ ~Alive(rcvState'), Alive(rcvState') => Alive(rcvState),
           UNCHANGED <<written, sndBuf, rcvMax, due, gaveUp, ackNet>>
    PROVE  /\ rcvNext' \in SeqNum /\ Idx(rcvNext') = Idx(rcvMax) + 1
           /\ ReceiverInv' /\ NoSilentGap' /\ AckCoversNoLoss' /\ GiveUpJustified'
<1>1. /\ rcvMax \in SeqNum /\ Idx(rcvMax) \in Int /\ -1 <= Idx(rcvMax) /\ Idx(rcvMax) < MaxWrites
      /\ Idx(rcvMax) < written
  BY IdxType, LinkAssumption DEF LinkInv, TypeOK, ReceiverInv
<1>2. rcvNext' \in SeqNum /\ Idx(rcvNext') = Idx(rcvMax) + 1 BY <1>1, IdxNext
<1>3. ReceiverInv' BY <1>1, <1>2 DEF LinkInv, ReceiverInv
<1>4. NoSilentGap'
  <2>1. Span(rcvNext', seqNext(rcvMax)) = {}
    <3>1. \A s \in SeqNum : seqDiff(rcvNext', s) \in Int BY <1>2, DiffType, SeqAssumption
    <3>2. seqDiff(rcvNext', rcvNext') = 0 BY <1>2, SeqAssumption DEF seqDiff, SeqNum, SeqMod
    <3> QED BY <3>1, <3>2 DEF Span
  <2> QED BY <2>1 DEF NoSilentGap
<1>5. AckCoversNoLoss' BY DEF LinkInv, AckCoversNoLoss
<1>6. GiveUpJustified' BY DEF LinkInv, GiveUpJustified, SndBase
<1> QED BY <1>2, <1>3, <1>4, <1>5, <1>6

\* A shutdown flushes the receive buffer and closes: the invariant survives.
LEMMA HandleShutdownInv == LinkInv /\ HandleShutdown => LinkInv'
<1> SUFFICES ASSUME LinkInv, HandleShutdown PROVE LinkInv'
  OBVIOUS
<1> DEFINE ps == Payloads(rcvBuf, DOMAIN rcvBuf)
<1>1. TypeOK /\ SenderInv /\ ReceiverInv /\ NetworkInv /\ StreamInv BY DEF LinkInv
<1>2. /\ Enqueue(ps) /\ rcvBuf' = [s \in {} |-> Skip] /\ rcvNext' = seqNext(rcvMax)
      /\ rcvState' = "closed" /\ finNet' \subseteq finNet
      /\ UNCHANGED <<sndVars, rcvMax, loss, due, gaveUp, dataNet, ackNet, nakNet, dropNet, lost>>
  BY DEF HandleShutdown, Rest
<1>3. UNCHANGED <<nextSeq, written, sndBuf, sndState, old, sndDropped, fin>> /\ SndBase' = SndBase
  BY <1>2 DEF sndVars, SndBase
<1>4. /\ rcvNext' \in SeqNum /\ Idx(rcvNext') = Idx(rcvMax) + 1
      /\ ReceiverInv' /\ NoSilentGap' /\ AckCoversNoLoss' /\ GiveUpJustified'
  <2>1. DOMAIN rcvBuf' = {} /\ ~Alive(rcvState') BY <1>2 DEF Alive
  <2> QED BY <1>2, <1>3, <2>1, EmptyWindow
<1>5. /\ Idx(rcvNext) \in Int /\ Idx(rcvMax) \in Int /\ Idx(rcvNext) <= Idx(rcvMax) + 1
      /\ 0 <= Idx(rcvNext) /\ Idx(rcvMax) < written /\ written \in 0 .. MaxWrites /\ MaxWrites \in Nat
  BY <1>1, IdxType, LinkAssumption DEF TypeOK, ReceiverInv
<1>6. /\ ps \in SUBSET (0 .. (MaxWrites - 1))
      /\ \A p \in ps : Idx(rcvNext) <= p /\ p < Idx(rcvNext')
  <2> SUFFICES ASSUME NEW p \in ps
               PROVE  p \in 0 .. (MaxWrites - 1) /\ Idx(rcvNext) <= p /\ p < Idx(rcvNext')
    OBVIOUS
  <2>1. PICK s \in DOMAIN rcvBuf : p = rcvBuf[s] /\ p # Skip BY DEF Payloads
  <2>2. /\ Idx(s) \in Int /\ Idx(rcvNext) <= Idx(s) /\ Idx(s) <= Idx(rcvMax) /\ p = Idx(s)
    BY <1>1, <2>1, IdxType DEF TypeOK, ReceiverInv
  <2> QED BY <1>4, <1>5, <2>2
<1>7. /\ ready' \in Seq(0 .. (MaxWrites - 1)) /\ delivered' \in Seq(0 .. (MaxWrites - 1))
      /\ discarded' \subseteq 0 .. (MaxWrites - 1)
      /\ InOrder' /\ \A i \in DOMAIN delivered' : delivered'[i] < Idx(rcvNext')
  <2> HIDE DEF ps
  <2>1. Idx(rcvNext') \in Int /\ Idx(rcvNext) <= Idx(rcvNext') BY <1>4, <1>5
  <2> QED BY <1>1, <1>2, <1>6, <2>1, EnqueueInv
<1>8. TypeOK' BY <1>1, <1>2, <1>3, <1>4, <1>7 DEF TypeOK, States
<1>9. SenderInv' BY <1>1, <1>3 DEF SenderInv
<1>10. NetworkInv' BY <1>1, <1>2, <1>3 DEF NetworkInv
<1>11. StreamInv' BY <1>7 DEF StreamInv
<1> QED BY <1>4, <1>8, <1>9, <1>10, <1>11 DEF LinkInv

\* A local Close of the receiver keeps what was queued: the invariant survives.
LEMMA ReceiverCloseInv == LinkInv /\ ReceiverClose => LinkInv'
<1> SUFFICES ASSUME LinkInv, ReceiverClose PROVE LinkInv'
  OBVIOUS
<1>1. TypeOK /\ SenderInv /\ ReceiverInv /\ NetworkInv /\ StreamInv BY DEF LinkInv
<1>2. /\ rcvState' = (IF rcvState = "open" THEN "closing" ELSE rcvState)
      /\ rcvBuf' = [s \in {} |-> Skip] /\ loss' = {} /\ ready' = <<>>
      /\ rcvNext' = seqNext(rcvMax)
      /\ discarded' = discarded \cup {Idx(s) : s \in Span(rcvNext, seqNext(rcvMax))}
      /\ UNCHANGED <<sndVars, rcvMax, due, delivered, gaveUp,
                     dataNet, ackNet, nakNet, dropNet, finNet, lost>>
  BY DEF ReceiverClose, netVars
<1>3. UNCHANGED <<nextSeq, written, sndBuf, sndState, old, sndDropped, fin>> /\ SndBase' = SndBase
  BY <1>2 DEF sndVars, SndBase
<1>4. /\ rcvNext' \in SeqNum /\ Idx(rcvNext') = Idx(rcvMax) + 1
      /\ ReceiverInv' /\ NoSilentGap' /\ AckCoversNoLoss' /\ GiveUpJustified'
  <2>1. DOMAIN rcvBuf' = {} /\ (Alive(rcvState') => Alive(rcvState)) BY <1>2 DEF Alive
  <2> QED BY <1>2, <1>3, <2>1, EmptyWindow
<1>5. /\ Idx(rcvNext) \in Int /\ Idx(rcvMax) \in Int /\ Idx(rcvNext) <= Idx(rcvMax) + 1
      /\ 0 <= Idx(rcvNext) /\ Idx(rcvMax) < written /\ written \in 0 .. MaxWrites /\ MaxWrites \in Nat
      /\ rcvNext \in SeqNum
  BY <1>1, IdxType, LinkAssumption DEF TypeOK, ReceiverInv
<1>6. discarded' \subseteq 0 .. (MaxWrites - 1)
  <2>1. ASSUME NEW s \in Span(rcvNext, seqNext(rcvMax)) PROVE Idx(s) \in 0 .. (MaxWrites - 1)
    <3>1. s \in SeqNum /\ Idx(s) \in Int BY IdxType DEF Span
    <3>2. /\ 0 <= Idx(rcvNext) /\ Idx(rcvNext) <= MaxWrites
          /\ 0 <= Idx(rcvNext') /\ Idx(rcvNext') <= MaxWrites
      BY <1>4, <1>5
    <3>3. Idx(rcvNext) <= Idx(s) /\ Idx(s) < Idx(rcvNext')
      BY <1>2, <1>4, <1>5, <3>1, <3>2, SpanIdx
    <3> QED BY <1>4, <1>5, <3>1, <3>3
  <2> QED BY <1>1, <1>2, <2>1 DEF TypeOK
<1>7. TypeOK'
  <2>1. rcvBuf' \in [{} -> {Skip}] /\ ready' \in Seq(0 .. (MaxWrites - 1)) BY <1>2
  <2> QED BY <1>1, <1>2, <1>3, <1>4, <1>6, <2>1 DEF TypeOK, States
<1>8. SenderInv' BY <1>1, <1>3 DEF SenderInv
<1>9. NetworkInv' BY <1>1, <1>2, <1>3 DEF NetworkInv
<1>10. StreamInv'
  <2>1. \A i \in DOMAIN delivered : delivered[i] \in Int
    BY <1>1, <1>5, ElementOfSeq DEF TypeOK
  <2> QED BY <1>1, <1>2, <1>4, <1>5, <2>1 DEF StreamInv, InOrder
<1> QED BY <1>4, <1>7, <1>8, <1>9, <1>10 DEF LinkInv

\* Steps that change only the close flags, the read queue, or take a packet
\* from the network.
LEMMA FlagsInv ==
    ASSUME LinkInv,
           UNCHANGED <<nextSeq, written, sndBuf, old, sndDropped, rcvNext, rcvMax, rcvBuf, loss,
                       due, delivered, gaveUp, discarded>>,
           sndState' \in States, rcvState' \in States, fin' \in {"none", "clean", "cut"},
           Alive(rcvState') => Alive(rcvState),
           ready' \in Seq(0 .. (MaxWrites - 1)), lost' \in 0 .. MaxLost,
           dataNet' \subseteq dataNet, ackNet' \subseteq ackNet, nakNet' \subseteq nakNet,
           dropNet' \subseteq dropNet, finNet' \subseteq {"toReceiver", "toSender"}
    PROVE  LinkInv'
<1>1. SndBase' = SndBase BY DEF SndBase
<1>2. TypeOK' BY DEF LinkInv, TypeOK
<1>3. SenderInv' BY DEF LinkInv, SenderInv
<1>4. ReceiverInv' BY <1>1 DEF LinkInv, ReceiverInv
<1>5. NetworkInv' BY <1>1 DEF LinkInv, NetworkInv
<1>6. StreamInv' BY DEF LinkInv, StreamInv, InOrder
<1>7. NoSilentGap' BY DEF LinkInv, NoSilentGap
<1>8. AckCoversNoLoss' BY DEF LinkInv, AckCoversNoLoss
<1>9. GiveUpJustified' BY <1>1 DEF LinkInv, GiveUpJustified
<1> QED BY <1>2, <1>3, <1>4, <1>5, <1>6, <1>7, <1>8, <1>9 DEF LinkInv

\* Two fresh Conns on an empty network satisfy the invariant.
LEMMA InitInv == Init => LinkInv
<1> SUFFICES ASSUME Init PROVE LinkInv
  OBVIOUS
<1>1. /\ nextSeq = ISN /\ written = 0 /\ sndBuf = <<>> /\ sndState = "open" /\ old = 0
      /\ rcvNext = ISN /\ rcvMax = seqAdd(ISN, -1) /\ DOMAIN rcvBuf = {} /\ loss = {}
      /\ ready = <<>> /\ rcvState = "open" /\ due = 0
      /\ dataNet = {} /\ ackNet = {} /\ nakNet = {} /\ dropNet = {} /\ finNet = {} /\ lost = 0
      /\ delivered = <<>> /\ gaveUp = {} /\ discarded = {} /\ sndDropped = {} /\ fin = "none"
  BY DEF Init
<1>2. /\ ISN \in SeqNum /\ MaxWrites \in Nat /\ MaxLost \in Nat BY LinkAssumption
<1>3. <<>> \in Seq(Packet) /\ <<>> \in Seq(0 .. (MaxWrites - 1)) /\ Len(<<>>) = 0 OBVIOUS
<1>4. TypeOK BY <1>1, <1>2, <1>3, IdxStart DEF TypeOK, States
<1>5. SenderInv BY <1>1, <1>2, <1>3, IdxStart DEF SenderInv
<1>6. ReceiverInv BY <1>1, IdxStart DEF ReceiverInv
<1>7. NetworkInv BY <1>1 DEF NetworkInv
<1>8. StreamInv BY <1>1 DEF StreamInv, InOrder
<1>9. NoSilentGap
  <2>1. seqNext(rcvMax) = ISN
    BY <1>1, <1>2, SeqAssumption DEF seqNext, seqAdd, SeqNum, SeqMod
  <2>2. \A s \in SeqNum : seqDiff(ISN, s) \in Int BY <1>2, DiffType, SeqAssumption
  <2>3. seqDiff(ISN, ISN) = 0 BY <1>2, SeqAssumption DEF seqDiff, SeqNum, SeqMod
  <2>4. Span(rcvNext, seqNext(rcvMax)) = {} BY <1>1, <2>1, <2>2, <2>3 DEF Span
  <2> QED BY <1>1, <2>4 DEF NoSilentGap
<1>10. AckCoversNoLoss BY <1>1 DEF AckCoversNoLoss
<1>11. GiveUpJustified BY <1>1 DEF GiveUpJustified
<1> QED BY <1>4, <1>5, <1>6, <1>7, <1>8, <1>9, <1>10, <1>11 DEF LinkInv

\* Every step of the link preserves the invariant.
LEMMA NextInv == LinkInv /\ [Next]_vars => LinkInv'
<1> SUFFICES ASSUME LinkInv, [Next]_vars PROVE LinkInv'
  OBVIOUS
<1> USE DEF sndVars, rcvVars, netVars
<1>1. TypeOK BY DEF LinkInv
<1>2. /\ sndState \in States /\ rcvState \in States /\ fin \in {"none", "clean", "cut"}
      /\ ready \in Seq(0 .. (MaxWrites - 1)) /\ lost \in 0 .. MaxLost
      /\ finNet \subseteq {"toReceiver", "toSender"}
  BY <1>1 DEF TypeOK
<1>3. CASE Write BY <1>3, WriteInv
<1>4. CASE \E a \in ackNet : HandleACK(a) BY <1>4, HandleACKInv
<1>5. CASE \E r \in nakNet : \E again \in SUBSET Held(r) : HandleNAK(r, again)
  BY <1>5, HandleNAKInv
<1>6. CASE TickSender BY <1>6, SenderTickInv DEF TickSender
<1>7. CASE SenderClose BY <1>2, <1>7, FlagsInv DEF SenderClose, States
<1>8. CASE SenderCloseEnds BY <1>2, <1>8, FlagsInv DEF SenderCloseEnds, States
<1>9. CASE SenderShutdown BY <1>2, <1>9, FlagsInv DEF SenderShutdown, States, Rest
<1>10. CASE SenderIdle BY <1>2, <1>10, FlagsInv DEF SenderIdle, States
<1>11. CASE \E m \in dataNet : handleData(m) BY <1>11, handleDataInv
<1>12. CASE \E m \in dataNet : IgnoreData(m)
  BY <1>2, <1>12, FlagsInv DEF IgnoreData, Rest
<1>13. CASE \E r \in dropNet : HandleDropReq(r) BY <1>13, HandleDropReqInv
<1>14. CASE TickReceiver BY <1>14, ReceiverTickInv DEF TickReceiver
<1>15. CASE Read BY <1>2, <1>15, FlagsInv DEF Read
<1>16. CASE HandleShutdown BY <1>16, HandleShutdownInv
<1>17. CASE ReceiverClose BY <1>17, ReceiverCloseInv
<1>18. CASE ReceiverCloseEnds BY <1>2, <1>18, FlagsInv DEF ReceiverCloseEnds, States, Alive
<1>19. CASE ReceiverIdle BY <1>2, <1>19, FlagsInv DEF ReceiverIdle, States, Alive
<1>20. CASE Lose
  <2>1. /\ lost' \in 0 .. MaxLost /\ UNCHANGED <<sndVars, rcvVars>>
        /\ dataNet' \subseteq dataNet /\ ackNet' \subseteq ackNet /\ nakNet' \subseteq nakNet
        /\ dropNet' \subseteq dropNet /\ finNet' \subseteq finNet
    BY <1>2, <1>20, LinkAssumption DEF Lose
  <2> QED BY <1>2, <2>1, FlagsInv
<1>21. CASE UNCHANGED vars BY <1>2, <1>21, FlagsInv DEF vars
<1> QED
  BY <1>3, <1>4, <1>5, <1>6, <1>7, <1>8, <1>9, <1>10, <1>11, <1>12, <1>13, <1>14, <1>15, <1>16,
     <1>17, <1>18, <1>19, <1>20, <1>21 DEF Next

-------------------------------------------------------------------------------
\* LinkInv holds in every state, for every sequence width, window, queue and
\* buffer size and whatever the network loses, repeats or reorders.
THEOREM LinkInvariant == Spec => []LinkInv
BY InitInv, NextInv, PTL DEF Spec

\* The types of the two halves of the connection and of the network.
THEOREM TypeCorrect == Spec => []TypeOK
<1>1. LinkInv => TypeOK BY DEF LinkInv
<1> QED BY <1>1, LinkInvariant, PTL

\* deliver and flushReceived hand over an ascending part of the stream: no
\* payload twice, none out of order.
THEOREM DeliveryInOrder == Spec => []InOrder
<1>1. LinkInv => InOrder BY DEF LinkInv, StreamInv
<1> QED BY <1>1, LinkInvariant, PTL

\* The receiver knows of every hole in its window (handleData, skipRange,
\* deliver).
THEOREM LossesKnown == Spec => []NoSilentGap
<1>1. LinkInv => NoSilentGap BY DEF LinkInv
<1> QED BY <1>1, LinkInvariant, PTL

\* No ACK, however delayed, releases a packet the receiver is waiting for
\* (sendACK, handleACK).
THEOREM AcksSafe == Spec => []AckCoversNoLoss
<1>1. LinkInv => AckCoversNoLoss BY DEF LinkInv
<1> QED BY <1>1, LinkInvariant, PTL

\* Only what is due, or what the sender let go, is given up (deliver,
\* skipRange, handleNAK).
THEOREM GiveUpsJustified == Spec => []GiveUpJustified
<1>1. LinkInv => GiveUpJustified BY DEF LinkInv
<1> QED BY <1>1, LinkInvariant, PTL

-------------------------------------------------------------------------------
(* A clean close costs the reader nothing (CleanCloseKeepsAll).  It is the   *)
(* agreement of two halves that see each other only through the network: the *)
(* sender, which let go of a packet, knows it arrived; the receiver, which   *)
(* moved past a packet, has done something with it.                          *)

\* What became of the packets the receiver has moved past.
Delivered == {delivered[i] : i \in DOMAIN delivered}
Kept == Delivered \cup gaveUp \cup discarded

\* As long as the sender let go of nothing for age, what it no longer holds
\* has arrived: it is no loss of the receiver, and no skip mark stands for it.
AckedArrived ==
    sndDropped = {} =>
        /\ SndBase <= Idx(rcvMax) + 1
        /\ Alive(rcvState) => \A s \in loss : SndBase <= Idx(s)
        /\ \A s \in DOMAIN rcvBuf : rcvBuf[s] # Skip

\* A receiver that is closing or closed holds nothing back.
WindowShut ==
    rcvState \in {"closing", "closed"} => DOMAIN rcvBuf = {} /\ Idx(rcvNext) = Idx(rcvMax) + 1

\* Close ends cleanly with an empty buffer, and nothing is handled after it:
\* a shutdown on its way to the receiver comes from a sender that has closed.
SenderShut ==
    /\ fin = "clean" => ~Alive(sndState) /\ sndBuf = <<>>
    /\ "toReceiver" \in finNet => ~Alive(sndState)

\* What the receiver has moved past is accounted for, except for what a
\* shutdown cut off while the sender still held it.
PassedKept ==
    sndDropped = {} => \A p \in 0 .. (Idx(rcvNext) - 1) :
                          p \in Kept \/ (~Alive(sndState) /\ p >= SndBase)

CloseInv == LinkInv /\ AckedArrived /\ WindowShut /\ SenderShut /\ PassedKept

-------------------------------------------------------------------------------
\* Every position has its number.
LEMMA IdxOnto ==
    ASSUME NEW p \in 0 .. MaxWrites
    PROVE  \E s \in SeqNum : Idx(s) = p
<1>1. /\ seqAdd(ISN, p) \in SeqNum /\ Idx(seqAdd(ISN, p)) = p
  BY SeqAssumption, LinkAssumption DEF SeqNum, SeqMod, seqDiff, Idx, seqAdd
<1> QED BY <1>1

\* An ascending list of a set's Cardinality many elements lists all of them.
LEMMA ListsAll ==
    ASSUME NEW S \in SUBSET Int, IsFiniteSet(S), NEW f \in [1 .. Cardinality(S) -> S],
           \A i, j \in 1 .. Cardinality(S) : i < j => f[i] < f[j], NEW x \in S
    PROVE  \E i \in 1 .. Cardinality(S) : f[i] = x
<1> DEFINE k == Cardinality(S)
<1>1. k \in Nat BY FS_CardinalityType
<1>2. Cardinality(1 .. k) = k BY <1>1, FS_Interval
<1>3. f \in Injection(1 .. k, S)
  <2>1. ASSUME NEW i \in 1 .. k, NEW j \in 1 .. k, f[i] = f[j] PROVE i = j
    <3>1. f[i] \in S /\ f[j] \in S OBVIOUS
    <3>2. f[i] \in Int /\ f[j] \in Int BY <3>1
    <3>3. ~(f[i] < f[j]) /\ ~(f[j] < f[i]) BY <2>1, <3>2
    <3>4. ~(i < j) /\ ~(j < i) BY <3>3
    <3> QED BY <1>1, <3>4
  <2>2. DOMAIN f = 1 .. k OBVIOUS
  <2> QED BY <2>1, <2>2 DEF Injection, IsInjective
<1>4. f \in Surjection(1 .. k, S) BY <1>2, <1>3, FS_Injection
<1> QED BY <1>4 DEF Surjection

\* Payloads handed to ready are delivered or dropped from a full queue, and
\* nothing that was so before is forgotten (deliver, flushReceived).
LEMMA EnqueueKeeps ==
    ASSUME TypeOK, NEW ps \in SUBSET (0 .. (MaxWrites - 1)), Enqueue(ps)
    PROVE  /\ ps \subseteq Delivered' \cup discarded'
           /\ Delivered \subseteq Delivered' /\ discarded \subseteq discarded'
<1> DEFINE P == 0 .. (MaxWrites - 1)
           k == Cardinality(ps)
<1>1. IsFiniteSet(ps) /\ k \in Nat /\ ps \in SUBSET Int
  <2>1. IsFiniteSet(P) BY FS_Interval, LinkAssumption
  <2>2. IsFiniteSet(ps) BY <2>1, FS_Subset
  <2> QED BY <2>2, FS_CardinalityType, LinkAssumption
<1>2. PICK batch \in [1 .. k -> ps] :
        LET room == MaxReadyQueue - Len(ready)
            n    == IF room < 0 THEN 0 ELSE Min2(room, k)
        IN  /\ \A i, j \in 1 .. k : i < j => batch[i] < batch[j]
            /\ ready' = ready \o SubSeq(batch, 1, n)
            /\ delivered' = delivered \o SubSeq(batch, 1, n)
            /\ discarded' = discarded \cup {batch[i] : i \in (n + 1) .. k}
  BY DEF Enqueue
<1>3. \A x \in ps : \E i \in 1 .. k : batch[i] = x BY <1>1, <1>2, ListsAll
<1> HIDE DEF k
<1>4. ready \in Seq(P) /\ delivered \in Seq(P) /\ Len(ready) \in Nat /\ Len(delivered) \in Nat
  BY DEF TypeOK
<1>5. PICK n \in 0 .. k : /\ delivered' = delivered \o SubSeq(batch, 1, n)
                          /\ discarded' = discarded \cup {batch[i] : i \in (n + 1) .. k}
  <2> DEFINE room == MaxReadyQueue - Len(ready)
             n == IF room < 0 THEN 0 ELSE Min2(room, k)
  <2>1. n \in 0 .. k BY <1>1, <1>4, LinkAssumption DEF Min2
  <2> HIDE DEF n
  <2> QED BY <1>2, <2>1 DEF n
<1> DEFINE sub == SubSeq(batch, 1, n)
<1>6. batch \in [1 .. k -> P] BY <1>2
<1>7. /\ sub \in Seq(P) /\ Len(sub) = n /\ n \in Nat
      /\ \A i \in 1 .. n : sub[i] = batch[i]
  BY <1>1, <1>5, <1>6, FunctionPrefix
<1> HIDE DEF sub
<1>8. delivered' = delivered \o sub BY <1>5 DEF sub
<1>9. /\ DOMAIN delivered = 1 .. Len(delivered)
      /\ DOMAIN delivered' = 1 .. (Len(delivered) + n)
      /\ \A i \in 1 .. Len(delivered) : delivered'[i] = delivered[i]
      /\ \A i \in 1 .. n : delivered'[Len(delivered) + i] = sub[i]
  <2>1. delivered' \in Seq(P) BY <1>4, <1>7, <1>8
  <2>2. /\ Len(delivered') = Len(delivered) + n
        /\ \A i \in 1 .. Len(delivered) : delivered'[i] = delivered[i]
        /\ \A i \in 1 .. n : delivered'[Len(delivered) + i] = sub[i]
    BY <1>4, <1>5, <1>7 DEF sub
  <2>3. DOMAIN delivered = 1 .. Len(delivered) BY <1>4
  <2>4. DOMAIN delivered' = 1 .. Len(delivered') BY <2>1
  <2> QED BY <2>2, <2>3, <2>4
<1>10. Delivered \subseteq Delivered'
  <2> SUFFICES ASSUME NEW i \in 1 .. Len(delivered)
               PROVE  delivered[i] \in Delivered'
    BY <1>9 DEF Delivered
  <2>1. i \in DOMAIN delivered' /\ delivered'[i] = delivered[i] BY <1>4, <1>7, <1>9
  <2> QED BY <2>1 DEF Delivered
<1>11. ps \subseteq Delivered' \cup discarded'
  <2> SUFFICES ASSUME NEW x \in ps PROVE x \in Delivered' \cup discarded'
    OBVIOUS
  <2>1. PICK i \in 1 .. k : batch[i] = x BY <1>3
  <2>2. CASE i \in 1 .. n
    <3>1. Len(delivered) + i \in DOMAIN delivered' /\ delivered'[Len(delivered) + i] = x
      BY <1>4, <1>7, <1>9, <2>1, <2>2
    <3> QED BY <3>1 DEF Delivered
  <2>3. CASE i \in (n + 1) .. k BY <1>5, <2>1, <2>3
  <2> QED BY <1>1, <1>7, <2>1, <2>2, <2>3
<1> QED BY <1>5, <1>10, <1>11

-------------------------------------------------------------------------------
(* The steps.  Each starts from CloseInv and from LinkInv of both states,    *)
(* which NextInv of SrtLinkProofs gives.                                     *)

\* Steps that change neither buffer nor what the receiver has passed.
LEMMA FlagsKept ==
    ASSUME CloseInv, UNCHANGED <<written, sndBuf, sndDropped, rcvNext, rcvMax, rcvBuf, loss,
                                 delivered, gaveUp, discarded>>,
           Alive(rcvState') => Alive(rcvState),
           rcvState' \in {"closing", "closed"} => rcvState \in {"closing", "closed"},
           Alive(sndState') => Alive(sndState),
           fin' = "clean" => fin = "clean" \/ (~Alive(sndState') /\ sndBuf = <<>>),
           "toReceiver" \in finNet' => "toReceiver" \in finNet \/ ~Alive(sndState')
    PROVE  AckedArrived' /\ WindowShut' /\ SenderShut' /\ PassedKept'
<1>1. SndBase' = SndBase BY DEF SndBase
<1>2. Kept' = Kept BY DEF Kept, Delivered
<1>3. AckedArrived' BY <1>1 DEF CloseInv, AckedArrived
<1>4. WindowShut' BY DEF CloseInv, WindowShut
<1>5. SenderShut' BY DEF CloseInv, SenderShut
<1>6. PassedKept' BY <1>1, <1>2 DEF CloseInv, PassedKept
<1> QED BY <1>3, <1>4, <1>5, <1>6

\* The sending half moves: what it lets go of for age is no longer covered,
\* and what it releases otherwise has arrived (Write, handleACK, tick).
LEMMA SenderKept ==
    ASSUME CloseInv, UNCHANGED <<rcvVars, finNet, sndState, fin>>, fin = "clean" => sndBuf' = <<>>,
           sndDropped' = {} => sndDropped = {}, SndBase' \in Int,
           sndDropped' = {} => SndBase' = SndBase \/ (Alive(sndState) /\ SndBase' <= Idx(rcvMax) + 1),
           sndDropped' = {} /\ Alive(rcvState) =>
               SndBase' = SndBase \/ (\A s \in loss : SndBase' <= Idx(s))
    PROVE  AckedArrived' /\ WindowShut' /\ SenderShut' /\ PassedKept'
<1> USE DEF rcvVars
<1>1. Kept' = Kept BY DEF Kept, Delivered
<1>2. AckedArrived' BY DEF CloseInv, AckedArrived
<1>3. WindowShut' BY DEF CloseInv, WindowShut
<1>4. SenderShut' BY DEF CloseInv, SenderShut
<1>5. PassedKept' BY <1>1 DEF CloseInv, PassedKept
<1> QED BY <1>2, <1>3, <1>4, <1>5

\* Write appends, so the oldest packet held stays the oldest.
LEMMA WriteKept ==
    ASSUME CloseInv, Write
    PROVE  AckedArrived' /\ WindowShut' /\ SenderShut' /\ PassedKept'
<1>1. /\ sndState = "open" /\ written' = written + 1
      /\ sndBuf' = Append(sndBuf, [seq |-> nextSeq, pay |-> written])
      /\ UNCHANGED <<sndState, old, sndDropped, fin, rcvVars, ackNet, nakNet, dropNet, finNet, lost>>
  BY DEF Write
<1>2. SndBase' = SndBase /\ SndBase \in Int
  <2>1. /\ SndBase = written - Len(sndBuf) /\ Len(sndBuf) \in Nat /\ written \in Nat
        /\ sndBuf \in Seq(Packet)
    BY BaseIs DEF CloseInv, LinkInv, TypeOK
  <2>2. /\ [seq |-> nextSeq, pay |-> written] \in Packet
        /\ sndBuf' \in Seq(Packet) /\ Len(sndBuf') = Len(sndBuf) + 1
        /\ sndBuf' # <<>>
        /\ sndBuf'[Len(sndBuf) + 1].pay = written
        /\ \A i \in 1 .. Len(sndBuf) : sndBuf'[i] = sndBuf[i]
    <3>1. [seq |-> nextSeq, pay |-> written] \in Packet
      BY LinkAssumption DEF CloseInv, LinkInv, TypeOK, Packet, Write
    <3> QED BY <1>1, <2>1, <3>1
  <2>3. CASE sndBuf = <<>>
    <3>1. Len(sndBuf) = 0 BY <2>3
    <3> QED BY <2>1, <2>2, <2>3, <3>1 DEF SndBase
  <2>4. CASE sndBuf # <<>>
    <3>1. 1 \in 1 .. Len(sndBuf) BY <2>1, <2>4
    <3> QED BY <2>1, <2>2, <2>4, <3>1 DEF SndBase
  <2> QED BY <2>3, <2>4
<1>3. fin # "clean" BY <1>1 DEF CloseInv, SenderShut, Alive
<1> QED BY <1>1, <1>2, <1>3, SenderKept

\* handleACK releases what is below an acknowledgement, and no loss is.
LEMMA HandleACKKept ==
    ASSUME CloseInv, NEW a \in ackNet, HandleACK(a)
    PROVE  AckedArrived' /\ WindowShut' /\ SenderShut' /\ PassedKept'
<1>1. /\ Alive(sndState)
      /\ UNCHANGED <<nextSeq, written, sndState, old, sndDropped, fin, rcvVars, finNet>>
  BY DEF HandleACK
<1>2. PICK n \in 0 .. Len(sndBuf) : /\ \A i \in 1 .. n : seqLess(sndBuf[i].seq, a)
                                    /\ releaseSent(n)
  BY DEF HandleACK
<1>3. TypeOK /\ SenderInv /\ ReceiverInv /\ NetworkInv BY DEF CloseInv, LinkInv
<1>4. SndBase' = SndBase + n BY <1>1, <1>2, <1>3, ReleaseInv
<1>5. /\ SndBase = written - Len(sndBuf) /\ Len(sndBuf) \in Nat /\ written \in 0 .. MaxWrites
      /\ SndBase \in Int /\ n \in Int /\ MaxWrites \in Nat
  BY <1>3, BaseIs, LinkAssumption DEF TypeOK
<1>6. a \in SeqNum /\ Idx(a) \in Int /\ 0 <= Idx(a) /\ Idx(a) <= Idx(rcvMax) + 1
      /\ Idx(rcvMax) \in Int /\ Idx(rcvMax) < written
  BY <1>3, IdxType DEF TypeOK, NetworkInv, ReceiverInv
<1>7. n = 0 \/ SndBase' <= Idx(a)
  <2> SUFFICES ASSUME n # 0 PROVE SndBase' <= Idx(a)
    OBVIOUS
  <2>1. n \in 1 .. Len(sndBuf) /\ n \in 1 .. n BY <1>5
  <2>2. sndBuf[n].seq \in SeqNum /\ Idx(sndBuf[n].seq) = SndBase + n - 1
    <3>1. sndBuf \in Seq(Packet) BY <1>3 DEF TypeOK
    <3>2. sndBuf[n] \in Packet BY <2>1, <3>1, ElementOfSeq
    <3>3. sndBuf[n].pay = written - Len(sndBuf) + n - 1 /\ Idx(sndBuf[n].seq) = sndBuf[n].pay
      BY <1>3, <2>1 DEF SenderInv
    <3> QED BY <1>5, <3>2, <3>3 DEF Packet
  <2>3. seqDiff(sndBuf[n].seq, a) = Idx(a) - (SndBase + n - 1)
    <3>1. /\ -1 <= Idx(sndBuf[n].seq) /\ Idx(sndBuf[n].seq) <= MaxWrites
          /\ -1 <= Idx(a) /\ Idx(a) <= MaxWrites
      BY <1>3, <1>5, <1>6, <2>1, <2>2 DEF SenderInv
    <3> QED BY <1>6, <2>2, <3>1, IdxDiff
  <2>4. seqDiff(sndBuf[n].seq, a) > 0 BY <1>2, <2>1 DEF seqLess
  <2> QED BY <1>4, <1>5, <1>6, <2>3, <2>4
<1>8. Alive(rcvState) => n = 0 \/ \A s \in loss : SndBase' <= Idx(s)
  <2>1. \A s \in loss : Idx(s) \in Int BY <1>3, IdxType DEF TypeOK
  <2>2. Alive(rcvState) => \A s \in loss : Idx(a) <= Idx(s)
    BY DEF CloseInv, LinkInv, AckCoversNoLoss
  <2> QED BY <1>4, <1>5, <1>6, <1>7, <2>1, <2>2
<1>9. fin # "clean" BY <1>1 DEF CloseInv, SenderShut
<1> QED BY <1>1, <1>4, <1>5, <1>6, <1>7, <1>8, <1>9, SenderKept

\* A tick that lets go of a packet for age says so in PacketsSendDropped.
LEMMA SenderTickKept ==
    ASSUME CloseInv, NEW hz, NEW again, SenderTick(hz, again)
    PROVE  AckedArrived' /\ WindowShut' /\ SenderShut' /\ PassedKept'
<1>1. UNCHANGED <<nextSeq, written, sndState, fin, rcvVars, finNet>> BY DEF SenderTick
<1>2. PICK n \in 0 .. Len(sndBuf) :
         releaseSent(n) /\ sndDropped' = sndDropped \cup {sndBuf[i].pay : i \in 1 .. n}
  BY DEF SenderTick
<1>3. TypeOK /\ SenderInv BY DEF CloseInv, LinkInv
<1>4. SndBase' = SndBase + n BY <1>1, <1>2, <1>3, ReleaseInv
<1>5. Len(sndBuf) \in Nat /\ SndBase \in Int /\ n \in Int /\ sndBuf \in Seq(Packet)
  BY <1>3, BaseIs DEF TypeOK
<1>6. sndDropped' = {} => sndDropped = {} /\ n = 0
  <2> SUFFICES ASSUME sndDropped' = {}, n # 0 PROVE FALSE
    BY <1>2
  <2>1. 1 \in 1 .. n BY <1>5
  <2>2. sndBuf[1].pay \in sndDropped' BY <1>2, <2>1
  <2> QED BY <2>2
<1>7. fin = "clean" => sndBuf' = <<>>
  <2> SUFFICES ASSUME sndBuf = <<>> PROVE sndBuf' = <<>>
    BY DEF CloseInv, SenderShut
  <2>1. Len(sndBuf) = 0 /\ n = 0 BY <1>5
  <2>2. sndBuf' = SubSeq(sndBuf, 1, 0) BY <1>2, <2>1 DEF releaseSent
  <2> QED BY <1>5, <2>2
<1> QED BY <1>1, <1>4, <1>5, <1>6, <1>7, SenderKept

\* deliver takes the head of the window: each number it passes was there and
\* is handed to ready, or was not and is given up.
LEMMA DeliverKept ==
    ASSUME CloseInv, LinkInv', NEW buf, NEW los, NEW hz, deliver(buf, los, hz),
           \A s \in DOMAIN buf : /\ s \in SeqNum
                                 /\ buf[s] # Skip => buf[s] = Idx(s) /\ buf[s] \in 0 .. (MaxWrites - 1),
           \A s \in DOMAIN buf : buf[s] \in {Skip} \cup (0 .. (MaxWrites - 1)),
           Idx(rcvMax) <= Idx(rcvMax'),
           sndDropped = {} => \A s \in DOMAIN buf : buf[s] # Skip,
           sndDropped = {} /\ Alive(rcvState) => \A s \in los : SndBase <= Idx(s),
           rcvState \in {"closing", "closed"} => DOMAIN buf = {} /\ rcvMax' = rcvMax,
           UNCHANGED <<written, sndBuf, sndState, sndDropped, fin, finNet, rcvState>>
    PROVE  AckedArrived' /\ WindowShut' /\ SenderShut' /\ PassedKept'
<1> DEFINE T == Taken(buf, hz)
           gap == Span(rcvNext, rcvNext') \ T
           ps == Payloads(buf, T)
<1>1. /\ TypeOK /\ SenderInv /\ ReceiverInv /\ TypeOK' /\ ReceiverInv'
      /\ AckedArrived /\ WindowShut /\ SenderShut /\ PassedKept
  BY DEF CloseInv, LinkInv
<1>2. T \subseteq DOMAIN buf BY DEF Taken
<1>3. /\ T = {} => rcvNext' = rcvNext
      /\ rcvBuf' = [s \in DOMAIN buf \ T |-> buf[s]]
      /\ loss' \subseteq los
      /\ gaveUp' = gaveUp \cup {Idx(s) : s \in gap}
      /\ Enqueue(ps)
  BY DEF deliver
<1> HIDE DEF T
<1>4. SndBase' = SndBase /\ SndBase \in Int BY <1>1, BaseIs DEF TypeOK, SndBase
<1>5. /\ rcvNext \in SeqNum /\ rcvNext' \in SeqNum
      /\ Idx(rcvNext) \in Int /\ Idx(rcvNext') \in Int /\ Idx(rcvMax) \in Int /\ Idx(rcvMax') \in Int
      /\ 0 <= Idx(rcvNext) /\ Idx(rcvNext) <= MaxWrites
      /\ 0 <= Idx(rcvNext') /\ Idx(rcvNext') <= MaxWrites /\ MaxWrites \in Nat
  <2>1. /\ rcvNext \in SeqNum /\ rcvMax \in SeqNum /\ rcvNext' \in SeqNum /\ rcvMax' \in SeqNum
        /\ written \in 0 .. MaxWrites /\ written' = written /\ MaxWrites \in Nat
    BY <1>1, LinkAssumption DEF TypeOK
  <2>2. /\ Idx(rcvNext) \in Int /\ Idx(rcvNext') \in Int /\ Idx(rcvMax) \in Int /\ Idx(rcvMax') \in Int
    BY <2>1, IdxType
  <2>3. /\ 0 <= Idx(rcvNext) /\ Idx(rcvNext) <= Idx(rcvMax) + 1 /\ Idx(rcvMax) < written
        /\ 0 <= Idx(rcvNext') /\ Idx(rcvNext') <= Idx(rcvMax') + 1 /\ Idx(rcvMax') < written'
    BY <1>1 DEF ReceiverInv
  <2> QED BY <2>1, <2>2, <2>3
<1>6. AckedArrived'
  <2>1. DOMAIN rcvBuf' \subseteq DOMAIN buf /\ \A s \in DOMAIN rcvBuf' : rcvBuf'[s] = buf[s]
    BY <1>3
  <2> QED BY <1>1, <1>3, <1>4, <1>5, <2>1 DEF AckedArrived
<1>7. WindowShut'
  <2> SUFFICES ASSUME rcvState \in {"closing", "closed"}
               PROVE  DOMAIN rcvBuf' = {} /\ Idx(rcvNext') = Idx(rcvMax') + 1
    BY DEF WindowShut
  <2>1. DOMAIN buf = {} /\ rcvMax' = rcvMax /\ T = {} BY <1>2
  <2>2. Idx(rcvNext) = Idx(rcvMax) + 1 BY <1>1 DEF WindowShut
  <2> QED BY <1>3, <2>1, <2>2
<1>8. SenderShut' BY <1>1 DEF SenderShut
<1>9. ps \subseteq Delivered' \cup discarded' /\ Kept \subseteq Kept'
  <2>1. ps \in SUBSET (0 .. (MaxWrites - 1)) BY <1>2 DEF Payloads
  <2> HIDE DEF ps
  <2>2. /\ ps \subseteq Delivered' \cup discarded'
        /\ Delivered \subseteq Delivered' /\ discarded \subseteq discarded'
    BY <1>1, <1>3, <2>1, EnqueueKeeps
  <2> QED BY <1>3, <2>2 DEF Kept
<1>10. PassedKept'
  <2> SUFFICES ASSUME sndDropped = {}, NEW p \in 0 .. (Idx(rcvNext') - 1)
               PROVE  p \in Kept' \/ (~Alive(sndState) /\ p >= SndBase)
    BY <1>4 DEF PassedKept
  <2>1. CASE p < Idx(rcvNext)
    <3>1. p \in 0 .. (Idx(rcvNext) - 1) BY <1>5, <2>1
    <3> QED BY <1>1, <1>9, <3>1 DEF PassedKept
  <2>2. CASE ~(p < Idx(rcvNext))
    <3>1. p \in 0 .. MaxWrites BY <1>5
    <3>2. PICK s \in SeqNum : Idx(s) = p BY <3>1, IdxOnto
    <3>3. s \in Span(rcvNext, rcvNext') BY <1>5, <2>2, <3>2, SpanIdx
    <3>4. CASE s \in T
      <4>1. buf[s] = p /\ buf[s] # Skip BY <1>2, <3>2, <3>4
      <4>2. p \in ps BY <3>4, <4>1 DEF Payloads
      <4> QED BY <1>9, <4>2 DEF Kept
    <3>5. CASE s \notin T
      <4>1. p \in gaveUp' BY <1>3, <3>2, <3>3, <3>5
      <4> QED BY <4>1 DEF Kept
    <3> QED BY <3>4, <3>5
  <2> QED BY <2>1, <2>2
<1> QED BY <1>6, <1>7, <1>8, <1>10

\* A packet that fits comes into the window under its own number, and the
\* losses it reveals lie past everything that has arrived.
LEMMA handleDataKept ==
    ASSUME CloseInv, LinkInv', NEW m \in dataNet, handleData(m)
    PROVE  AckedArrived' /\ WindowShut' /\ SenderShut' /\ PassedKept'
<1> DEFINE new == Revealed(m)
           buf == [s \in DOMAIN rcvBuf \cup {m.seq} |-> IF s = m.seq THEN m.pay ELSE rcvBuf[s]]
           los == (loss \ {m.seq}) \cup new
<1>1. TypeOK /\ SenderInv /\ ReceiverInv /\ NetworkInv /\ AckedArrived
  BY DEF CloseInv, LinkInv
<1>2. /\ rcvState = "open" /\ rcvMax' = IF seqLess(rcvMax, m.seq) THEN m.seq ELSE rcvMax
      /\ UNCHANGED <<sndVars, rcvState, finNet>>
  BY DEF handleData, Fits
<1>3. PICK hz : deliver(buf, los, hz) BY DEF handleData
<1>4. /\ m.seq \in SeqNum /\ m.pay \in 0 .. (MaxWrites - 1) /\ m.pay < written /\ Idx(m.seq) = m.pay
      /\ written \in 0 .. MaxWrites /\ MaxWrites \in Nat /\ rcvMax \in SeqNum
      /\ Idx(rcvMax) \in Int /\ -1 <= Idx(rcvMax) /\ Idx(rcvMax) < written /\ SndBase \in Int
  <2>1. m \in Packet /\ m.pay < written /\ Idx(m.seq) = m.pay BY <1>1 DEF TypeOK, NetworkInv
  <2>2. -1 <= Idx(rcvMax) /\ Idx(rcvMax) < written BY <1>1 DEF ReceiverInv
  <2>3. written \in 0 .. MaxWrites /\ rcvMax \in SeqNum BY <1>1 DEF TypeOK
  <2>4. SndBase \in Int BY <1>1, BaseIs
  <2> QED BY <2>1, <2>2, <2>3, <2>4, IdxType, LinkAssumption DEF Packet
<1>5. seqDiff(rcvMax, m.seq) = Idx(m.seq) - Idx(rcvMax)
  <2>1. -1 <= Idx(m.seq) /\ Idx(m.seq) <= MaxWrites /\ Idx(rcvMax) <= MaxWrites BY <1>4
  <2> QED BY <1>4, <2>1, IdxDiff
<1>6. Idx(rcvMax) <= Idx(rcvMax') BY <1>2, <1>4, <1>5 DEF seqLess
<1>7. DOMAIN buf = DOMAIN rcvBuf \cup {m.seq} /\ DOMAIN rcvBuf \subseteq SeqNum
  BY <1>1 DEF TypeOK
<1>8. \A s \in DOMAIN buf : /\ s \in SeqNum
                            /\ buf[s] # Skip => buf[s] = Idx(s) /\ buf[s] \in 0 .. (MaxWrites - 1)
                            /\ buf[s] \in {Skip} \cup (0 .. (MaxWrites - 1))
                            /\ sndDropped = {} => buf[s] # Skip
  <2> TAKE s \in DOMAIN buf
  <2>1. CASE s = m.seq
    <3>1. buf[s] = m.pay /\ m.pay # Skip BY <1>4, <2>1 DEF Skip
    <3> QED BY <1>4, <2>1, <3>1
  <2>2. CASE s # m.seq
    <3>1. s \in DOMAIN rcvBuf /\ buf[s] = rcvBuf[s] BY <1>7, <2>2
    <3>2. s \in SeqNum /\ rcvBuf[s] \in {Skip} \cup (0 .. (MaxWrites - 1))
      BY <1>1, <3>1 DEF TypeOK
    <3>3. rcvBuf[s] # Skip => rcvBuf[s] = Idx(s) BY <1>1, <3>1 DEF ReceiverInv
    <3>4. sndDropped = {} => rcvBuf[s] # Skip BY <1>1, <3>1 DEF AckedArrived
    <3> QED BY <3>1, <3>2, <3>3, <3>4
  <2> QED BY <2>1, <2>2
<1>9. ASSUME sndDropped = {}, NEW s \in los PROVE SndBase <= Idx(s)
  <2>1. CASE s \in loss BY <1>1, <1>2, <1>9, <2>1 DEF AckedArrived, Alive
  <2>2. CASE s \in new
    <3>1. SndBase <= Idx(rcvMax) + 1 BY <1>1, <1>9 DEF AckedArrived
    <3>2. seqNext(rcvMax) \in SeqNum /\ Idx(seqNext(rcvMax)) = Idx(rcvMax) + 1
      <4>1. Idx(rcvMax) < MaxWrites BY <1>4
      <4> QED BY <1>4, <4>1, IdxNext
    <3>3. s \in SeqNum /\ s \in Span(seqNext(rcvMax), m.seq) BY <2>2 DEF Revealed, Span
    <3>4. /\ 0 <= Idx(seqNext(rcvMax)) /\ Idx(seqNext(rcvMax)) <= MaxWrites
          /\ 0 <= Idx(m.seq) /\ Idx(m.seq) <= MaxWrites
      BY <1>4, <3>2
    <3>5. Idx(seqNext(rcvMax)) <= Idx(s) BY <1>4, <3>2, <3>3, <3>4, SpanIdx
    <3> QED BY <1>4, <3>1, <3>2, <3>3, <3>5, IdxType
  <2> QED BY <2>1, <2>2
<1> HIDE DEF buf, los
<1> QED BY <1>2, <1>3, <1>6, <1>8, <1>9, DeliverKept DEF sndVars

\* A tick delivers from the window as it is.
LEMMA ReceiverTickKept ==
    ASSUME CloseInv, LinkInv', NEW hz, NEW ackDue, NEW late, ReceiverTick(hz, ackDue, late)
    PROVE  AckedArrived' /\ WindowShut' /\ SenderShut' /\ PassedKept'
<1>1. /\ deliver(rcvBuf, loss, hz)
      /\ UNCHANGED <<sndVars, rcvMax, rcvState, finNet>>
  BY DEF ReceiverTick
<1>2. \A s \in DOMAIN rcvBuf : /\ s \in SeqNum
                               /\ rcvBuf[s] \in {Skip} \cup (0 .. (MaxWrites - 1))
                               /\ rcvBuf[s] # Skip => rcvBuf[s] = Idx(s)
  BY DEF CloseInv, LinkInv, TypeOK, ReceiverInv
<1>3. Idx(rcvMax) <= Idx(rcvMax') BY <1>1, IdxType DEF CloseInv, LinkInv, TypeOK
<1>4. sndDropped = {} => /\ \A s \in DOMAIN rcvBuf : rcvBuf[s] # Skip
                         /\ Alive(rcvState) => \A s \in loss : SndBase <= Idx(s)
  BY DEF CloseInv, AckedArrived
<1>5. rcvState \in {"closing", "closed"} => DOMAIN rcvBuf = {} BY DEF CloseInv, WindowShut
<1> QED BY <1>1, <1>2, <1>3, <1>4, <1>5, DeliverKept DEF sndVars

\* A drop request marks numbers the receiver misses and the sender let go:
\* there are none as long as nothing was let go for age, nor in a window that
\* is shut.
LEMMA HandleDropReqKept ==
    ASSUME CloseInv, LinkInv', NEW r \in dropNet, HandleDropReq(r)
    PROVE  AckedArrived' /\ WindowShut' /\ SenderShut' /\ PassedKept'
<1> DEFINE marks == {s \in SeqNum : /\ seqDiff(r[1], r[2]) <= MaxLossRange
                                    /\ Between(s, r)
                                    /\ seqDiff(rcvNext, s) >= 0
                                    /\ s \notin DOMAIN rcvBuf}
<1>1. LinkInv /\ TypeOK /\ SenderInv /\ ReceiverInv /\ NoSilentGap /\ AckedArrived /\ WindowShut
  BY DEF CloseInv, LinkInv
<1>2. /\ Alive(rcvState)
      /\ rcvBuf' = [s \in DOMAIN rcvBuf \cup marks |-> IF s \in marks THEN Skip ELSE rcvBuf[s]]
      /\ loss' = loss \ marks
      /\ \/ rcvMax' = rcvMax
         \/ \E top \in marks : seqLess(rcvMax, top) /\ rcvMax' = top
      /\ UNCHANGED <<sndVars, rcvNext, rcvState, delivered, gaveUp, discarded, finNet>>
  BY DEF HandleDropReq
<1>3. /\ written \in 0 .. MaxWrites /\ MaxWrites \in Nat /\ SndBase \in Int
      /\ rcvNext \in SeqNum /\ rcvMax \in SeqNum /\ Idx(rcvNext) \in Int /\ Idx(rcvMax) \in Int
      /\ 0 <= Idx(rcvNext) /\ Idx(rcvNext) <= Idx(rcvMax) + 1
      /\ -1 <= Idx(rcvMax) /\ Idx(rcvMax) < written
  <2>1. /\ written \in 0 .. MaxWrites /\ MaxWrites \in Nat /\ rcvNext \in SeqNum /\ rcvMax \in SeqNum
    BY <1>1, LinkAssumption DEF TypeOK
  <2>2. /\ 0 <= Idx(rcvNext) /\ Idx(rcvNext) <= Idx(rcvMax) + 1
        /\ -1 <= Idx(rcvMax) /\ Idx(rcvMax) < written
    BY <1>1 DEF ReceiverInv
  <2>3. SndBase \in Int BY <1>1, BaseIs
  <2> QED BY <2>1, <2>2, <2>3, IdxType
<1>4. ASSUME NEW s \in marks
      PROVE  /\ s \in SeqNum /\ Idx(s) \in Int /\ Idx(rcvNext) <= Idx(s) /\ Idx(s) <= Idx(rcvMax)
             /\ Idx(s) < SndBase /\ ~seqLess(rcvMax, s)
  BY <1>1, DropMarks
<1>5. rcvMax' = rcvMax BY <1>2, <1>4
<1>6. marks \subseteq loss
  <2> SUFFICES ASSUME NEW s \in marks PROVE s \in loss
    OBVIOUS
  <2>1. seqNext(rcvMax) \in SeqNum /\ Idx(seqNext(rcvMax)) = Idx(rcvMax) + 1
    <3>1. Idx(rcvMax) < MaxWrites BY <1>3
    <3> QED BY <1>3, <3>1, IdxNext
  <2>2. /\ 0 <= Idx(rcvNext) /\ Idx(rcvNext) <= MaxWrites
        /\ 0 <= Idx(seqNext(rcvMax)) /\ Idx(seqNext(rcvMax)) <= MaxWrites
    BY <1>3, <2>1
  <2>3. Idx(s) < Idx(seqNext(rcvMax)) BY <1>3, <1>4, <2>1
  <2>4. s \in Span(rcvNext, seqNext(rcvMax)) BY <1>3, <1>4, <2>1, <2>2, <2>3, SpanIdx
  <2>5. s \notin DOMAIN rcvBuf OBVIOUS
  <2> QED BY <1>1, <1>2, <2>4, <2>5 DEF NoSilentGap
<1>7. sndDropped = {} => marks = {}
  <2> SUFFICES ASSUME sndDropped = {}, NEW s \in marks PROVE FALSE
    OBVIOUS
  <2>1. SndBase <= Idx(s) BY <1>1, <1>2, <1>6 DEF AckedArrived
  <2> QED BY <1>3, <1>4, <2>1
<1>8. rcvState = "closing" => marks = {}
  <2> SUFFICES ASSUME rcvState = "closing", NEW s \in marks PROVE FALSE
    OBVIOUS
  <2>1. Idx(rcvNext) = Idx(rcvMax) + 1 BY <1>1 DEF WindowShut
  <2> QED BY <1>3, <1>4, <2>1
<1> HIDE DEF marks
<1>9. /\ UNCHANGED <<written, sndBuf, sndState, sndDropped, fin>> /\ SndBase' = SndBase
      /\ Kept' = Kept
  BY <1>2 DEF sndVars, SndBase, Kept, Delivered
<1>10. DOMAIN rcvBuf' = DOMAIN rcvBuf \cup marks BY <1>2
<1>11. AckedArrived'
  <2> SUFFICES ASSUME sndDropped = {}
               PROVE  /\ SndBase <= Idx(rcvMax) + 1
                      /\ Alive(rcvState) => \A s \in loss' : SndBase <= Idx(s)
                      /\ \A s \in DOMAIN rcvBuf' : rcvBuf'[s] # Skip
    BY <1>2, <1>5, <1>9 DEF AckedArrived
  <2>1. DOMAIN rcvBuf' = DOMAIN rcvBuf /\ \A s \in DOMAIN rcvBuf : rcvBuf'[s] = rcvBuf[s]
    BY <1>2, <1>7
  <2> QED BY <1>1, <1>2, <2>1 DEF AckedArrived
<1>12. WindowShut'
  <2>1. rcvState # "closed" BY <1>2 DEF Alive
  <2> QED BY <1>1, <1>2, <1>5, <1>8, <1>10, <2>1 DEF WindowShut
<1>13. SenderShut' BY <1>2, <1>9 DEF CloseInv, SenderShut
<1>14. PassedKept' BY <1>2, <1>9 DEF CloseInv, PassedKept
<1> QED BY <1>11, <1>12, <1>13, <1>14

\* flushReceived hands over what the window holds; what it misses, the sender
\* had not been told it has.
LEMMA HandleShutdownKept ==
    ASSUME CloseInv, LinkInv', HandleShutdown
    PROVE  AckedArrived' /\ WindowShut' /\ SenderShut' /\ PassedKept'
<1> DEFINE ps == Payloads(rcvBuf, DOMAIN rcvBuf)
<1>1. /\ LinkInv /\ TypeOK /\ SenderInv /\ ReceiverInv /\ NoSilentGap
      /\ AckedArrived /\ SenderShut /\ PassedKept
  BY DEF CloseInv, LinkInv
<1>2. /\ Alive(rcvState) /\ "toReceiver" \in finNet /\ Enqueue(ps)
      /\ DOMAIN rcvBuf' = {} /\ rcvNext' = seqNext(rcvMax)
      /\ rcvState' = "closed" /\ finNet' \subseteq finNet
      /\ UNCHANGED <<sndVars, rcvMax, loss, gaveUp>>
  BY DEF HandleShutdown, Rest
<1>3. /\ UNCHANGED <<written, sndBuf, sndState, sndDropped, fin>> /\ SndBase' = SndBase
      /\ ~Alive(rcvState')
  BY <1>2 DEF sndVars, SndBase, Alive
<1>4. /\ rcvNext \in SeqNum /\ rcvMax \in SeqNum /\ Idx(rcvNext) \in Int /\ Idx(rcvMax) \in Int
      /\ MaxWrites \in Nat /\ 0 <= Idx(rcvNext) /\ Idx(rcvNext) <= Idx(rcvMax) + 1
      /\ -1 <= Idx(rcvMax) /\ Idx(rcvMax) < MaxWrites
  <2>1. /\ written \in 0 .. MaxWrites /\ MaxWrites \in Nat /\ rcvNext \in SeqNum /\ rcvMax \in SeqNum
    BY <1>1, LinkAssumption DEF TypeOK
  <2>2. /\ 0 <= Idx(rcvNext) /\ Idx(rcvNext) <= Idx(rcvMax) + 1
        /\ -1 <= Idx(rcvMax) /\ Idx(rcvMax) < written
    BY <1>1 DEF ReceiverInv
  <2> QED BY <2>1, <2>2, IdxType
<1>5. rcvNext' \in SeqNum /\ Idx(rcvNext') = Idx(rcvMax) + 1 BY <1>2, <1>4, IdxNext
<1>6. AckedArrived' BY <1>1, <1>2, <1>3 DEF AckedArrived
<1>7. WindowShut' BY <1>2, <1>5 DEF WindowShut
<1>8. SenderShut' BY <1>1, <1>2, <1>3 DEF SenderShut
<1>9. ps \subseteq Delivered' \cup discarded' /\ Kept \subseteq Kept'
  <2>1. ps \in SUBSET (0 .. (MaxWrites - 1)) BY <1>1 DEF Payloads, TypeOK
  <2> HIDE DEF ps
  <2>2. /\ ps \subseteq Delivered' \cup discarded'
        /\ Delivered \subseteq Delivered' /\ discarded \subseteq discarded'
    BY <1>1, <1>2, <2>1, EnqueueKeeps
  <2> QED BY <1>2, <2>2 DEF Kept
<1>10. PassedKept'
  <2> SUFFICES ASSUME sndDropped = {}, NEW p \in 0 .. (Idx(rcvNext') - 1)
               PROVE  p \in Kept' \/ (~Alive(sndState) /\ p >= SndBase)
    BY <1>3 DEF PassedKept
  <2>1. CASE p < Idx(rcvNext)
    <3>1. p \in 0 .. (Idx(rcvNext) - 1) BY <1>4, <2>1
    <3> QED BY <1>1, <1>9, <3>1 DEF PassedKept
  <2>2. CASE ~(p < Idx(rcvNext))
    <3>1. p \in 0 .. MaxWrites BY <1>4, <1>5
    <3>2. PICK s \in SeqNum : Idx(s) = p BY <3>1, IdxOnto
    <3>3. s \in Span(rcvNext, rcvNext')
      <4>1. Idx(rcvNext) <= MaxWrites /\ 0 <= Idx(rcvNext') /\ Idx(rcvNext') <= MaxWrites
        BY <1>4, <1>5
      <4> QED BY <1>4, <1>5, <2>2, <3>2, <4>1, SpanIdx
    <3>4. CASE s \in DOMAIN rcvBuf
      <4>1. rcvBuf[s] = p /\ rcvBuf[s] # Skip
        BY <1>1, <3>2, <3>4 DEF AckedArrived, ReceiverInv
      <4>2. p \in ps BY <3>4, <4>1 DEF Payloads
      <4> QED BY <1>9, <4>2 DEF Kept
    <3>5. CASE s \in loss
      <4>1. SndBase <= p BY <1>1, <1>2, <3>2, <3>5 DEF AckedArrived
      <4>2. SndBase \in Int BY <1>1, BaseIs
      <4> QED BY <1>1, <1>2, <4>1, <4>2 DEF SenderShut
    <3> QED BY <1>1, <1>2, <3>3, <3>4, <3>5 DEF NoSilentGap
  <2> QED BY <2>1, <2>2
<1> QED BY <1>6, <1>7, <1>8, <1>10

\* Close of the reader's own side discards its window, the holes included.
LEMMA ReceiverCloseKept ==
    ASSUME CloseInv, LinkInv', ReceiverClose
    PROVE  AckedArrived' /\ WindowShut' /\ SenderShut' /\ PassedKept'
<1>1. TypeOK /\ ReceiverInv /\ AckedArrived /\ SenderShut /\ PassedKept
  BY DEF CloseInv, LinkInv
<1>2. /\ DOMAIN rcvBuf' = {} /\ loss' = {} /\ rcvNext' = seqNext(rcvMax)
      /\ discarded' = discarded \cup {Idx(s) : s \in Span(rcvNext, seqNext(rcvMax))}
      /\ UNCHANGED <<written, sndBuf, sndState, sndDropped, fin, rcvMax, delivered, gaveUp, finNet>>
  BY DEF ReceiverClose, sndVars, netVars
<1>3. SndBase' = SndBase BY <1>2 DEF SndBase
<1>4. /\ rcvNext \in SeqNum /\ rcvMax \in SeqNum /\ Idx(rcvNext) \in Int /\ Idx(rcvMax) \in Int
      /\ MaxWrites \in Nat /\ 0 <= Idx(rcvNext) /\ Idx(rcvNext) <= Idx(rcvMax) + 1
      /\ -1 <= Idx(rcvMax) /\ Idx(rcvMax) < MaxWrites
  <2>1. /\ written \in 0 .. MaxWrites /\ MaxWrites \in Nat /\ rcvNext \in SeqNum /\ rcvMax \in SeqNum
    BY <1>1, LinkAssumption DEF TypeOK
  <2>2. /\ 0 <= Idx(rcvNext) /\ Idx(rcvNext) <= Idx(rcvMax) + 1
        /\ -1 <= Idx(rcvMax) /\ Idx(rcvMax) < written
    BY <1>1 DEF ReceiverInv
  <2> QED BY <2>1, <2>2, IdxType
<1>5. rcvNext' \in SeqNum /\ Idx(rcvNext') = Idx(rcvMax) + 1 BY <1>2, <1>4, IdxNext
<1>6. AckedArrived' BY <1>1, <1>2, <1>3 DEF AckedArrived
<1>7. WindowShut' BY <1>2, <1>5 DEF WindowShut
<1>8. SenderShut' BY <1>1, <1>2 DEF SenderShut
<1>9. PassedKept'
  <2> SUFFICES ASSUME sndDropped = {}, NEW p \in 0 .. (Idx(rcvNext') - 1)
               PROVE  p \in Kept' \/ (~Alive(sndState) /\ p >= SndBase)
    BY <1>2, <1>3 DEF PassedKept
  <2>1. CASE p < Idx(rcvNext)
    <3>1. p \in 0 .. (Idx(rcvNext) - 1) BY <1>4, <2>1
    <3>2. Kept \subseteq Kept' BY <1>2 DEF Kept, Delivered
    <3> QED BY <1>1, <3>1, <3>2 DEF PassedKept
  <2>2. CASE ~(p < Idx(rcvNext))
    <3>1. p \in 0 .. MaxWrites BY <1>4, <1>5
    <3>2. PICK s \in SeqNum : Idx(s) = p BY <3>1, IdxOnto
    <3>3. Idx(rcvNext) <= MaxWrites /\ 0 <= Idx(rcvNext') /\ Idx(rcvNext') <= MaxWrites
      BY <1>4, <1>5
    <3>4. s \in Span(rcvNext, rcvNext') BY <1>4, <1>5, <2>2, <3>2, <3>3, SpanIdx
    <3>5. p \in discarded' BY <1>2, <3>2, <3>4
    <3> QED BY <3>5 DEF Kept
  <2> QED BY <2>1, <2>2
<1> QED BY <1>6, <1>7, <1>8, <1>9

\* Two fresh Conns have let go of nothing.
LEMMA InitClose == Init => CloseInv
<1> SUFFICES ASSUME Init PROVE CloseInv
  OBVIOUS
<1>1. /\ written = 0 /\ sndBuf = <<>> /\ sndState = "open"
      /\ rcvNext = ISN /\ rcvMax = seqAdd(ISN, -1) /\ DOMAIN rcvBuf = {} /\ loss = {}
      /\ rcvState = "open" /\ finNet = {} /\ fin = "none"
  BY DEF Init
<1>2. SndBase = 0 BY <1>1 DEF SndBase
<1>3. AckedArrived BY <1>1, <1>2, IdxStart DEF AckedArrived
<1>4. WindowShut BY <1>1 DEF WindowShut
<1>5. SenderShut BY <1>1 DEF SenderShut
<1>6. PassedKept BY <1>1, IdxStart DEF PassedKept
<1> QED BY <1>3, <1>4, <1>5, <1>6, InitInv DEF CloseInv

\* Every step of the link preserves it.
LEMMA NextClose == CloseInv /\ [Next]_vars => CloseInv'
<1> SUFFICES ASSUME CloseInv, [Next]_vars
             PROVE  AckedArrived' /\ WindowShut' /\ SenderShut' /\ PassedKept'
  BY NextInv DEF CloseInv
<1>1. LinkInv /\ LinkInv' BY NextInv DEF CloseInv
<1> USE DEF sndVars, rcvVars, netVars
<1>3. CASE Write BY <1>3, WriteKept
<1>4. CASE \E a \in ackNet : HandleACK(a) BY <1>4, HandleACKKept
<1>5. CASE \E r \in nakNet : \E again \in SUBSET Held(r) : HandleNAK(r, again)
  BY <1>5, FlagsKept DEF HandleNAK
<1>6. CASE TickSender BY <1>6, SenderTickKept DEF TickSender
<1>7. CASE SenderClose BY <1>7, FlagsKept DEF SenderClose, Alive
<1>8. CASE SenderCloseEnds BY <1>8, FlagsKept DEF SenderCloseEnds, Alive
<1>9. CASE SenderShutdown BY <1>9, FlagsKept DEF SenderShutdown, Alive, Rest
<1>10. CASE SenderIdle BY <1>10, FlagsKept DEF SenderIdle, Alive
<1>11. CASE \E m \in dataNet : handleData(m) BY <1>1, <1>11, handleDataKept
<1>12. CASE \E m \in dataNet : IgnoreData(m) BY <1>12, FlagsKept DEF IgnoreData
<1>13. CASE \E r \in dropNet : HandleDropReq(r) BY <1>1, <1>13, HandleDropReqKept
<1>14. CASE TickReceiver BY <1>1, <1>14, ReceiverTickKept DEF TickReceiver
<1>15. CASE Read BY <1>15, FlagsKept DEF Read
<1>16. CASE HandleShutdown BY <1>1, <1>16, HandleShutdownKept
<1>17. CASE ReceiverClose BY <1>1, <1>17, ReceiverCloseKept
<1>18. CASE ReceiverCloseEnds BY <1>18, FlagsKept DEF ReceiverCloseEnds, Alive
<1>19. CASE ReceiverIdle BY <1>19, FlagsKept DEF ReceiverIdle, Alive
<1>20. CASE Lose
  <2>1. UNCHANGED <<sndVars, rcvVars>> /\ finNet' \subseteq finNet BY <1>20 DEF Lose
  <2> QED BY <2>1, FlagsKept
<1>21. CASE UNCHANGED vars BY <1>21, FlagsKept DEF vars
<1> QED
  BY <1>3, <1>4, <1>5, <1>6, <1>7, <1>8, <1>9, <1>10, <1>11, <1>12, <1>13, <1>14, <1>15, <1>16,
     <1>17, <1>18, <1>19, <1>20, <1>21 DEF Next

-------------------------------------------------------------------------------
\* The two halves agree on what has arrived, whatever the network does.
THEOREM CloseInvariant == Spec => []CloseInv
BY InitClose, NextClose, PTL DEF Spec

\* Close with everything acknowledged, and nothing let go for age, leaves no
\* packet unaccounted for at the reader (Close, flushReceived).
THEOREM CleanCloseLosesNothing == Spec => []CleanCloseKeepsAll
<1>1. CloseInv => CleanCloseKeepsAll
  <2> SUFFICES ASSUME CloseInv, fin = "clean", sndDropped = {}, rcvState = "closed",
                      NEW p \in 0 .. (written - 1)
               PROVE  p \in Kept
    BY DEF CleanCloseKeepsAll, Kept, Delivered
  <2>1. written \in 0 .. MaxWrites /\ MaxWrites \in Nat /\ Idx(rcvNext) \in Int
    BY IdxType, LinkAssumption DEF CloseInv, LinkInv, TypeOK
  <2>2. SndBase = written BY DEF CloseInv, SenderShut, SndBase
  <2>3. written <= Idx(rcvNext) BY <2>2 DEF CloseInv, AckedArrived, WindowShut
  <2>4. p \in 0 .. (Idx(rcvNext) - 1) BY <2>1, <2>3
  <2> QED BY <2>1, <2>2, <2>4 DEF CloseInv, PassedKept
<1> QED BY <1>1, CloseInvariant, PTL

===============================================================================
