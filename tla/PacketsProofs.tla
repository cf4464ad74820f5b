------------------------------ MODULE PacketsProofs ------------------------------
(***************************************************************************)
(* Proofs about Packets.  For an RTP stream: the packer numbers its        *)
(* packets on, the network takes them no further from their place than it  *)
(* has faults, and the counts of the receiver's RtcpContext follow from    *)
(* what came, so that its reports are honest; every packet holds whole NAL *)
(* units or a fragment that goes on where the one before it ends, and so   *)
(* does the unpacker's buffer, so that no frame is a splice of two.  For   *)
(* the payload of SRT: the widened clock is that of the latest packet and  *)
(* the keys of the two ends differ only where nothing that comes tells, so *)
(* that every packet is taken as it was written, at its time.              *)
(***************************************************************************)
EXTENDS Packets, FiniteSetTheorems, SequenceTheorems, WellFoundedInduction, TLAPS

InRtp == part = "rtp"

\* A sequence, of whatever it holds.
IsSeq(s) == s \in Seq({s[i] : i \in DOMAIN s})
Runs == [n : Nat, lo : Int, hi : Int]
Numbers == 0 .. SeqRange - 1
Counts ==
    [maxSeq : Numbers, cycles : Int, baseSeq : Numbers, badSeq : Int, probation : 0 .. MinSequential,
     received : Int, expectPrior : Int, receivedPrior : Int]

\* The number a packet got for its place in the stream.
NumberOf(id) == (mux.first + id - 1) % SeqRange

\* The record has its fields, what the packer keeps are runs, and its next number
\* is that of the next packet.  Nothing goes out before the packer is done.
PackerOk ==
    /\ mux \in [cid : {au.cid : au \in RtpUnits}, stap : BOOLEAN, sequence : Numbers, sps : Runs, pps : Runs,
                ts : Int, first : Numbers, closed : BOOLEAN]
    /\ IsSeq(given)
    /\ ~mux.closed => wire.lost = {} /\ mux.sequence = NumberOf(Len(wire.pkts) + 1)

WireTyped ==
    /\ wire = [pkts |-> wire.pkts, rd |-> wire.rd, lost |-> wire.lost, twice |-> wire.twice,
               moved |-> wire.moved, log |-> wire.log]
    /\ IsSeq(wire.pkts) /\ wire.rd \in Nat \ {0} /\ wire.twice \in Nat /\ wire.moved \in Nat
    /\ wire.log \in Seq(Nat \ {0}) /\ IsFiniteSet(wire.lost)

\* Packets carry their number.  None is farther from its place than packets
\* were moved, and those still to come have not been lost.
PacketsOk ==
    /\ \A i \in 1 .. Len(wire.pkts) :
          LET p == wire.pkts[i] IN
          /\ p.id \in Nat \ {0} /\ p.seq = NumberOf(p.id)
          /\ p.id - i <= wire.moved /\ i - p.id <= wire.moved
          /\ ~mux.closed => p.id = i
          /\ i >= wire.rd => p.id \notin wire.lost
          /\ \A j \in 1 .. Len(wire.pkts) : wire.pkts[j].id = p.id => i = j
    /\ Rtp!Faults <= MaxFaults

\* The last packet that came is about where the receiver is.
LogOk ==
    /\ ~mux.closed => wire.log = <<>>
    /\ LET n == Len(wire.log) IN
       n > 0 => /\ wire.log[n] - wire.rd <= 1 + Rtp!Faults
                /\ wire.rd - wire.log[n] <= 1 + Rtp!Faults

\* The counts of the receiver follow from what came and from the last report.
CountsOk ==
    LET ctx  == dem.ctx
        log  == wire.log
        n    == Len(log)
        base == Rtp!Base(log)
        last == dem.reports[Len(dem.reports)]
    IN  /\ dem = [timestamp |-> dem.timestamp, lastSequence |-> dem.lastSequence, lost |-> dem.lost,
                  buf |-> dem.buf, ctx |-> ctx, reports |-> dem.reports]
        /\ ctx \in Counts /\ IsSeq(dem.reports)
        /\ base = 0 =>
              /\ dem.reports = <<>>
              /\ n = 0 => ctx.probation = 2
              /\ n > 0 => ctx.probation = 1 /\ ctx.maxSeq = NumberOf(log[n])
        /\ base # 0 => ctx.probation = 0
        /\ base # 0 /\ Rtp!Steady(log) =>
              /\ ctx.baseSeq = NumberOf(log[base])
              /\ ctx.maxSeq = NumberOf(Rtp!Highest(log, n))
              /\ ctx.cycles + ctx.maxSeq = ctx.baseSeq + Rtp!Expected(log, n) - 1
              /\ ctx.received = n - base + 1
              /\ ctx.expectPrior = (IF dem.reports = <<>> THEN 0 ELSE Rtp!Expected(log, last.at))
              /\ ctx.receivedPrior = (IF dem.reports = <<>> THEN 0 ELSE last.at - base + 1)

\* A report was made of a log that has grown since.
ReportsOk ==
    LET log == wire.log IN
    \A i \in 1 .. Len(dem.reports) :
       /\ dem.reports[i].at \in Rtp!Base(log) .. Len(log)
       /\ i > 1 => dem.reports[i - 1].at <= dem.reports[i].at
       /\ Rtp!Steady(log) => Rtp!Honest(log, dem.reports, i)

RtpInvariant == PackerOk /\ WireTyped /\ PacketsOk /\ LogOk /\ CountsOk /\ ReportsOk
-------------------------------------------------------------------------------
(* Circular numbers.                                                         *)

\* A number and its turn.
LEMMA TurnOf ==
    ASSUME NEW r \in Nat \ {0}, NEW x \in Int
    PROVE  x % r \in 0 .. r - 1 /\ x \div r \in Int /\ x = (x \div r) * r + (x % r)
OBVIOUS

\* A number within a turn is what is left of it.
LEMMA InTurn ==
    ASSUME NEW r \in Nat \ {0}, NEW q \in Int, NEW x \in 0 .. r - 1
    PROVE  (q * r + x) % r = x
OBVIOUS

\* A step of less than a turn (updateSeq, extendTs).
LEMMA StepOn ==
    ASSUME NEW r \in Nat \ {0}, NEW x \in Int, NEW s \in 0 .. r - 1
    PROVE  (x + s) % r = IF (x % r) + s < r THEN (x % r) + s ELSE (x % r) + s - r
<1> DEFINE q == x \div r
           y == x % r
<1>1. y \in 0 .. r - 1 /\ q \in Int /\ x = q * r + y BY TurnOf
<1> HIDE DEF q, y
<1>2. CASE y + s < r
  <2>1. x + s = q * r + (y + s) BY <1>1
  <2>2. (x + s) % r = y + s BY <1>1, <1>2, <2>1, InTurn
  <2> QED BY <1>2, <2>2 DEF y
<1>3. CASE ~(y + s < r)
  <2>1. x + s = (q + 1) * r + (y + s - r) /\ q + 1 \in Int BY <1>1
  <2>2. y + s - r \in 0 .. r - 1 BY <1>1, <1>3
  <2>3. (x + s) % r = y + s - r BY <2>1, <2>2, InTurn
  <2> QED BY <1>3, <2>3 DEF y
<1> QED BY <1>2, <1>3

\* A step back.
LEMMA StepBack ==
    ASSUME NEW r \in Nat \ {0}, NEW x \in Int, NEW s \in 1 .. r - 1
    PROVE  (x - s) % r = IF (x % r) - s >= 0 THEN (x % r) - s ELSE (x % r) - s + r
<1> DEFINE q == x \div r
           y == x % r
<1>1. y \in 0 .. r - 1 /\ q \in Int /\ x = q * r + y BY TurnOf
<1> HIDE DEF q, y
<1>2. CASE y - s >= 0
  <2>1. x - s = q * r + (y - s) BY <1>1
  <2>2. (x - s) % r = y - s BY <1>1, <1>2, <2>1, InTurn
  <2> QED BY <1>2, <2>2 DEF y
<1>3. CASE ~(y - s >= 0)
  <2>1. x - s = (q - 1) * r + (y - s + r) /\ q - 1 \in Int BY <1>1
  <2>2. y - s + r \in 0 .. r - 1 BY <1>1, <1>3
  <2>3. (x - s) % r = y - s + r BY <2>1, <2>2, InTurn
  <2> QED BY <1>3, <2>3 DEF y
<1> QED BY <1>2, <1>3

\* Numbers of two places are the same only a turn apart.
LEMMA SameNumber ==
    ASSUME NEW r \in Nat \ {0}, NEW x \in Int, NEW y \in Int, x % r = y % r, x - y < r, y - x < r
    PROVE  x = y
<1> DEFINE p == x \div r
           q == y \div r
           m == x % r
<1>1. p \in Int /\ q \in Int /\ x = p * r + m /\ y = q * r + m /\ m \in Int BY TurnOf
<1> HIDE DEF p, q, m
<1>2. x - y = (p - q) * r /\ p - q \in Int BY <1>1
<1> DEFINE d == p - q
<1>3. d \in Int /\ d * r < r /\ d * r > -r BY <1>1, <1>2
<1> HIDE DEF d
<1>4. d = 0 BY <1>3
<1> QED BY <1>1, <1>2, <1>4 DEF d

-------------------------------------------------------------------------------
(* Least and largest elements.                                               *)

\* Some number is the least of a set of them.
LEMMA Least ==
    ASSUME NEW L, L \subseteq Nat, L # {}
    PROVE  \E n \in L : \A m \in L : n <= m
<1>1. PICK n \in L : \A m \in L : ~ (<<m, n>> \in OpToRel(<, Nat))
  BY NatLessThanWellFounded, WFMin, Zenon
<1>2. ASSUME NEW m \in L PROVE n <= m
  <2>1. m \in Nat /\ n \in Nat OBVIOUS
  <2>2. ~ (m < n) BY <1>1, <2>1, Zenon DEF OpToRel
  <2> QED BY <2>1, <2>2
<1> QED BY <1>2

\* The least element is one, and none is smaller.
LEMMA MinOf ==
    ASSUME NEW L, L \subseteq Nat, L # {}
    PROVE  Rtp!Min(L) \in L /\ \A m \in L : Rtp!Min(L) <= m
BY Least, Zenon DEF Rtp!Min

\* So is the largest, where there is one.
LEMMA MaxOf ==
    ASSUME NEW L, NEW h \in L, \A m \in L : h >= m
    PROVE  Rtp!Max(L) \in L /\ \A m \in L : Rtp!Max(L) >= m
BY Zenon DEF Rtp!Max

-------------------------------------------------------------------------------
(* The log of what came, as it grows.                                        *)

Logs == Seq(Nat \ {0})

\* Among the places of a log there is one of the largest entry.
LEMMA Largest ==
    ASSUME NEW log \in Logs, NEW b \in 1 .. Len(log)
    PROVE  \A k \in b .. Len(log) : \E j \in b .. k : \A i \in b .. k : log[j] >= log[i]
<1> DEFINE n == Len(log)
           Bad == {k \in b .. n : ~ \E j \in b .. k : \A i \in b .. k : log[j] >= log[i]}
<1>1. n \in Nat /\ b \in 1 .. n /\ \A i \in 1 .. n : log[i] \in Nat BY DEF Logs
<1>2. SUFFICES ASSUME Bad # {} PROVE FALSE OBVIOUS
<1>3. Bad \subseteq Nat BY <1>1
<1>4. PICK k \in Bad : \A m \in Bad : k <= m BY <1>2, <1>3, Least, Zenon
<1>5. k \in b .. n /\ ~ \E j \in b .. k : \A i \in b .. k : log[j] >= log[i] OBVIOUS
<1>13. \A m \in b .. n : m \notin Bad => \E j \in b .. m : \A i \in b .. m : log[j] >= log[i] OBVIOUS
<1> HIDE DEF Bad, n
<1>6. k # b
  <2>1. b \in b .. b /\ \A i \in b .. b : log[b] >= log[i] BY <1>1
  <2> QED BY <1>5, <2>1
<1>7. k - 1 \in b .. n /\ k - 1 \notin Bad BY <1>1, <1>4, <1>5, <1>6
<1>8. PICK j \in b .. k - 1 : \A i \in b .. k - 1 : log[j] >= log[i] BY <1>7, <1>13
<1>9. \A i \in b .. k : i \in b .. k - 1 \/ i = k BY <1>1, <1>5
<1>10. j \in b .. k /\ k \in b .. k /\ log[j] \in Nat /\ log[k] \in Nat
  <2>1. b \in Nat /\ k \in Nat /\ b <= k /\ k <= n /\ j \in Nat /\ b <= j /\ j <= k /\ 1 <= b BY <1>1, <1>5, <1>8
  <2>2. j \in 1 .. n /\ k \in 1 .. n BY <1>1, <2>1
  <2>3. log[j] \in Nat /\ log[k] \in Nat BY <1>1, <2>2
  <2> QED BY <2>1, <2>3
<1>11. CASE log[j] >= log[k]
  <2>1. \A i \in b .. k : log[j] >= log[i] BY <1>8, <1>9, <1>11
  <2> QED BY <1>5, <1>10, <2>1
<1>12. CASE ~(log[j] >= log[k])
  <2>1. ASSUME NEW i \in b .. k PROVE log[k] >= log[i]
    <3>1. CASE i = k BY <3>1, <1>10
    <3>2. CASE i \in b .. k - 1
      <4>1. i \in 1 .. n BY <1>1, <1>5, <3>2
      <4>3. log[i] \in Nat BY <1>1, <4>1
      <4> QED BY <1>8, <1>10, <1>12, <3>2, <4>3
    <3> QED BY <3>1, <3>2, <1>9
  <2> QED BY <1>5, <1>10, <2>1
<1> QED BY <1>11, <1>12

\* The base is the first place that follows its predecessor.
LEMMA BaseIs ==
    ASSUME NEW log \in Logs
    PROVE  /\ Rtp!Base(log) \in 0 .. Len(log)
           /\ Rtp!Base(log) # 0 => /\ Rtp!Base(log) > 1
                                   /\ log[Rtp!Base(log)] = log[Rtp!Base(log) - 1] + 1
                                   /\ \A i \in 2 .. Rtp!Base(log) - 1 : log[i] # log[i - 1] + 1
           /\ Rtp!Base(log) = 0 => \A i \in 2 .. Len(log) : log[i] # log[i - 1] + 1
<1> DEFINE n == Len(log)
           ends == {i \in DOMAIN log : i > 1 /\ log[i] = log[i - 1] + 1}
<1>1. n \in Nat /\ DOMAIN log = 1 .. n BY DEF Logs
<1>2. Rtp!Base(log) = IF ends = {} THEN 0 ELSE Rtp!Min(ends) BY DEF Rtp!Base
<1>3. ends \subseteq Nat BY <1>1
<1>4. \A i \in 2 .. n : log[i] = log[i - 1] + 1 => i \in ends BY <1>1
<1>5. CASE ends = {}
  <2>1. \A i \in 2 .. n : log[i] # log[i - 1] + 1 BY <1>4, <1>5
  <2>2. Rtp!Base(log) = 0 BY <1>2, <1>5
  <2> QED BY <1>1, <2>1, <2>2
<1>6. CASE ends # {}
  <2> DEFINE b == Rtp!Min(ends)
  <2>1. b \in ends /\ \A m \in ends : b <= m BY <1>3, <1>6, MinOf, Zenon
  <2>2. Rtp!Base(log) = b BY <1>2, <1>6
  <2> HIDE DEF b
  <2>3. b \in 1 .. n /\ b > 1 /\ log[b] = log[b - 1] + 1 BY <1>1, <2>1
  <2> HIDE DEF ends, n
  <2>4. ASSUME NEW i \in 2 .. b - 1 PROVE log[i] # log[i - 1] + 1
    <3>1. i \in 2 .. n /\ ~(b <= i) BY <1>1, <2>3
    <3> QED BY <1>4, <2>1, <3>1
  <2> QED BY <1>1, <2>2, <2>3, <2>4 DEF n
<1> QED BY <1>5, <1>6

\* The base is the only such place.
LEMMA BaseOnly ==
    ASSUME NEW log \in Logs, NEW b \in 2 .. Len(log), log[b] = log[b - 1] + 1,
           \A i \in 2 .. b - 1 : log[i] # log[i - 1] + 1
    PROVE  Rtp!Base(log) = b
<1> DEFINE c == Rtp!Base(log)
<1>1. /\ c \in 0 .. Len(log)
      /\ c # 0 => c > 1 /\ log[c] = log[c - 1] + 1 /\ \A i \in 2 .. c - 1 : log[i] # log[i - 1] + 1
      /\ c = 0 => \A i \in 2 .. Len(log) : log[i] # log[i - 1] + 1
  BY BaseIs
<1>2. Len(log) \in Nat BY DEF Logs
<1> HIDE DEF c
<1>3. c # 0 BY <1>1
<1>4. ~(c < b)
  <2>1. SUFFICES ASSUME c < b PROVE FALSE OBVIOUS
  <2>2. c \in 2 .. b - 1 BY <1>1, <1>2, <1>3, <2>1
  <2> QED BY <1>1, <1>3, <2>2
<1>5. ~(b < c)
  <2>1. SUFFICES ASSUME b < c PROVE FALSE OBVIOUS
  <2>2. b \in 2 .. c - 1 BY <1>1, <1>2, <2>1
  <2> QED BY <1>1, <1>3, <2>2
<1> QED BY <1>1, <1>2, <1>4, <1>5 DEF c

\* A packet comes.
LEMMA LogGrows ==
    ASSUME NEW log \in Logs, NEW id \in Nat \ {0}
    PROVE  /\ Append(log, id) \in Logs /\ Len(log) \in Nat /\ Len(Append(log, id)) = Len(log) + 1
           /\ \A i \in 1 .. Len(log) : Append(log, id)[i] = log[i] /\ log[i] \in Nat \ {0}
           /\ Append(log, id)[Len(log) + 1] = id
BY DEF Logs

\* The base stays; the first packet in sequence is the base.
LEMMA BaseGrows ==
    ASSUME NEW log \in Logs, NEW id \in Nat \ {0}
    PROVE  Rtp!Base(Append(log, id)) =
              IF Rtp!Base(log) # 0 THEN Rtp!Base(log)
              ELSE IF Len(log) > 0 /\ id = log[Len(log)] + 1 THEN Len(log) + 1 ELSE 0
<1> DEFINE t == Append(log, id)
           n == Len(log)
           b == Rtp!Base(log)
           c == Rtp!Base(t)
<1>1. /\ t \in Logs /\ n \in Nat /\ Len(t) = n + 1 /\ t[n + 1] = id
      /\ \A i \in 1 .. n : t[i] = log[i] /\ log[i] \in Nat \ {0}
  BY LogGrows
<1>2. /\ b \in 0 .. n
      /\ b # 0 => b > 1 /\ log[b] = log[b - 1] + 1 /\ \A i \in 2 .. b - 1 : log[i] # log[i - 1] + 1
      /\ b = 0 => \A i \in 2 .. n : log[i] # log[i - 1] + 1
  BY BaseIs
<1> HIDE DEF t, n, b
<1>3. CASE b # 0
  <2>1. b \in 2 .. Len(t) /\ t[b] = t[b - 1] + 1 BY <1>1, <1>2, <1>3
  <2>2. \A i \in 2 .. b - 1 : t[i] # t[i - 1] + 1 BY <1>1, <1>2, <1>3
  <2>3. c = b BY <1>1, <2>1, <2>2, BaseOnly
  <2> QED BY <1>3, <2>3 DEF t, n, b
<1>4. CASE b = 0 /\ n > 0 /\ id = log[n] + 1
  <2>1. n + 1 \in 2 .. Len(t) /\ t[n + 1] = t[n] + 1 BY <1>1, <1>4
  <2>2. ASSUME NEW i \in 2 .. n PROVE t[i] # t[i - 1] + 1
    <3>1. i \in 1 .. n /\ i - 1 \in 1 .. n BY <1>1
    <3> QED BY <1>1, <1>2, <1>4, <3>1
  <2>3. (n + 1) - 1 = n BY <1>1
  <2>4. c = n + 1 BY <1>1, <2>1, <2>2, <2>3, BaseOnly
  <2> QED BY <1>4, <2>4 DEF t, n, b
<1>5. CASE b = 0 /\ ~(n > 0 /\ id = log[n] + 1)
  <2>1. \A i \in 2 .. n + 1 : t[i] # t[i - 1] + 1
    <3>1. ASSUME NEW i \in 2 .. n + 1 PROVE t[i] # t[i - 1] + 1
      <4>1. CASE i \in 2 .. n
        <5>1. i \in 1 .. n /\ i - 1 \in 1 .. n BY <1>1, <4>1
        <5>2. t[i] = log[i] /\ t[i - 1] = log[i - 1] BY <1>1, <5>1
        <5> QED BY <1>2, <1>5, <4>1, <5>2
      <4>2. CASE i = n + 1
        <5>1. n > 0 /\ i - 1 = n /\ n \in 1 .. n BY <1>1, <4>2
        <5>2. t[i] = id /\ t[i - 1] = log[n] BY <1>1, <4>2, <5>1
        <5> QED BY <1>5, <5>1, <5>2
      <4> QED BY <1>1, <4>1, <4>2
    <3> QED BY <3>1
  <2>2. /\ c \in 0 .. Len(t)
        /\ c # 0 => c > 1 /\ t[c] = t[c - 1] + 1
    BY <1>1, BaseIs
  <2>3. c = 0 BY <1>1, <2>1, <2>2
  <2> QED BY <1>5, <2>3 DEF t, n, b
<1> QED BY <1>2, <1>3, <1>4, <1>5

\* The highest packet of a log is one of it.
LEMMA HighestIs ==
    ASSUME NEW log \in Logs, NEW k \in Rtp!Base(log) .. Len(log), Rtp!Base(log) # 0
    PROVE  /\ Rtp!Highest(log, k) \in Nat
           /\ \E j \in Rtp!Base(log) .. k : Rtp!Highest(log, k) = log[j]
           /\ \A i \in Rtp!Base(log) .. k : log[i] <= Rtp!Highest(log, k)
<1> DEFINE b == Rtp!Base(log)
           S == {log[i] : i \in b .. k}
<1>1. b \in 1 .. Len(log) BY BaseIs
<1>2. Len(log) \in Nat /\ \A i \in 1 .. Len(log) : log[i] \in Nat BY DEF Logs
<1>3. PICK j \in b .. k : \A i \in b .. k : log[j] >= log[i] BY <1>1, Largest, Zenon
<1>4. log[j] \in S /\ \A m \in S : log[j] >= m BY <1>3
<1>5. Rtp!Max(S) \in S /\ \A m \in S : Rtp!Max(S) >= m BY <1>4, MaxOf
<1>6. Rtp!Highest(log, k) = Rtp!Max(S) BY DEF Rtp!Highest
<1> HIDE DEF b
<1>7. S \subseteq Nat BY <1>1, <1>2
<1> DEFINE h == Rtp!Max(S)
<1>8. h \in Nat /\ h \in S /\ \A m \in S : h >= m BY <1>5, <1>7
<1> HIDE DEF h
<1>9. \A i \in b .. k : log[i] <= h
  <2>1. ASSUME NEW i \in b .. k PROVE log[i] <= h
    <3>1. log[i] \in S /\ log[i] \in Nat BY <1>1, <1>2
    <3> QED BY <1>8, <3>1
  <2> QED BY <2>1
<1> QED BY <1>6, <1>8, <1>9 DEF h, b

\* It is the only such packet.
LEMMA HighestOnly ==
    ASSUME NEW log \in Logs, NEW k \in Rtp!Base(log) .. Len(log), Rtp!Base(log) # 0,
           NEW j \in Rtp!Base(log) .. k, \A i \in Rtp!Base(log) .. k : log[i] <= log[j]
    PROVE  Rtp!Highest(log, k) = log[j]
<1> DEFINE b == Rtp!Base(log)
           h == Rtp!Highest(log, k)
<1>1. b \in 1 .. Len(log) BY BaseIs
<1>2. Len(log) \in Nat /\ \A i \in 1 .. Len(log) : log[i] \in Nat BY DEF Logs
<1>3. /\ h \in Nat /\ \E i \in b .. k : h = log[i]
      /\ \A i \in b .. k : log[i] <= h
  BY HighestIs
<1> HIDE DEF b, h
<1>4. b \in Int /\ k \in Int BY <1>1, <1>2 DEF b
<1>5. j \in b .. k /\ log[j] \in Nat BY <1>1, <1>2, <1>4 DEF b
<1>6. log[j] <= h /\ h <= log[j] BY <1>3 DEF b
<1> QED BY <1>3, <1>5, <1>6 DEF h

\* At the base the packet there is the highest.
LEMMA HighestAtBase ==
    ASSUME NEW log \in Logs, Rtp!Base(log) # 0
    PROVE  Rtp!Highest(log, Rtp!Base(log)) = log[Rtp!Base(log)]
<1> DEFINE b == Rtp!Base(log)
<1>1. b \in 1 .. Len(log) BY BaseIs
<1>2. Len(log) \in Nat /\ \A i \in 1 .. Len(log) : log[i] \in Nat BY DEF Logs
<1>3. b \in b .. Len(log) /\ b \in b .. b /\ \A i \in b .. b : log[i] <= log[b] BY <1>1, <1>2
<1> QED BY <1>3, HighestOnly

\* What was highest before a packet came still was, and the packet may be higher.
LEMMA HighestGrows ==
    ASSUME NEW log \in Logs, NEW id \in Nat \ {0}, Rtp!Base(log) # 0
    PROVE  /\ \A k \in Rtp!Base(log) .. Len(log) : Rtp!Highest(Append(log, id), k) = Rtp!Highest(log, k)
           /\ Rtp!Highest(Append(log, id), Len(log) + 1) =
                 IF id > Rtp!Highest(log, Len(log)) THEN id ELSE Rtp!Highest(log, Len(log))
<1> DEFINE t == Append(log, id)
           n == Len(log)
           b == Rtp!Base(log)
<1>1. /\ t \in Logs /\ n \in Nat /\ Len(t) = n + 1 /\ t[n + 1] = id
      /\ \A i \in 1 .. n : t[i] = log[i] /\ log[i] \in Nat \ {0}
  BY LogGrows
<1>2. b \in 1 .. n BY BaseIs
<1>3. Rtp!Base(t) = b BY BaseGrows
<1>4. ASSUME NEW k \in b .. n
      PROVE  /\ Rtp!Highest(t, k) = Rtp!Highest(log, k)
             /\ Rtp!Highest(log, k) \in Nat
             /\ \E j \in b .. k : Rtp!Highest(log, k) = log[j]
             /\ \A i \in b .. k : log[i] <= Rtp!Highest(log, k)
  <2> DEFINE h == Rtp!Highest(log, k)
  <2>1. /\ h \in Nat /\ \E j \in b .. k : h = log[j]
        /\ \A i \in b .. k : log[i] <= h
    BY HighestIs
  <2> HIDE DEF h, b, n
  <2>2. PICK j \in b .. k : h = log[j] BY <2>1
  <2>3. \A i \in b .. k : i \in 1 .. n BY <1>1, <1>2
  <2>4. \A i \in b .. k : t[i] <= t[j] BY <1>1, <2>1, <2>2, <2>3
  <2>5. k \in b .. Len(t) /\ b # 0 BY <1>1, <1>2
  <2>6. Rtp!Highest(t, k) = t[j] BY <1>1, <1>3, <2>2, <2>4, <2>5, HighestOnly
  <2>7. t[j] = h BY <1>1, <2>2, <2>3
  <2> QED BY <2>1, <2>6, <2>7 DEF h
<1> DEFINE h == Rtp!Highest(log, n)
<1>5. n \in b .. n BY <1>1, <1>2
<1>6. h \in Nat /\ (\E j \in b .. n : h = log[j]) /\ \A i \in b .. n : log[i] <= h BY <1>4, <1>5
<1> HIDE DEF b, h, t, n
<1>7. n + 1 \in b .. Len(t) /\ n + 1 \in b .. n + 1 BY <1>1, <1>2
<1>8. \A i \in b .. n + 1 : i = n + 1 \/ (i \in b .. n /\ i \in 1 .. n) BY <1>1, <1>2
<1>9. b # 0 BY <1>2
<1>10. CASE id > h
  <2>1. \A i \in b .. n + 1 : t[i] <= t[n + 1]
    <3>1. ASSUME NEW i \in b .. n + 1 PROVE t[i] <= t[n + 1]
      <4>1. CASE i = n + 1 BY <1>1, <4>1
      <4>2. CASE i \in b .. n /\ i \in 1 .. n
        <5>1. t[i] = log[i] /\ log[i] \in Nat /\ log[i] <= h BY <1>1, <1>6, <4>2
        <5> QED BY <1>1, <1>6, <1>10, <5>1
      <4> QED BY <1>8, <4>1, <4>2
    <3> QED BY <3>1
  <2>2. Rtp!Highest(t, n + 1) = id BY <1>1, <1>3, <1>7, <1>9, <2>1, HighestOnly
  <2> QED BY <1>4, <1>10, <2>2 DEF t, n, h, b
<1>11. CASE ~(id > h)
  <2>1. PICK j \in b .. n : h = log[j] BY <1>6
  <2>2. j \in b .. n + 1 /\ j \in 1 .. n BY <1>1, <1>2, <2>1
  <2>3. \A i \in b .. n + 1 : t[i] <= t[j]
    <3>1. ASSUME NEW i \in b .. n + 1 PROVE t[i] <= t[j]
      <4>1. CASE i = n + 1 BY <1>1, <1>6, <1>11, <2>1, <2>2, <4>1
      <4>2. CASE i \in b .. n /\ i \in 1 .. n BY <1>1, <1>6, <2>1, <2>2, <4>2
      <4> QED BY <1>8, <4>1, <4>2
    <3> QED BY <3>1
  <2>4. Rtp!Highest(t, n + 1) = t[j] BY <1>1, <1>3, <1>7, <1>9, <2>2, <2>3, HighestOnly
  <2>5. t[j] = h BY <1>1, <2>1, <2>2
  <2> QED BY <1>4, <1>11, <2>4, <2>5 DEF t, n, h, b
<1> QED BY <1>10, <1>11

\* The constants of RtpStream.
LEMMA RtpConstants ==
    /\ SeqRange \in Nat \ {0} /\ MinSequential \in Nat \ {0} /\ MaxDropout \in Nat \ {0} /\ MaxMisorder \in Nat \ {0}
    /\ Mtu \in Nat \ {0} /\ HeadLen \in Nat \ {0} /\ Mtu > HeadLen + 3 /\ MaxFaults \in Nat
    /\ FirstSeqs \subseteq Numbers /\ MaxDropout + MaxMisorder <= SeqRange /\ SeqRange > 1
BY PacketsAssumption DEF Rtp!RtpAssumption, Numbers

\* A steady log was steady, and the packet that came is in the windows.
LEMMA SteadyGrows ==
    ASSUME NEW log \in Logs, NEW id \in Nat \ {0}, Rtp!Base(log) # 0, Rtp!Steady(Append(log, id))
    PROVE  /\ Rtp!Steady(log)
           /\ id - Rtp!Highest(log, Len(log)) < MaxDropout
           /\ id - Rtp!Highest(log, Len(log)) > -MaxMisorder
<1> DEFINE t == Append(log, id)
           n == Len(log)
           b == Rtp!Base(log)
<1>1. /\ n \in Nat /\ Len(t) = n + 1 /\ t[n + 1] = id
      /\ \A i \in 1 .. n : t[i] = log[i]
  BY LogGrows
<1>2. b \in 1 .. n BY BaseIs
<1>3. Rtp!Base(t) = b BY BaseGrows
<1>4. \A k \in b .. n : Rtp!Highest(t, k) = Rtp!Highest(log, k) BY HighestGrows
<1>5. \A i \in b + 1 .. n + 1 :
         t[i] - Rtp!Highest(t, i - 1) < MaxDropout /\ t[i] - Rtp!Highest(t, i - 1) > -MaxMisorder
  BY <1>1, <1>3 DEF Rtp!Steady
<1> HIDE DEF t, b, n
<1>6. n + 1 \in b + 1 .. n + 1 /\ (n + 1) - 1 = n /\ n \in b .. n BY <1>1, <1>2
<1>7. id - Rtp!Highest(log, n) < MaxDropout /\ id - Rtp!Highest(log, n) > -MaxMisorder
  BY <1>1, <1>4, <1>5, <1>6
<1>8. ASSUME NEW i \in b + 1 .. n
      PROVE  log[i] - Rtp!Highest(log, i - 1) < MaxDropout /\ log[i] - Rtp!Highest(log, i - 1) > -MaxMisorder
  <2>1. i \in b + 1 .. n + 1 /\ i - 1 \in b .. n /\ i \in 1 .. n BY <1>1, <1>2
  <2> QED BY <1>1, <1>4, <1>5, <2>1
<1>9. Rtp!Steady(log) BY <1>8 DEF Rtp!Steady, b, n
<1> QED BY <1>7, <1>9 DEF n

\* What was expected, and missing, before a packet came.
LEMMA ExpectedGrows ==
    ASSUME NEW log \in Logs, NEW id \in Nat \ {0}, Rtp!Base(log) # 0, NEW k \in Rtp!Base(log) .. Len(log)
    PROVE  /\ Rtp!Expected(Append(log, id), k) = Rtp!Expected(log, k)
           /\ Rtp!Missing(Append(log, id), k) = Rtp!Missing(log, k)
<1>1. Rtp!Base(Append(log, id)) = Rtp!Base(log) BY BaseGrows
<1>2. Rtp!Highest(Append(log, id), k) = Rtp!Highest(log, k) BY HighestGrows
<1>3. Rtp!Base(log) \in 1 .. Len(log) BY BaseIs
<1>4. Append(log, id)[Rtp!Base(log)] = log[Rtp!Base(log)] BY <1>3, LogGrows
<1>5. Rtp!Expected(Append(log, id), k) = Rtp!Expected(log, k) BY <1>1, <1>2, <1>4 DEF Rtp!Expected
<1> QED BY <1>1, <1>5 DEF Rtp!Missing

\* At least the packet at the base is expected.
LEMMA ExpectedType ==
    ASSUME NEW log \in Logs, Rtp!Base(log) # 0, NEW k \in Rtp!Base(log) .. Len(log)
    PROVE  Rtp!Expected(log, k) \in Nat \ {0} /\ Rtp!Missing(log, k) \in Int
<1>1. Rtp!Base(log) \in 1 .. Len(log) BY BaseIs
<1>2. Len(log) \in Nat /\ \A i \in 1 .. Len(log) : log[i] \in Nat BY DEF Logs
<1>3. Rtp!Base(log) \in Rtp!Base(log) .. k /\ k \in Nat BY <1>1, <1>2
<1>4. Rtp!Highest(log, k) \in Nat /\ log[Rtp!Base(log)] <= Rtp!Highest(log, k) BY <1>3, HighestIs
<1>5. log[Rtp!Base(log)] \in Nat BY <1>1, <1>2
<1> QED BY <1>1, <1>3, <1>4, <1>5 DEF Rtp!Expected, Rtp!Missing

-------------------------------------------------------------------------------
(* What updateSeq does to the counts.                                        *)

\* The counts stay within their types.
LEMMA UpdateSeqType ==
    ASSUME NEW ctx \in Counts, NEW seq \in Numbers
    PROVE  Rtp!Rtcp!UpdateSeq(ctx, seq) \in Counts
<1>1. /\ ctx = [maxSeq |-> ctx.maxSeq, cycles |-> ctx.cycles, baseSeq |-> ctx.baseSeq, badSeq |-> ctx.badSeq,
                probation |-> ctx.probation, received |-> ctx.received, expectPrior |-> ctx.expectPrior,
                receivedPrior |-> ctx.receivedPrior]
      /\ ctx.maxSeq \in Numbers /\ ctx.cycles \in Int /\ ctx.baseSeq \in Numbers /\ ctx.badSeq \in Int
      /\ ctx.probation \in 0 .. MinSequential /\ ctx.received \in Int /\ ctx.expectPrior \in Int
      /\ ctx.receivedPrior \in Int
  BY DEF Counts
<1>2. SeqRange \in Nat \ {0} /\ MinSequential \in Nat \ {0} BY RtpConstants
<1>3. (seq + 1) % SeqRange \in Int BY <1>2, TurnOf DEF Numbers
<1>4. MinSequential - 1 \in 0 .. MinSequential /\ 0 \in 0 .. MinSequential BY <1>2
<1>9. Rtp!Rtcp!InitSeq(ctx, seq) \in Counts
  <2>1. SeqRange + 1 \in Int /\ 0 \in Int BY <1>2
  <2> QED BY <1>1, <2>1 DEF Counts, Rtp!Rtcp!InitSeq
<1>5. CASE ctx.probation > 0
  <2>1. ctx.probation - 1 \in 0 .. MinSequential BY <1>1, <1>2, <1>5
  <2>2. Rtp!Rtcp!Probe(ctx, seq) \in Counts
    <3>1. ctx \in Counts OBVIOUS
    <3>2. [ctx EXCEPT !.probation = MinSequential - 1, !.maxSeq = seq] \in Counts BY <1>4 DEF Counts
    <3>3. [ctx EXCEPT !.probation = @ - 1, !.maxSeq = seq] \in Counts BY <2>1 DEF Counts
    <3>4. [Rtp!Rtcp!InitSeq(ctx, seq) EXCEPT !.probation = 0, !.received = 1] \in Counts
      <4> DEFINE c == Rtp!Rtcp!InitSeq(ctx, seq)
      <4> HIDE DEF c
      <4>1. [c EXCEPT !.probation = 0, !.received = 1] \in Counts 
        <5>1. c \in Counts BY <1>9 DEF c
        <5>2. ASSUME NEW d \in Counts PROVE [d EXCEPT !.probation = 0, !.received = 1] \in Counts
          <6>1. [d EXCEPT !.received = 1] \in Counts BY DEF Counts
          <6>2. ASSUME NEW e \in Counts PROVE [e EXCEPT !.probation = 0] \in Counts BY <1>4 DEF Counts
          <6>3. [d EXCEPT !.probation = 0, !.received = 1] = [[d EXCEPT !.received = 1] EXCEPT !.probation = 0] BY DEF Counts
          <6> QED BY <6>1, <6>2, <6>3
        <5> QED BY <5>1, <5>2
      <4> QED BY <4>1 DEF c
    <3> QED BY <3>2, <3>3, <3>4 DEF Rtp!Rtcp!Probe
  <2> QED BY <1>5, <2>2 DEF Rtp!Rtcp!UpdateSeq
<1>6. CASE ~(ctx.probation > 0)
  <2>1. Rtp!Rtcp!Advance(ctx, seq) \in Counts
    <3> DEFINE cycles == IF seq < ctx.maxSeq THEN ctx.cycles + SeqRange ELSE ctx.cycles
    <3>1. cycles \in Int /\ ctx.received + 1 \in Int BY <1>1, <1>2
    <3>2. Rtp!Rtcp!Advance(ctx, seq) = [ctx EXCEPT !.cycles = cycles, !.maxSeq = seq, !.received = ctx.received + 1]
      BY <1>1 DEF Rtp!Rtcp!Advance
    <3> HIDE DEF cycles
    <3> QED BY <3>1, <3>2 DEF Counts
  <2>2. Rtp!Rtcp!FarOff(ctx, seq) \in Counts BY <1>3, <1>9 DEF Counts, Rtp!Rtcp!FarOff
  <2>3. [ctx EXCEPT !.received = @ + 1] \in Counts BY DEF Counts
  <2> QED BY <1>6, <2>1, <2>2, <2>3 DEF Rtp!Rtcp!UpdateSeq
<1> QED BY <1>5, <1>6

\* Once the stream is trusted it stays so.
LEMMA TrustStays ==
    ASSUME NEW ctx \in Counts, NEW seq \in Numbers, ctx.probation = 0
    PROVE  Rtp!Rtcp!UpdateSeq(ctx, seq).probation = 0
BY DEF Counts, Rtp!Rtcp!UpdateSeq, Rtp!Rtcp!Advance, Rtp!Rtcp!FarOff, Rtp!Rtcp!InitSeq

\* The packets before that.
LEMMA ProbeFirst ==
    ASSUME MinSequential = 2, NEW ctx \in Counts, NEW seq \in Numbers, ctx.probation = 2
    PROVE  Rtp!Rtcp!UpdateSeq(ctx, seq).probation = 1 /\ Rtp!Rtcp!UpdateSeq(ctx, seq).maxSeq = seq
BY DEF Counts, Rtp!Rtcp!UpdateSeq, Rtp!Rtcp!Probe

\* A packet on probation that is not next starts it anew; the next one ends it.
LEMMA ProbeOn ==
    ASSUME MinSequential = 2, NEW ctx \in Counts, NEW seq \in Numbers, ctx.probation = 1
    PROVE  LET c == Rtp!Rtcp!UpdateSeq(ctx, seq) IN
           IF seq # (ctx.maxSeq + 1) % SeqRange THEN c.probation = 1 /\ c.maxSeq = seq
           ELSE /\ c.probation = 0 /\ c.maxSeq = seq /\ c.baseSeq = seq /\ c.cycles = 0 /\ c.received = 1
                /\ c.expectPrior = 0 /\ c.receivedPrior = 0
BY DEF Counts, Rtp!Rtcp!UpdateSeq, Rtp!Rtcp!Probe, Rtp!Rtcp!InitSeq

\* A packet in the windows, s places from the highest; x is the place of that.
LEMMA CountOn ==
    ASSUME NEW ctx \in Counts, ctx.probation = 0, NEW x \in Int, ctx.maxSeq = x % SeqRange,
           NEW s \in Int, s < MaxDropout, s > -MaxMisorder
    PROVE  LET c == Rtp!Rtcp!UpdateSeq(ctx, (x + s) % SeqRange)
               up == IF s > 0 THEN s ELSE 0
           IN  /\ c.baseSeq = ctx.baseSeq /\ c.received = ctx.received + 1
               /\ c.expectPrior = ctx.expectPrior /\ c.receivedPrior = ctx.receivedPrior
               /\ c.maxSeq = (x + up) % SeqRange
               /\ c.cycles + c.maxSeq = ctx.cycles + ctx.maxSeq + up
<1> DEFINE m == x % SeqRange
           seq == (x + s) % SeqRange
           delta == (seq - ctx.maxSeq + SeqRange) % SeqRange
           c == Rtp!Rtcp!UpdateSeq(ctx, seq)
<1>1. /\ SeqRange \in Nat \ {0} /\ MaxDropout \in Nat \ {0} /\ MaxMisorder \in Nat \ {0}
      /\ MaxDropout + MaxMisorder <= SeqRange
  BY RtpConstants
<1>2. m \in 0 .. SeqRange - 1 BY <1>1, TurnOf
<1>3. /\ ctx = [maxSeq |-> ctx.maxSeq, cycles |-> ctx.cycles, baseSeq |-> ctx.baseSeq, badSeq |-> ctx.badSeq,
                probation |-> ctx.probation, received |-> ctx.received, expectPrior |-> ctx.expectPrior,
                receivedPrior |-> ctx.receivedPrior]
      /\ ctx.cycles \in Int /\ ctx.received \in Int
  BY DEF Counts
<1>4. c = IF delta < MaxDropout THEN Rtp!Rtcp!Advance(ctx, seq)
          ELSE IF delta <= SeqRange - MaxMisorder THEN Rtp!Rtcp!FarOff(ctx, seq)
          ELSE [ctx EXCEPT !.received = @ + 1]
  BY DEF Rtp!Rtcp!UpdateSeq
<1>5. ctx.maxSeq = m OBVIOUS
<1>6. CASE s >= 0
  <2>1. s \in 0 .. SeqRange - 1 BY <1>1, <1>6
  <2>2. seq = IF m + s < SeqRange THEN m + s ELSE m + s - SeqRange BY <1>1, <2>1, StepOn
  <2>3. delta = s
    <3>1. (1 * SeqRange + s) % SeqRange = s BY <1>1, <2>1, InTurn
    <3>2. (0 * SeqRange + s) % SeqRange = s BY <1>1, <2>1, InTurn
    <3> HIDE DEF m, seq
    <3>3. CASE m + s < SeqRange
      <4>1. seq - m + SeqRange = 1 * SeqRange + s BY <1>1, <1>2, <2>1, <2>2, <3>3
      <4> QED BY <1>5, <3>1, <4>1
    <3>4. CASE ~(m + s < SeqRange)
      <4>1. seq - m + SeqRange = 0 * SeqRange + s BY <1>1, <1>2, <2>1, <2>2, <3>4
      <4> QED BY <1>5, <3>2, <4>1
    <3> QED BY <3>3, <3>4
  <2>4. c = Rtp!Rtcp!Advance(ctx, seq) BY <1>4, <2>3
  <2> DEFINE up == IF s > 0 THEN s ELSE 0
  <2>5. up = s BY <1>6
  <2>6. /\ c.baseSeq = ctx.baseSeq /\ c.received = ctx.received + 1
        /\ c.expectPrior = ctx.expectPrior /\ c.receivedPrior = ctx.receivedPrior /\ c.maxSeq = seq
        /\ c.cycles = IF seq < m THEN ctx.cycles + SeqRange ELSE ctx.cycles
    <3> HIDE DEF m, seq, c
    <3> QED BY <1>3, <1>5, <2>4 DEF Rtp!Rtcp!Advance
  <2> HIDE DEF m, seq, c
  <2>7. c.cycles + seq = ctx.cycles + m + s BY <1>1, <1>2, <1>3, <2>1, <2>2, <2>6
  <2> QED BY <1>5, <2>5, <2>6, <2>7 DEF c, seq, up
<1>7. CASE ~(s >= 0)
  <2> DEFINE t == -s
  <2>1. t \in 1 .. SeqRange - 1 /\ t < MaxMisorder /\ x + s = x - t BY <1>1, <1>7
  <2> HIDE DEF t
  <2>2. seq = IF m - t >= 0 THEN m - t ELSE m - t + SeqRange
    <3>1. (x - t) % SeqRange = IF (x % SeqRange) - t >= 0 THEN (x % SeqRange) - t ELSE (x % SeqRange) - t + SeqRange
      BY <1>1, <2>1, StepBack, Zenon
    <3> QED BY <2>1, <3>1
  <2>3. delta = SeqRange - t
    <3>0. SeqRange - t \in 0 .. SeqRange - 1 BY <1>1, <2>1
    <3>9. 1 \in Int /\ 0 \in Int OBVIOUS
    <3>1. (1 * SeqRange + (SeqRange - t)) % SeqRange = SeqRange - t BY <1>1, <3>0, <3>9, InTurn, Zenon
    <3>2. (0 * SeqRange + (SeqRange - t)) % SeqRange = SeqRange - t BY <1>1, <3>0, <3>9, InTurn, Zenon
    <3> HIDE DEF m, seq
    <3>3. CASE m - t < 0
      <4>1. seq - m + SeqRange = 1 * SeqRange + (SeqRange - t) BY <1>1, <1>2, <2>1, <2>2, <3>3
      <4> QED BY <1>5, <3>1, <4>1
    <3>4. CASE ~(m - t < 0)
      <4>1. seq - m + SeqRange = 0 * SeqRange + (SeqRange - t) BY <1>1, <1>2, <2>1, <2>2, <3>4
      <4> QED BY <1>5, <3>2, <4>1
    <3> QED BY <3>3, <3>4
  <2>4. ~(SeqRange - t < MaxDropout) /\ ~(SeqRange - t <= SeqRange - MaxMisorder) BY <1>1, <2>1
  <2>5. c = [ctx EXCEPT !.received = @ + 1] BY <1>4, <2>3, <2>4
  <2> DEFINE up == IF s > 0 THEN s ELSE 0
  <2>6. up = 0 /\ x + up = x BY <1>7
  <2> HIDE DEF c, seq, delta
  <2>7. /\ c.baseSeq = ctx.baseSeq /\ c.received = ctx.received + 1
        /\ c.expectPrior = ctx.expectPrior /\ c.receivedPrior = ctx.receivedPrior
        /\ c.maxSeq = ctx.maxSeq /\ c.cycles = ctx.cycles
    BY <1>3, <2>5
  <2>8. c.cycles + c.maxSeq = ctx.cycles + ctx.maxSeq + 0 BY <1>2, <1>3, <1>5, <2>7
  <2> QED BY <1>5, <2>6, <2>7, <2>8 DEF c, seq, up
<1> QED BY <1>6, <1>7

-------------------------------------------------------------------------------
(* A packet comes (Receive).                                                 *)

\* What the hook counts, whatever the unpacker makes of the packet.
LEMMA ReceiveCounts ==
    ASSUME CountsOk, Rtp!Receive(wire.rd)
    PROVE  /\ dem'.ctx = Rtp!Rtcp!UpdateSeq(dem.ctx, wire.pkts[wire.rd].seq) /\ dem'.reports = dem.reports
           /\ dem' = [timestamp |-> dem'.timestamp, lastSequence |-> dem'.lastSequence, lost |-> dem'.lost,
                      buf |-> dem'.buf, ctx |-> dem'.ctx, reports |-> dem'.reports]
           /\ mux' = mux /\ given' = given
<1>1. dem = [timestamp |-> dem.timestamp, lastSequence |-> dem.lastSequence, lost |-> dem.lost,
             buf |-> dem.buf, ctx |-> dem.ctx, reports |-> dem.reports]
  BY DEF CountsOk
<1> DEFINE c == Rtp!Rtcp!UpdateSeq(dem.ctx, wire.pkts[wire.rd].seq)
<1>2. /\ \E x : dem' = [dem EXCEPT !.timestamp = x.timestamp, !.lastSequence = x.lastSequence,
                                   !.lost = x.lost, !.buf = x.buf, !.ctx = c]
      /\ mux' = mux /\ given' = given
  BY Zenon DEF Rtp!Receive
<1> HIDE DEF c
<1>3. PICK x : dem' = [dem EXCEPT !.timestamp = x.timestamp, !.lastSequence = x.lastSequence,
                                  !.lost = x.lost, !.buf = x.buf, !.ctx = c]
  BY <1>2
<1>4. dem' = [timestamp |-> x.timestamp, lastSequence |-> x.lastSequence, lost |-> x.lost,
              buf |-> x.buf, ctx |-> c, reports |-> dem.reports]
  BY <1>1, <1>3
<1> QED BY <1>2, <1>4 DEF c

\* FiniteSets and the module of the stream mean the same number.
LEMMA CardinalityIs ==
    ASSUME NEW S
    PROVE  Rtp!Cardinality(S) = Cardinality(S)
BY Zenon DEF Rtp!Cardinality, Cardinality

\* The packet that comes is not a turn away from the one before.
LEMMA NextIsNear ==
    ASSUME RtpInvariant, Rtp!Reading
    PROVE  LET id == wire.pkts[wire.rd].id
               log == wire.log
           IN  /\ id \in Nat \ {0} /\ wire.pkts[wire.rd].seq = NumberOf(id)
               /\ log \in Logs /\ Len(log) \in Nat
               /\ Len(log) > 0 => /\ log[Len(log)] \in Nat \ {0}
                                  /\ id - log[Len(log)] <= 2 * MaxFaults + 1
                                  /\ log[Len(log)] - id <= 2 * MaxFaults + 1
<1> DEFINE rd == wire.rd
           n == Len(wire.log)
           f == Rtp!Faults
           moved == wire.moved
           id == wire.pkts[rd].id
           last == wire.log[n]
<1>1. rd \in 1 .. Len(wire.pkts) /\ n \in Nat /\ wire.log \in Logs
  BY DEF RtpInvariant, WireTyped, Rtp!Reading, IsSeq, Logs
<1>2. id \in Nat \ {0} /\ wire.pkts[rd].seq = NumberOf(id) /\ id - rd <= moved /\ rd - id <= moved
  BY <1>1 DEF RtpInvariant, PacketsOk
<1>3. f \in Nat /\ moved \in Nat /\ moved <= f /\ f <= MaxFaults /\ MaxFaults \in Nat
  <2>1. Cardinality(wire.lost) \in Nat /\ wire.twice \in Nat /\ moved \in Nat
    BY FS_CardinalityType DEF RtpInvariant, WireTyped
  <2>2. f = Cardinality(wire.lost) + wire.twice + moved BY CardinalityIs DEF Rtp!Faults
  <2>3. f <= MaxFaults BY DEF RtpInvariant, PacketsOk
  <2> HIDE DEF f, moved
  <2> QED BY <2>1, <2>2, <2>3, RtpConstants
<1>4. n > 0 => last - rd <= 1 + f /\ rd - last <= 1 + f BY DEF RtpInvariant, LogOk
<1>5. n > 0 => last \in Nat \ {0} BY <1>1 DEF Logs
<1> HIDE DEF rd, n, f, moved, id, last
<1>6. n > 0 => id - last <= 2 * MaxFaults + 1 /\ last - id <= 2 * MaxFaults + 1
  <2>1. rd \in Int BY <1>1
  <2> QED BY <2>1, <1>2, <1>3, <1>4, <1>5
<1> QED BY <1>1, <1>2, <1>5, <1>6 DEF rd, id, n, last

\* The number of a place, with the first number given.
Place(first, id) == (first + id - 1) % SeqRange

\* The counts, as CountsOk has them.
Counted(ctx, log, reports, first) ==
    LET n    == Len(log)
        base == Rtp!Base(log)
        last == reports[Len(reports)]
    IN  /\ base = 0 =>
              /\ reports = <<>>
              /\ n = 0 => ctx.probation = 2
              /\ n > 0 => ctx.probation = 1 /\ ctx.maxSeq = Place(first, log[n])
        /\ base # 0 => ctx.probation = 0
        /\ base # 0 /\ Rtp!Steady(log) =>
              /\ ctx.baseSeq = Place(first, log[base])
              /\ ctx.maxSeq = Place(first, Rtp!Highest(log, n))
              /\ ctx.cycles + ctx.maxSeq = ctx.baseSeq + Rtp!Expected(log, n) - 1
              /\ ctx.received = n - base + 1
              /\ ctx.expectPrior = (IF reports = <<>> THEN 0 ELSE Rtp!Expected(log, last.at))
              /\ ctx.receivedPrior = (IF reports = <<>> THEN 0 ELSE last.at - base + 1)

\* The number of a place is a number.
LEMMA PlaceType ==
    ASSUME NEW first \in Numbers, NEW id \in Int
    PROVE  Place(first, id) \in Numbers /\ first + id - 1 \in Int
<1>1. first + id - 1 \in Int /\ SeqRange \in Nat \ {0} BY RtpConstants DEF Numbers
<1> QED BY <1>1, TurnOf DEF Place, Numbers

\* The next number is that of the next place, and of no other near it.
LEMMA NextPlace ==
    ASSUME NEW first \in Numbers, NEW x \in Int, NEW y \in Int,
           x + 1 - y < SeqRange, y - x - 1 < SeqRange
    PROVE  Place(first, y) = (Place(first, x) + 1) % SeqRange <=> y = x + 1
<1> DEFINE z == first + x - 1
           m == z % SeqRange
           p == first + y - 1
<1>1. z \in Int /\ p \in Int /\ first \in Int /\ SeqRange \in Nat \ {0} /\ SeqRange > 1
  BY RtpConstants DEF Numbers
<1>2. Place(first, x) = m /\ Place(first, y) = p % SeqRange BY DEF Place
<1>3. m \in 0 .. SeqRange - 1 BY <1>1, TurnOf
<1>4. 1 \in 0 .. SeqRange - 1 BY <1>1
<1>5. (z + 1) % SeqRange = IF m + 1 < SeqRange THEN m + 1 ELSE m + 1 - SeqRange BY <1>1, <1>4, StepOn
<1>6. z + 1 - p < SeqRange /\ p - (z + 1) < SeqRange /\ (z + 1 = p <=> y = x + 1) BY <1>1
<1>9. 0 \in Int /\ 1 \in Int OBVIOUS
<1> HIDE DEF m, z, p
<1>7. (m + 1) % SeqRange = (z + 1) % SeqRange
  <2>1. CASE m + 1 < SeqRange
    <3>1. m + 1 \in 0 .. SeqRange - 1 /\ m + 1 = 0 * SeqRange + (m + 1) BY <1>1, <1>3, <2>1
    <3>2. (0 * SeqRange + (m + 1)) % SeqRange = m + 1 BY <1>1, <1>9, <3>1, InTurn, Zenon
    <3> QED BY <1>5, <2>1, <3>1, <3>2
  <2>2. CASE ~(m + 1 < SeqRange)
    <3>1. 0 \in 0 .. SeqRange - 1 /\ m + 1 = 1 * SeqRange + 0 /\ m + 1 - SeqRange = 0 BY <1>1, <1>3, <2>2
    <3>2. (1 * SeqRange + 0) % SeqRange = 0 BY <1>1, <1>9, <3>1, InTurn, Zenon
    <3> QED BY <1>5, <2>2, <3>1, <3>2
  <2> QED BY <2>1, <2>2
<1>8. (z + 1) % SeqRange = p % SeqRange <=> z + 1 = p
  <2> DEFINE w == z + 1
  <2>1. w \in Int /\ w - p < SeqRange /\ p - w < SeqRange BY <1>1, <1>6
  <2> HIDE DEF w
  <2>2. w % SeqRange = p % SeqRange => w = p BY <1>1, <2>1, SameNumber
  <2> QED BY <2>2 DEF w
<1> QED BY <1>2, <1>6, <1>7, <1>8

\* The counts follow from what came when another packet comes.
LEMMA CountedGrows ==
    ASSUME MinSequential = 2, 2 * MaxFaults + 2 < SeqRange,
           NEW ctx \in Counts, NEW log \in Logs, NEW id \in Nat \ {0}, NEW reports, NEW first \in Numbers,
           Counted(ctx, log, reports, first), Rtp!Base(log) # 0 /\ reports # <<>> =>
                reports[Len(reports)].at \in Rtp!Base(log) .. Len(log),
           Len(log) > 0 => id - log[Len(log)] <= 2 * MaxFaults + 1 /\ log[Len(log)] - id <= 2 * MaxFaults + 1
    PROVE  Counted(Rtp!Rtcp!UpdateSeq(ctx, Place(first, id)), Append(log, id), reports, first)
<1> DEFINE seq == Place(first, id)
           n == Len(log)
           t == Append(log, id)
           base == Rtp!Base(log)
           c == Rtp!Rtcp!UpdateSeq(ctx, seq)
           last == reports[Len(reports)]
           b == Rtp!Base(t)
<1>1. /\ id \in Nat \ {0} /\ n \in Nat
      /\ n > 0 => log[n] \in Nat \ {0}
  BY DEF Logs
<1>6. /\ base = 0 =>
              /\ reports = <<>>
              /\ n = 0 => ctx.probation = 2
              /\ n > 0 => ctx.probation = 1 /\ ctx.maxSeq = Place(first, log[n])
      /\ base # 0 => ctx.probation = 0
      /\ base # 0 /\ Rtp!Steady(log) =>
              /\ ctx.baseSeq = Place(first, log[base])
              /\ ctx.maxSeq = Place(first, Rtp!Highest(log, n))
              /\ ctx.cycles + ctx.maxSeq = ctx.baseSeq + Rtp!Expected(log, n) - 1
              /\ ctx.received = n - base + 1
              /\ ctx.expectPrior = (IF reports = <<>> THEN 0 ELSE Rtp!Expected(log, last.at))
              /\ ctx.receivedPrior = (IF reports = <<>> THEN 0 ELSE last.at - base + 1)
  BY DEF Counted
<1>7. /\ t \in Logs /\ Len(t) = n + 1 /\ t[n + 1] = id
      /\ \A i \in 1 .. n : t[i] = log[i]
  BY LogGrows
<1>8. b = IF base # 0 THEN base ELSE IF n > 0 /\ id = log[n] + 1 THEN n + 1 ELSE 0
  BY BaseGrows
<1>9. base \in 0 .. n BY BaseIs
<1>10. seq \in Numbers BY PlaceType
<1>13. SUFFICES
         /\ b = 0 => reports = <<>> /\ c.probation = 1 /\ c.maxSeq = Place(first, t[n + 1])
         /\ b # 0 => c.probation = 0
         /\ b # 0 /\ Rtp!Steady(t) =>
              /\ c.baseSeq = Place(first, t[b])
              /\ c.maxSeq = Place(first, Rtp!Highest(t, n + 1))
              /\ c.cycles + c.maxSeq = c.baseSeq + Rtp!Expected(t, n + 1) - 1
              /\ c.received = (n + 1) - b + 1
              /\ c.expectPrior = (IF reports = <<>> THEN 0 ELSE Rtp!Expected(t, last.at))
              /\ c.receivedPrior = (IF reports = <<>> THEN 0 ELSE last.at - b + 1)
  <2>1. n + 1 > 0 /\ n + 1 # 0 BY <1>1
  <2>2. SUFFICES Counted(c, t, reports, first) OBVIOUS
  <2> HIDE DEF t, c, n
  <2> DEFINE k == n + 1
             m == k - b + 1
  <2>3. Len(t) = k /\ ~(k = 0) BY <1>7, <2>1
  <2>4. /\ b = 0 => reports = <<>> /\ c.probation = 1 /\ c.maxSeq = Place(first, t[k])
        /\ b # 0 => c.probation = 0
        /\ b # 0 /\ Rtp!Steady(t) =>
              /\ c.baseSeq = Place(first, t[b])
              /\ c.maxSeq = Place(first, Rtp!Highest(t, k))
              /\ c.cycles + c.maxSeq = c.baseSeq + Rtp!Expected(t, k) - 1
              /\ c.received = m
              /\ c.expectPrior = (IF reports = <<>> THEN 0 ELSE Rtp!Expected(t, last.at))
              /\ c.receivedPrior = (IF reports = <<>> THEN 0 ELSE last.at - b + 1)
    BY <1>13
  <2> HIDE DEF k, b, last
  <2>5. Counted(c, t, reports, first) <=>
         /\ b = 0 => /\ reports = <<>>
                     /\ k = 0 => c.probation = 2
                     /\ k > 0 => c.probation = 1 /\ c.maxSeq = Place(first, t[k])
         /\ b # 0 => c.probation = 0
         /\ b # 0 /\ Rtp!Steady(t) =>
              /\ c.baseSeq = Place(first, t[b])
              /\ c.maxSeq = Place(first, Rtp!Highest(t, k))
              /\ c.cycles + c.maxSeq = c.baseSeq + Rtp!Expected(t, k) - 1
              /\ c.received = m
              /\ c.expectPrior = (IF reports = <<>> THEN 0 ELSE Rtp!Expected(t, last.at))
              /\ c.receivedPrior = (IF reports = <<>> THEN 0 ELSE last.at - b + 1)
    <3>1. Len(t) = k BY <2>3
    <3> HIDE <2>3, <2>4
    <3> QED BY <3>1 DEF Counted, b, last
  <2> HIDE DEF m
  <2> QED BY <2>3, <2>4, <2>5
<1> HIDE DEF n, t, base, c, last, b, seq
<1>14. CASE base = 0 /\ n = 0
  <2>1. b = 0 BY <1>8, <1>14 DEF b
  <2>2. c.probation = 1 /\ c.maxSeq = seq BY <1>6, <1>10, <1>14, ProbeFirst DEF c
  <2> QED BY <1>6, <1>7, <1>10, <1>14, <2>1, <2>2 DEF seq
<1>15. CASE base = 0 /\ n > 0
  <2>1. ctx.probation = 1 /\ ctx.maxSeq = Place(first, log[n]) /\ reports = <<>> BY <1>6, <1>15
  <2>2. log[n] \in Int /\ id \in Int /\ log[n] + 1 - id < SeqRange /\ id - log[n] - 1 < SeqRange
    BY <1>1, <1>15, RtpConstants DEF n
  <2>5. seq = (ctx.maxSeq + 1) % SeqRange <=> id = log[n] + 1 
    <3>1. Place(first, id) = (Place(first, log[n]) + 1) % SeqRange <=> id = log[n] + 1 BY <2>2, NextPlace
    <3> QED BY <2>1, <3>1 DEF seq
  <2>6. IF seq # (ctx.maxSeq + 1) % SeqRange THEN c.probation = 1 /\ c.maxSeq = seq
           ELSE /\ c.probation = 0 /\ c.maxSeq = seq /\ c.baseSeq = seq /\ c.cycles = 0 /\ c.received = 1
                /\ c.expectPrior = 0 /\ c.receivedPrior = 0
    BY <1>10, <2>1, ProbeOn DEF c
  <2>7. CASE id # log[n] + 1
    <3>1. b = 0 /\ c.probation = 1 /\ c.maxSeq = seq BY <1>8, <1>15, <2>5, <2>6, <2>7 DEF b
    <3> QED BY <1>7, <1>10, <2>1, <3>1 DEF seq
  <2>8. CASE id = log[n] + 1
    <3>1. b = n + 1 /\ b # 0 BY <1>1, <1>8, <1>15, <2>8 DEF b
    <3>2. /\ c.probation = 0 /\ c.maxSeq = seq /\ c.baseSeq = seq /\ c.cycles = 0 /\ c.received = 1
          /\ c.expectPrior = 0 /\ c.receivedPrior = 0
      BY <2>5, <2>6, <2>8
    <3>3. Rtp!Highest(t, n + 1) = id BY <1>7, <3>1, HighestAtBase DEF b
    <3>4. Rtp!Expected(t, n + 1) = 1
      <4>1. Rtp!Expected(t, n + 1) = id - id + 1 BY <1>7, <3>1, <3>3 DEF Rtp!Expected, b
      <4> QED BY <1>1, <4>1
    <3>5. c.cycles + c.maxSeq = c.baseSeq + Rtp!Expected(t, n + 1) - 1 BY <1>10, <3>2, <3>4 DEF Numbers
    <3>6. c.received = (n + 1) - b + 1 BY <1>1, <3>1, <3>2
    <3> QED BY <1>7, <1>10, <2>1, <3>1, <3>2, <3>3, <3>5, <3>6 DEF seq
  <2> QED BY <2>7, <2>8
<1>16. CASE base # 0
  <2>1. b = base /\ b \in 1 .. n BY <1>8, <1>9, <1>16 DEF b
  <2>2. c.probation = 0 BY <1>6, <1>10, <1>16, TrustStays DEF c
  <2>3. SUFFICES ASSUME Rtp!Steady(t)
        PROVE /\ c.baseSeq = Place(first, t[b])
              /\ c.maxSeq = Place(first, Rtp!Highest(t, n + 1))
              /\ c.cycles + c.maxSeq = c.baseSeq + Rtp!Expected(t, n + 1) - 1
              /\ c.received = (n + 1) - b + 1
              /\ c.expectPrior = (IF reports = <<>> THEN 0 ELSE Rtp!Expected(t, last.at))
              /\ c.receivedPrior = (IF reports = <<>> THEN 0 ELSE last.at - b + 1)
    BY <1>16, <2>1, <2>2
  <2> DEFINE h == Rtp!Highest(log, n)
             s == id - h
             up == IF s > 0 THEN s ELSE 0
             x == first + h - 1
  <2>4. Rtp!Steady(log) /\ s < MaxDropout /\ s > -MaxMisorder
    BY <1>1, <1>16, <2>3, SteadyGrows DEF base, t, n
  <2>5. h \in Nat BY <1>1, <1>9, <1>16, HighestIs DEF base, n
  <2>6. /\ ctx.probation = 0 /\ ctx.baseSeq = Place(first, log[base])
        /\ ctx.maxSeq = Place(first, h)
        /\ ctx.cycles + ctx.maxSeq = ctx.baseSeq + Rtp!Expected(log, n) - 1
        /\ ctx.received = n - base + 1
        /\ ctx.expectPrior = (IF reports = <<>> THEN 0 ELSE Rtp!Expected(log, last.at))
        /\ ctx.receivedPrior = (IF reports = <<>> THEN 0 ELSE last.at - base + 1)
    BY <1>6, <1>16, <2>4
  <2>7. s \in Int /\ x \in Int /\ x + s = first + id - 1 BY <1>1, <2>5 DEF Numbers
  <2>8. ctx.maxSeq = x % SeqRange /\ seq = (x + s) % SeqRange BY <1>10, <2>6, <2>7 DEF Place, seq
  <2> HIDE DEF h, s, up, x
  <2>9. /\ c.baseSeq = ctx.baseSeq /\ c.received = ctx.received + 1
        /\ c.expectPrior = ctx.expectPrior /\ c.receivedPrior = ctx.receivedPrior
        /\ c.maxSeq = (x + up) % SeqRange
        /\ c.cycles + c.maxSeq = ctx.cycles + ctx.maxSeq + up
    BY <2>4, <2>6, <2>7, <2>8, CountOn DEF c, up
  <2>10. Rtp!Highest(t, n + 1) = h + up
    <3>1. Rtp!Highest(t, n + 1) = IF id > h THEN id ELSE h BY <1>1, <1>16, HighestGrows DEF t, base, n, h
    <3> QED BY <1>1, <2>5, <3>1 DEF s, up
  <2>11. up \in Nat BY <1>1, <2>5 DEF up, s
  <2>12. x + up = first + (h + up) - 1 BY <2>5, <2>11 DEF x, Numbers
  <2>13. t[b] = log[base] /\ log[base] \in Int BY <1>1, <1>7, <2>1 DEF Logs, n
  <2>14. Rtp!Expected(t, n + 1) = Rtp!Expected(log, n) + up
    <3>1. Rtp!Expected(t, n + 1) = (h + up) - log[base] + 1
      <4>1. Rtp!Expected(t, n + 1) = Rtp!Highest(t, n + 1) - t[Rtp!Base(t)] + 1 BY DEF Rtp!Expected
      <4>2. t[Rtp!Base(t)] = log[base] BY <2>13 DEF b
      <4> QED BY <2>10, <4>1, <4>2, Zenon
    <3>2. Rtp!Expected(log, n) = h - log[base] + 1 BY DEF Rtp!Expected, h, base
    <3> QED BY <2>5, <2>11, <2>13, <3>1, <3>2
  <2>15. reports # <<>> => Rtp!Expected(t, last.at) = Rtp!Expected(log, last.at)
    <3>1. SUFFICES ASSUME reports # <<>> PROVE last.at \in base .. n
      BY <1>1, <1>16, ExpectedGrows DEF t, base, n
    <3> QED BY <1>16, <3>1 DEF last, base, n
  <2>16. c.baseSeq = Place(first, t[b]) BY <2>6, <2>9, <2>13
  <2>17. c.maxSeq = Place(first, Rtp!Highest(t, n + 1)) BY <2>9, <2>10, <2>12 DEF Place
  <2>18. c.cycles + c.maxSeq = c.baseSeq + Rtp!Expected(t, n + 1) - 1
    <3>1. Rtp!Expected(log, n) \in Int
      <4>1. n \in base .. n BY <1>1, <2>1
      <4> QED BY <1>1, <1>16, <4>1, ExpectedType DEF base, n
    <3>2. ctx.baseSeq \in Int BY DEF Counts, Numbers
    <3> QED BY <2>6, <2>9, <2>11, <2>14, <3>1, <3>2
  <2>19. c.received = (n + 1) - b + 1 BY <1>1, <2>1, <2>6, <2>9
  <2> QED BY <2>1, <2>6, <2>9, <2>15, <2>16, <2>17, <2>18, <2>19
<1> QED BY <1>1, <1>14, <1>15, <1>16

\* The counts of the log that has grown.
LEMMA CountsReceive ==
    ASSUME MinSequential = 2, 2 * MaxFaults + 2 < SeqRange, RtpInvariant, Rtp!Reading, Rtp!Receive(wire.rd),
           wire'.log = Append(wire.log, wire.pkts[wire.rd].id)
    PROVE  CountsOk'
<1> DEFINE id == wire.pkts[wire.rd].id
           seq == wire.pkts[wire.rd].seq
           c == Rtp!Rtcp!UpdateSeq(dem.ctx, seq)
<1>1. /\ id \in Nat \ {0} /\ seq = NumberOf(id) /\ wire.log \in Logs /\ Len(wire.log) \in Nat
      /\ Len(wire.log) > 0 => /\ wire.log[Len(wire.log)] \in Nat \ {0}
                              /\ id - wire.log[Len(wire.log)] <= 2 * MaxFaults + 1
                              /\ wire.log[Len(wire.log)] - id <= 2 * MaxFaults + 1
  BY NextIsNear
<1>2. /\ dem'.ctx = c /\ dem'.reports = dem.reports /\ mux' = mux
      /\ dem' = [timestamp |-> dem'.timestamp, lastSequence |-> dem'.lastSequence, lost |-> dem'.lost,
                 buf |-> dem'.buf, ctx |-> dem'.ctx, reports |-> dem'.reports]
  BY ReceiveCounts DEF RtpInvariant
<1>3. CountsOk /\ mux.first \in Numbers BY DEF RtpInvariant, PackerOk
<1>4. dem.ctx \in Counts /\ IsSeq(dem.reports) /\ Counted(dem.ctx, wire.log, dem.reports, mux.first)
  BY <1>3 DEF CountsOk, Counted, Place, NumberOf
<1>5. dem.reports # <<>> => dem.reports[Len(dem.reports)].at \in Rtp!Base(wire.log) .. Len(wire.log)
  <2>1. SUFFICES ASSUME dem.reports # <<>> PROVE Len(dem.reports) \in 1 .. Len(dem.reports)
    BY DEF RtpInvariant, ReportsOk
  <2> QED BY <1>4, <2>1 DEF IsSeq
<1>6. seq = Place(mux.first, id) BY <1>1 DEF NumberOf, Place
<1>7. c \in Counts
  <2>1. Place(mux.first, id) \in Numbers
    <3>1. id \in Int BY <1>1
    <3> QED BY <1>3, <3>1, PlaceType
  <2>2. seq \in Numbers BY <1>6, <2>1
  <2> QED BY <1>4, <2>2, UpdateSeqType
<1> DEFINE t == Append(wire.log, id)
<1>8. Counted(c, t, dem.reports, mux.first) BY <1>1, <1>3, <1>4, <1>5, <1>6, CountedGrows
<1>9. wire'.log = t OBVIOUS
<1> HIDE DEF c, t
<1>10. dem'.ctx \in Counts /\ IsSeq(dem'.reports) /\ Counted(dem'.ctx, wire'.log, dem'.reports, mux'.first)
  BY <1>2, <1>4, <1>7, <1>8, <1>9
<1> QED BY <1>2, <1>10 DEF CountsOk, Counted, Place, NumberOf

-------------------------------------------------------------------------------
(* A report is made (GenerateRR).                                            *)

\* A sequence is one of what it holds.
LEMMA SeqRanges ==
    ASSUME NEW T, NEW s \in Seq(T)
    PROVE  IsSeq(s)
<1>1. Len(s) \in Nat /\ DOMAIN s = 1 .. Len(s) /\ s = [i \in 1 .. Len(s) |-> s[i]] OBVIOUS
<1> DEFINE R == {s[i] : i \in DOMAIN s}
<1>2. \A i \in 1 .. Len(s) : s[i] \in R BY <1>1
<1> HIDE DEF R
<1>3. s \in [1 .. Len(s) -> R] BY <1>1, <1>2
<1>4. s \in Seq(R) BY <1>1, <1>3
<1> QED BY <1>4 DEF IsSeq, R

\* So it is with another element.
LEMMA SeqGrows ==
    ASSUME NEW s, IsSeq(s), NEW x
    PROVE  /\ Len(s) \in Nat /\ DOMAIN s = 1 .. Len(s) /\ (s = <<>> <=> Len(s) = 0)
           /\ IsSeq(Append(s, x)) /\ Len(Append(s, x)) = Len(s) + 1 /\ Append(s, x) # <<>>
           /\ Append(s, x)[Len(s) + 1] = x
           /\ \A i \in 1 .. Len(s) : Append(s, x)[i] = s[i]
<1> DEFINE T == {s[i] : i \in DOMAIN s} \cup {x}
<1>1. s \in Seq(T) /\ x \in T
  <2>1. {s[i] : i \in DOMAIN s} \subseteq T OBVIOUS
  <2>2. s \in Seq({s[i] : i \in DOMAIN s}) BY DEF IsSeq
  <2> HIDE DEF T
  <2>3. \A A, B : A \subseteq B => Seq(A) \subseteq Seq(B) OBVIOUS
  <2> QED BY <2>1, <2>2, <2>3 DEF T
<1> HIDE DEF T
<1>2. Append(s, x) \in Seq(T) BY <1>1
<1>3. IsSeq(Append(s, x)) BY <1>2, SeqRanges
<1> QED BY <1>1, <1>3

\* So many 256ths, rounded down.
InBytes(q, m, e) == q \in Int /\ ~(q > 255) /\ q * e <= 256 * m /\ 256 * m < (q + 1) * e

\* Of e expected packets, m < e lost ones in 256ths: a byte, and rounded down.
LEMMA Fraction ==
    ASSUME NEW m \in Nat \ {0}, NEW e \in Nat, m < e
    PROVE  InBytes((m * 256) \div e, m, e)
<1> DEFINE x == m * 256
           q == x \div e
           y == x % e
<1>1. x \in Int /\ e \in Nat \ {0} /\ x = 256 * m /\ x < 256 * e
  <2>1. x = 256 * m OBVIOUS
  <2> HIDE DEF x
  <2> QED BY <2>1
<1> HIDE DEF x
<1>2. y \in 0 .. e - 1 /\ q \in Int /\ x = q * e + y
  <2>1. x % e \in 0 .. e - 1 /\ x \div e \in Int /\ x = (x \div e) * e + (x % e) BY <1>1
  <2> QED BY <2>1
<1> HIDE DEF q, y
<1>3. q * e \in Int /\ (q + 1) * e = q * e + e BY <1>1, <1>2
<1>4. q * e <= x /\ x < (q + 1) * e
  <2> DEFINE p == q * e
             s == (q + 1) * e
  <2>1. p \in Int /\ s = p + e /\ x = p + y BY <1>2, <1>3
  <2> HIDE DEF p, s
  <2>2. p <= x /\ x < s BY <1>1, <1>2, <2>1
  <2> QED BY <2>2 DEF p, s
<1>5. ~(q > 255)
  <2>1. SUFFICES ASSUME q > 255 PROVE FALSE OBVIOUS
  <2>2. q - 256 \in Nat BY <1>2, <2>1
  <2>3. (q - 256) * e >= 0 BY <1>1, <2>2
  <2>4. q * e >= 256 * e BY <1>1, <1>2, <2>3
  <2> DEFINE p == q * e
  <2>5. p \in Int /\ p >= 256 * e /\ p <= x BY <1>3, <1>4, <2>4
  <2> HIDE DEF p
  <2> QED BY <1>1, <2>5
<1>6. InBytes(q, m, e) BY <1>1, <1>2, <1>4, <1>5 DEF InBytes
<1> QED BY <1>6 DEF q, x

\* Honest, with the first number given.
HonestAt(first, log, reports, i) ==
    LET r == reports[i]
        expected == Rtp!Expected(log, r.at) - (IF i = 1 THEN 0 ELSE Rtp!Expected(log, reports[i - 1].at))
        missing == Rtp!Missing(log, r.at) - (IF i = 1 THEN 0 ELSE Rtp!Missing(log, reports[i - 1].at))
    IN  /\ r.highest = Place(first, log[Rtp!Base(log)]) + Rtp!Expected(log, r.at) - 1
        /\ r.lost = (IF Rtp!Missing(log, r.at) < 0 THEN 0 ELSE Rtp!Missing(log, r.at))
        /\ missing <= 0 => r.fraction = 0
        /\ missing > 0 => r.fraction * expected <= 256 * missing /\ 256 * missing < (r.fraction + 1) * expected

\* The numbers of a report: e and m are what is expected and missing in all, pe
\* and pm what was at the report before.
Tells(r, ctx, e, m, pe, pm) ==
    /\ r.block.highest = ctx.baseSeq + e - 1
    /\ r.block.lost = (IF m < 0 THEN 0 ELSE m)
    /\ m - pm <= 0 => r.block.fraction = 0
    /\ m - pm > 0 => /\ r.block.fraction * (e - pe) <= 256 * (m - pm)
                     /\ 256 * (m - pm) < (r.block.fraction + 1) * (e - pe)
    /\ r.ctx = [ctx EXCEPT !.expectPrior = e, !.receivedPrior = e - m]

\* The numbers of a report from the counts it is made of.
LEMMA ReportNumbers ==
    ASSUME NEW ctx \in Counts, NEW e \in Int, NEW m \in Int, NEW pe \in Int, NEW pm \in Int,
           ctx.cycles + ctx.maxSeq = ctx.baseSeq + e - 1, ctx.received = e - m,
           ctx.expectPrior = pe, ctx.receivedPrior = pe - pm,
           m - pm < e - pe \/ m - pm = 0
    PROVE  Tells(Rtp!Rtcp!Report(ctx), ctx, e, m, pe, pm)
<1> DEFINE extendMax == ctx.cycles + ctx.maxSeq
           expected == extendMax - ctx.baseSeq + 1
           lost == expected - ctx.received
           expectedInterval == expected - ctx.expectPrior
           lostInterval == expectedInterval - (ctx.received - ctx.receivedPrior)
           fraction == IF expectedInterval > 0 /\ lostInterval > 0
                       THEN (lostInterval * 256) \div expectedInterval ELSE 0
           r == Rtp!Rtcp!Report(ctx)
<1>0. SUFFICES /\ r.block.highest = ctx.baseSeq + e - 1
               /\ r.block.lost = (IF m < 0 THEN 0 ELSE m)
               /\ m - pm <= 0 => r.block.fraction = 0
               /\ m - pm > 0 => /\ r.block.fraction * (e - pe) <= 256 * (m - pm)
                                /\ 256 * (m - pm) < (r.block.fraction + 1) * (e - pe)
               /\ r.ctx = [ctx EXCEPT !.expectPrior = e, !.receivedPrior = e - m]
  BY DEF Tells
<1>1. /\ r.block.highest = extendMax
      /\ r.block.lost = (IF lost < 0 THEN 0 ELSE lost)
      /\ r.block.fraction = (IF fraction > 255 THEN 255 ELSE fraction)
      /\ r.ctx = [ctx EXCEPT !.expectPrior = expected, !.receivedPrior = ctx.received]
  BY DEF Rtp!Rtcp!Report
<1>2. ctx.cycles \in Int /\ ctx.maxSeq \in Int /\ ctx.baseSeq \in Int BY DEF Counts, Numbers
<1>3. extendMax = ctx.baseSeq + e - 1 OBVIOUS
<1>4. expected = e BY <1>2, <1>3
<1>5. lost = m BY <1>4
<1>6. expectedInterval = e - pe BY <1>4
<1>7. lostInterval = m - pm BY <1>6
<1> DEFINE a == m - pm
           b == e - pe
<1>8. /\ fraction = IF b > 0 /\ a > 0 THEN (a * 256) \div b ELSE 0
      /\ a \in Int /\ b \in Int /\ (a < b \/ a = 0)
  BY <1>6, <1>7
<1> HIDE DEF extendMax, expected, lost, expectedInterval, lostInterval, fraction, r, a, b
<1>9. CASE ~(a > 0)
  <2>1. fraction = 0 BY <1>8, <1>9
  <2>2. r.block.fraction = 0 BY <1>1, <2>1
  <2> QED BY <1>1, <1>3, <1>4, <1>5, <1>8, <1>9, <2>2, SMTT(30) DEF a, b, r
<1>10. CASE a > 0
  <2>1. a \in Nat \ {0} /\ b \in Nat /\ a < b /\ b > 0 BY <1>8, <1>10
  <2> DEFINE q == (a * 256) \div b
  <2>6. InBytes(q, a, b) BY <2>1, Fraction
  <2>2. q \in Int /\ ~(q > 255) /\ q * b <= 256 * a /\ 256 * a < (q + 1) * b BY <2>6 DEF InBytes
  <2>3. fraction = q BY <1>8, <1>10, <2>1
  <2> HIDE DEF q
  <2>4. r.block.fraction = q BY <1>1, <2>2, <2>3
  <2>5. r.block.fraction * b <= 256 * a /\ 256 * a < (r.block.fraction + 1) * b BY <2>2, <2>4
  <2> QED BY <1>1, <1>3, <1>4, <1>5, <1>8, <1>10, <2>5 DEF a, b, r
<1> QED BY <1>8, <1>9, <1>10

\* The block of a report, and the length of the log.
ReportOf(ctx, log) ==
    LET block == Rtp!Rtcp!Report(ctx).block IN
    [highest |-> block.highest, lost |-> block.lost, fraction |-> block.fraction, at |-> Len(log)]

\* The counts and the block of a report are about what came.
LEMMA ReportCounts ==
    ASSUME NEW ctx \in Counts, NEW log \in Logs, NEW reports, IsSeq(reports), NEW first \in Numbers,
           ctx.probation = 0, Counted(ctx, log, reports, first),
           reports # <<>> => reports[Len(reports)].at \in Rtp!Base(log) .. Len(log)
    PROVE  LET c  == Rtp!Rtcp!Report(ctx).ctx
               rs == Append(reports, ReportOf(ctx, log))
           IN  /\ Rtp!Base(log) # 0 /\ c \in Counts /\ Counted(c, log, rs, first)
               /\ Rtp!Steady(log) => HonestAt(first, log, rs, Len(reports) + 1)
<1> DEFINE c  == Rtp!Rtcp!Report(ctx).ctx
           r  == ReportOf(ctx, log)
           rs == Append(reports, r)
           k  == Len(reports)
           n  == Len(log)
           base == Rtp!Base(log)
           last == reports[k]
           e  == Rtp!Expected(log, n)
           m  == Rtp!Missing(log, n)
           pe == IF k = 0 THEN 0 ELSE Rtp!Expected(log, last.at)
           pm == IF k = 0 THEN 0 ELSE Rtp!Missing(log, last.at)
<1>1. n \in Nat /\ base \in 0 .. n BY BaseIs DEF Logs
<1>2. base # 0 BY <1>1 DEF Counted
<1>3. /\ k \in Nat /\ (reports = <<>> <=> k = 0) /\ Len(rs) = k + 1 /\ rs[k + 1] = r /\ rs # <<>>
      /\ \A i \in 1 .. k : rs[i] = reports[i]
  BY SeqGrows
<1>4. /\ k # 0 => last.at \in base .. n
      /\ n \in base .. n
  BY <1>1, <1>2, <1>3
<1>5. e \in Nat \ {0} /\ m \in Int /\ m = e - (n - base + 1)
  BY <1>2, <1>4, ExpectedType DEF Rtp!Missing
<1>6. pe \in Int /\ pm \in Int /\ (k # 0 => pm = pe - (last.at - base + 1) /\ pe \in Nat \ {0})
  <2>1. CASE k = 0 BY <2>1
  <2>2. CASE k # 0
    <3>1. Rtp!Expected(log, last.at) \in Nat \ {0} /\ Rtp!Missing(log, last.at) \in Int
      BY <1>2, <1>4, <2>2, ExpectedType
    <3>2. Rtp!Missing(log, last.at) = Rtp!Expected(log, last.at) - (last.at - base + 1) BY DEF Rtp!Missing
    <3> QED BY <2>2, <3>1, <3>2
  <2> QED BY <2>1, <2>2
<1>7. c = [ctx EXCEPT !.expectPrior = c.expectPrior, !.receivedPrior = c.receivedPrior] /\ c \in Counts
  <2> DEFINE expected == (ctx.cycles + ctx.maxSeq) - ctx.baseSeq + 1
  <2>1. c = [ctx EXCEPT !.expectPrior = expected, !.receivedPrior = ctx.received] BY DEF Rtp!Rtcp!Report
  <2>2. expected \in Int BY DEF Counts, Numbers
  <2> HIDE DEF expected, c
  <2> QED BY <2>1, <2>2 DEF Counts
<1>8. /\ c.probation = 0 /\ c.baseSeq = ctx.baseSeq /\ c.maxSeq = ctx.maxSeq
      /\ c.cycles = ctx.cycles /\ c.received = ctx.received
  <2> HIDE DEF c
  <2> QED BY <1>7 DEF Counts
<1>9. CASE ~Rtp!Steady(log)
  <2> HIDE DEF c, rs
  <2>1. Counted(c, log, rs, first) BY <1>2, <1>8, <1>9 DEF Counted
  <2> QED BY <1>2, <1>7, <1>9, <2>1 DEF c, rs
<1>10. CASE Rtp!Steady(log)
  <2>1. /\ ctx.baseSeq = Place(first, log[base])
        /\ ctx.maxSeq = Place(first, Rtp!Highest(log, n))
        /\ ctx.cycles + ctx.maxSeq = ctx.baseSeq + e - 1
        /\ ctx.received = n - base + 1
        /\ ctx.expectPrior = (IF reports = <<>> THEN 0 ELSE Rtp!Expected(log, last.at))
        /\ ctx.receivedPrior = (IF reports = <<>> THEN 0 ELSE last.at - base + 1)
    <3> HIDE DEF e, n, base, last
    <3> QED BY <1>2, <1>10 DEF Counted, e, n, base, last, k
  <2> HIDE DEF c, r, rs, k, n, base, last, e, m
  <2>2. ctx.received = e - m BY <1>1, <1>5, <2>1
  <2>3. ctx.expectPrior = pe /\ ctx.receivedPrior = pe - pm
    <3>1. CASE k = 0 BY <1>3, <2>1, <3>1
    <3>2. CASE k # 0
      <4>1. ctx.expectPrior = pe /\ ctx.receivedPrior = last.at - base + 1 BY <1>3, <2>1, <3>2
      <4>2. last.at \in Int /\ base \in Int BY <1>1, <1>4, <3>2
      <4> HIDE DEF pe, pm
      <4> QED BY <1>6, <3>2, <4>1, <4>2
    <3> QED BY <3>1, <3>2
  <2>4. m - pm < e - pe \/ m - pm = 0
    <3>1. CASE k = 0 BY <1>1, <1>2, <1>5, <3>1
    <3>2. CASE k # 0 /\ last.at = n
      <4>1. pm = m BY <3>2 DEF m
      <4> QED BY <1>5, <4>1
    <3>3. CASE k # 0 /\ last.at # n
      <4>1. last.at \in Int /\ last.at < n BY <1>1, <1>4, <3>3
      <4> HIDE DEF pe, pm
      <4> QED BY <1>1, <1>5, <1>6, <3>3, <4>1
    <3> QED BY <3>1, <3>2, <3>3
  <2> HIDE DEF pe, pm
  <2>5. /\ r.highest = ctx.baseSeq + e - 1
        /\ r.lost = (IF m < 0 THEN 0 ELSE m)
        /\ m - pm <= 0 => r.fraction = 0
        /\ m - pm > 0 => r.fraction * (e - pe) <= 256 * (m - pm) /\ 256 * (m - pm) < (r.fraction + 1) * (e - pe)
        /\ c = [ctx EXCEPT !.expectPrior = e, !.receivedPrior = e - m]
        /\ r.at = n
    <3>1. Tells(Rtp!Rtcp!Report(ctx), ctx, e, m, pe, pm)
      <4>1. e \in Int /\ m \in Int /\ pe \in Int /\ pm \in Int BY <1>5, <1>6
      <4>2. ctx.cycles + ctx.maxSeq = ctx.baseSeq + e - 1 BY <2>1
      <4> QED BY <4>1, <4>2, <2>2, <2>3, <2>4, ReportNumbers
    <3> QED BY <3>1 DEF Tells, r, c, ReportOf, n
  <2>6. c.expectPrior = e /\ c.receivedPrior = n - base + 1 BY <1>5, <2>2, <2>1, <2>5 DEF Counts
  <2>7. rs[Len(rs)] = r BY <1>3
  <2>8. Counted(c, log, rs, first)
    <3>1. rs[Len(rs)].at = n /\ rs # <<>> BY <1>3, <2>5, <2>7
    <3>2. /\ c.baseSeq = Place(first, log[base])
          /\ c.maxSeq = Place(first, Rtp!Highest(log, n))
          /\ c.cycles + c.maxSeq = c.baseSeq + e - 1
          /\ c.received = n - base + 1
          /\ c.expectPrior = Rtp!Expected(log, rs[Len(rs)].at)
          /\ c.receivedPrior = rs[Len(rs)].at - base + 1
      <4>1. Rtp!Expected(log, rs[Len(rs)].at) = e BY <3>1 DEF e
      <4> QED BY <1>8, <2>1, <2>6, <3>1, <4>1
    <3> QED BY <1>2, <1>8, <3>1, <3>2 DEF Counted, e, n, base
  <2>9. HonestAt(first, log, rs, k + 1)
    <3>1. rs[k + 1] = r /\ r.at = n BY <1>3, <2>5
    <3>2. k # 0 => rs[(k + 1) - 1] = last
      <4>1. k # 0 => (k + 1) - 1 = k /\ k \in 1 .. k BY <1>3
      <4> QED BY <1>3, <4>1 DEF last
    <3>3. (k + 1 = 1) <=> (k = 0) BY <1>3
    <3> DEFINE px == IF k + 1 = 1 THEN 0 ELSE Rtp!Expected(log, rs[(k + 1) - 1].at)
               pz == IF k + 1 = 1 THEN 0 ELSE Rtp!Missing(log, rs[(k + 1) - 1].at)
    <3>4. px = pe /\ pz = pm BY <3>2, <3>3 DEF pe, pm
    <3>5. Rtp!Expected(log, r.at) = e /\ Rtp!Missing(log, r.at) = m BY <3>1 DEF e, m
    <3>6. r.highest = Place(first, log[base]) + e - 1 BY <2>1, <2>5
    <3>7. /\ r.highest = Place(first, log[base]) + Rtp!Expected(log, r.at) - 1
          /\ r.lost = (IF Rtp!Missing(log, r.at) < 0 THEN 0 ELSE Rtp!Missing(log, r.at))
          /\ Rtp!Missing(log, r.at) - pz <= 0 => r.fraction = 0
          /\ Rtp!Missing(log, r.at) - pz > 0 =>
                /\ r.fraction * (Rtp!Expected(log, r.at) - px) <= 256 * (Rtp!Missing(log, r.at) - pz)
                /\ 256 * (Rtp!Missing(log, r.at) - pz) < (r.fraction + 1) * (Rtp!Expected(log, r.at) - px)
      <4> HIDE DEF px, pz
      <4> QED BY <2>5, <3>4, <3>5, <3>6
    <3>8. /\ rs[k + 1].highest = Place(first, log[base]) + Rtp!Expected(log, rs[k + 1].at) - 1
          /\ rs[k + 1].lost = (IF Rtp!Missing(log, rs[k + 1].at) < 0 THEN 0 ELSE Rtp!Missing(log, rs[k + 1].at))
          /\ Rtp!Missing(log, rs[k + 1].at) - pz <= 0 => rs[k + 1].fraction = 0
          /\ Rtp!Missing(log, rs[k + 1].at) - pz > 0 =>
                /\ rs[k + 1].fraction * (Rtp!Expected(log, rs[k + 1].at) - px)
                       <= 256 * (Rtp!Missing(log, rs[k + 1].at) - pz)
                /\ 256 * (Rtp!Missing(log, rs[k + 1].at) - pz)
                       < (rs[k + 1].fraction + 1) * (Rtp!Expected(log, rs[k + 1].at) - px)
      <4> HIDE DEF px, pz
      <4> QED BY <3>1, <3>7
    <3> QED BY <3>8, Zenon DEF HonestAt, base
  <2> QED BY <1>2, <1>7, <2>8, <2>9 DEF c, r, rs, k, base
<1> QED BY <1>9, <1>10

-------------------------------------------------------------------------------
(* Folds.  A fold over a sequence is a function of the sets of its places    *)
(* that takes the largest place out of a set; there is such a function, and  *)
(* it has the values it should, by the least number of places for which that *)
(* is not so.                                                                *)

\* g is the fold of G over the sets of the first k places.
Folds(g, k, base, G) ==
    g = [s \in SUBSET (1 .. k) |-> IF s = {} THEN base ELSE G[<<Rtp!Max(s), g[s \ {Rtp!Max(s)}]>>]]

\* The largest of some places is the last.
LEMMA MaxOfPlaces ==
    ASSUME NEW k \in Nat, NEW s \in SUBSET (1 .. k), s # {}
    PROVE  Rtp!Max(s) \in s /\ Rtp!Max(s) \in 1 .. k /\ \A m \in s : m <= Rtp!Max(s)
<1> DEFINE L == {k - i : i \in s}
<1>0. PICK x0 \in s : TRUE OBVIOUS
<1>1. L \subseteq Nat /\ k - x0 \in L BY <1>0
<1>2. PICK l \in L : \A m \in L : l <= m BY <1>1, Least, Zenon
<1>3. PICK h \in s : l = k - h OBVIOUS
<1>4. \A m \in s : k - m \in L OBVIOUS
<1> HIDE DEF L
<1>5. \A m \in s : h >= m
  <2>1. ASSUME NEW m \in s PROVE h >= m
    <3>1. l <= k - m BY <1>2, <1>4
    <3> QED BY <1>3, <3>1
  <2> QED BY <2>1
<1>6. Rtp!Max(s) \in s /\ \A m \in s : Rtp!Max(s) >= m BY <1>5, MaxOf
<1> DEFINE x == Rtp!Max(s)
<1> HIDE DEF x
<1>7. x \in s /\ \A m \in s : x >= m BY <1>6 DEF x
<1>8. x \in 1 .. k /\ \A m \in s : m <= x BY <1>7
<1> QED BY <1>7, <1>8 DEF x

\* A set with the largest place is larger.
LEMMA MaxIsTop ==
    ASSUME NEW k \in Nat, NEW s \in SUBSET (1 .. k + 1), k + 1 \in s
    PROVE  Rtp!Max(s) = k + 1
<1>1. k + 1 \in Nat /\ s # {} OBVIOUS
<1>2. Rtp!Max(s) \in 1 .. k + 1 /\ \A m \in s : m <= Rtp!Max(s) BY <1>1, MaxOfPlaces
<1> DEFINE x == Rtp!Max(s)
<1> HIDE DEF x
<1>3. x \in 1 .. k + 1 /\ k + 1 <= x BY <1>2 DEF x
<1> QED BY <1>3 DEF x

\* A fold of k + 1 places, given that of k.
LEMMA FoldStep ==
    ASSUME NEW T, NEW base \in T, NEW k \in Nat, NEW G, \A t \in T : G[<<k + 1, t>>] \in T,
           NEW g \in [SUBSET (1 .. k) -> T], Folds(g, k, base, G)
    PROVE  \E h \in [SUBSET (1 .. k + 1) -> T] : Folds(h, k + 1, base, G)
<1> DEFINE h == [s \in SUBSET (1 .. k + 1) |-> IF k + 1 \in s THEN G[<<k + 1, g[s \ {k + 1}]>>] ELSE g[s]]
           e(f, s) == IF s = {} THEN base ELSE G[<<Rtp!Max(s), f[s \ {Rtp!Max(s)}]>>]
<1>1. \A s \in SUBSET (1 .. k + 1) : s \ {k + 1} \in SUBSET (1 .. k) OBVIOUS
<1>2. \A s \in SUBSET (1 .. k + 1) : k + 1 \notin s => s \in SUBSET (1 .. k) BY <1>1
<1>3. \A s \in SUBSET (1 .. k) : s \in SUBSET (1 .. k + 1) /\ k + 1 \notin s OBVIOUS
<1>4. \A s \in SUBSET (1 .. k) : g[s] = e(g, s) /\ g[s] \in T BY DEF Folds
<1>5. \A s \in SUBSET (1 .. k) : h[s] = g[s] BY <1>3
<1>6. ASSUME NEW s \in SUBSET (1 .. k + 1) PROVE h[s] \in T /\ h[s] = e(h, s)
  <2>1. CASE k + 1 \in s
    <3>1. h[s] = G[<<k + 1, g[s \ {k + 1}]>>] BY <2>1
    <3>2. s \ {k + 1} \in SUBSET (1 .. k) BY <1>1
    <3>3. g[s \ {k + 1}] \in T BY <1>4, <3>2
    <3>4. h[s \ {k + 1}] = g[s \ {k + 1}] BY <1>5, <3>2
    <3>5. Rtp!Max(s) = k + 1 BY <2>1, MaxIsTop
    <3>6. s # {} BY <2>1
    <3> HIDE DEF h
    <3>7. e(h, s) = G[<<k + 1, h[s \ {k + 1}]>>] BY <3>5, <3>6
    <3> QED BY <3>1, <3>3, <3>4, <3>7
  <2>2. CASE k + 1 \notin s
    <3>1. s \in SUBSET (1 .. k) BY <1>2, <2>2
    <3>2. h[s] = g[s] /\ g[s] \in T /\ g[s] = e(g, s) BY <1>4, <1>5, <3>1
    <3>3. CASE s = {} BY <3>2, <3>3
    <3>4. CASE s # {}
      <4>1. s \ {Rtp!Max(s)} \in SUBSET (1 .. k) BY <3>1
      <4>2. h[s \ {Rtp!Max(s)}] = g[s \ {Rtp!Max(s)}] BY <1>5, <4>1
      <4> HIDE DEF h
      <4>3. e(g, s) = e(h, s) BY <3>4, <4>2
      <4> QED BY <3>2, <4>3
    <3> QED BY <3>3, <3>4
  <2> QED BY <2>1, <2>2
<1>7. DOMAIN h = SUBSET (1 .. k + 1) /\ h = [s \in SUBSET (1 .. k + 1) |-> h[s]] OBVIOUS
<1> HIDE DEF h
<1>8. h = [s \in SUBSET (1 .. k + 1) |-> e(h, s)] BY <1>6, <1>7
<1>9. h \in [SUBSET (1 .. k + 1) -> T] BY <1>6, <1>7
<1> QED BY <1>8, <1>9 DEF Folds

\* There is a fold of as many places as one likes.
LEMMA FoldExists ==
    ASSUME NEW T, NEW base \in T, NEW n \in Nat, NEW G, \A i \in 1 .. n, t \in T : G[<<i, t>>] \in T
    PROVE  \E g \in [SUBSET (1 .. n) -> T] : Folds(g, n, base, G)
<1> DEFINE Some(k) == \E g \in [SUBSET (1 .. k) -> T] : Folds(g, k, base, G)
           Bad == {k \in 0 .. n : ~Some(k)}
<1>1. SUFFICES ASSUME Bad # {} PROVE FALSE
  <2>1. n \in 0 .. n OBVIOUS
  <2> QED BY <2>1
<1>2. Bad \subseteq Nat OBVIOUS
<1>3. PICK k \in Bad : \A m \in Bad : k <= m BY <1>1, <1>2, Least, Zenon
<1>4. k \in 0 .. n /\ ~Some(k) OBVIOUS
<1>5. \A m \in 0 .. n : m \notin Bad => Some(m) OBVIOUS
<1>6. Some(0)
  <2> DEFINE g == [s \in SUBSET (1 .. 0) |-> base]
  <2>1. \A s \in SUBSET (1 .. 0) : s = {} OBVIOUS
  <2>2. g = [s \in SUBSET (1 .. 0) |-> IF s = {} THEN base ELSE G[<<Rtp!Max(s), g[s \ {Rtp!Max(s)}]>>]] BY <2>1
  <2>3. g \in [SUBSET (1 .. 0) -> T] OBVIOUS
  <2> HIDE DEF g
  <2> QED BY <2>2, <2>3 DEF Folds
<1> HIDE DEF Some, Bad
<1>7. k # 0 BY <1>4, <1>6
<1>8. k - 1 \in 0 .. n /\ k - 1 \notin Bad /\ k - 1 \in Nat /\ (k - 1) + 1 = k /\ k \in 1 .. n
  BY <1>2, <1>3, <1>4, <1>7
<1>9. Some(k - 1) BY <1>5, <1>8
<1> DEFINE j == k - 1
<1>10. PICK g \in [SUBSET (1 .. j) -> T] : Folds(g, j, base, G) BY <1>9 DEF Some
<1>11. j \in Nat /\ j + 1 = k BY <1>8
<1> HIDE DEF j
<1>12. \A t \in T : G[<<j + 1, t>>] \in T BY <1>8, <1>11
<1>13. \E h \in [SUBSET (1 .. j + 1) -> T] : Folds(h, j + 1, base, G) BY <1>10, <1>11, <1>12, FoldStep
<1>14. Some(k) BY <1>11, <1>13 DEF Some
<1> QED BY <1>4, <1>14

\* What each turn keeps the whole fold has.
LEMMA FoldTyped ==
    ASSUME NEW T, NEW n \in Nat, NEW iter, iter[{}] \in T,
           \A s \in SUBSET (1 .. n) : s # {} /\ iter[s \ {Rtp!Max(s)}] \in T => iter[s] \in T
    PROVE  iter[1 .. n] \in T
<1> DEFINE All(k) == \A s \in SUBSET (1 .. k) : iter[s] \in T
           Bad == {k \in 0 .. n : ~All(k)}
<1>1. SUFFICES ASSUME Bad # {} PROVE FALSE
  <2>1. n \in 0 .. n OBVIOUS
  <2> QED BY <2>1
<1>2. Bad \subseteq Nat OBVIOUS
<1>3. PICK k \in Bad : \A m \in Bad : k <= m BY <1>1, <1>2, Least, Zenon
<1>4. k \in 0 .. n /\ ~All(k) OBVIOUS
<1>5. \A m \in 0 .. n : m \notin Bad => All(m) OBVIOUS
<1>6. All(0)
  <2>1. \A s \in SUBSET (1 .. 0) : s = {} OBVIOUS
  <2> QED BY <2>1
<1>12. ASSUME All(k - 1) PROVE \A s \in SUBSET (1 .. k - 1) : iter[s] \in T BY <1>12
<1>13. ASSUME \A s \in SUBSET (1 .. k) : iter[s] \in T PROVE All(k) BY <1>13
<1> HIDE DEF All, Bad
<1>7. k # 0 BY <1>4, <1>6
<1>8. k - 1 \in 0 .. n /\ k - 1 \notin Bad /\ k \in 1 .. n BY <1>2, <1>3, <1>4, <1>7
<1>9. \A s \in SUBSET (1 .. k - 1) : iter[s] \in T BY <1>5, <1>8, <1>12
<1>10. ASSUME NEW s \in SUBSET (1 .. k) PROVE iter[s] \in T
  <2>1. CASE s \in SUBSET (1 .. k - 1) BY <1>9, <2>1
  <2>2. CASE s \notin SUBSET (1 .. k - 1)
    <3>1. k \in s BY <1>8, <2>2
    <3> DEFINE j == k - 1
    <3>2. j \in Nat /\ j + 1 = k BY <1>8
    <3> HIDE DEF j
    <3>3. Rtp!Max(s) = k BY <3>1, <3>2, MaxIsTop
    <3>4. s \ {k} \in SUBSET (1 .. k - 1) BY <1>8
    <3>5. iter[s \ {Rtp!Max(s)}] \in T BY <1>9, <3>3, <3>4
    <3>6. s \in SUBSET (1 .. n) /\ s # {} BY <1>8, <3>1
    <3> QED BY <3>5, <3>6
  <2> QED BY <2>1, <2>2
<1>11. All(k) BY <1>10, <1>13
<1> QED BY <1>4, <1>11

\* What a sequence of T holds.
LEMMA SeqHas ==
    ASSUME NEW T, NEW s \in Seq(T)
    PROVE  Len(s) \in Nat /\ DOMAIN s = 1 .. Len(s) /\ \A i \in 1 .. Len(s) : s[i] \in T
OBVIOUS

\* Two functions that fold alike are the same fold.
LEMMA FoldsAgree ==
    ASSUME NEW n \in Nat, NEW f, NEW g, f[{}] = g[{}],
           \A s \in SUBSET (1 .. n) : s # {} /\ f[s \ {Rtp!Max(s)}] = g[s \ {Rtp!Max(s)}] => f[s] = g[s]
    PROVE  f[1 .. n] = g[1 .. n]
<1> DEFINE same == [s \in SUBSET (1 .. n) |-> IF f[s] = g[s] THEN 1 ELSE 0]
           One == {1}
<1>1. {} \in SUBSET (1 .. n) /\ 1 .. n \in SUBSET (1 .. n) OBVIOUS
<1>2. same[{}] \in One BY <1>1
<1>3. ASSUME NEW s \in SUBSET (1 .. n), s # {}, same[s \ {Rtp!Max(s)}] \in One PROVE same[s] \in One
  <2>1. s \ {Rtp!Max(s)} \in SUBSET (1 .. n) OBVIOUS
  <2>2. f[s \ {Rtp!Max(s)}] = g[s \ {Rtp!Max(s)}] BY <1>3, <2>1
  <2>3. f[s] = g[s] BY <1>3, <2>2
  <2> QED BY <2>3
<1>4. same[1 .. n] = IF f[1 .. n] = g[1 .. n] THEN 1 ELSE 0 BY <1>1
<1>5. \A t \in One : t = 1 OBVIOUS
<1> HIDE DEF same, One
<1>6. same[1 .. n] \in One BY <1>2, <1>3, FoldTyped
<1> QED BY <1>4, <1>5, <1>6

NalUnits == [t : STRING, len : Nat, first : BOOLEAN]
\* The sum of lengths, as a fold by places.
Sums(f, nals, places) ==
    f = [s \in SUBSET places |-> IF s = {} THEN 0 ELSE f[s \ {Rtp!Max(s)}] + nals[Rtp!Max(s)].len]

\* There is one, and SumLen is its value.
LEMMA SumsExist ==
    ASSUME NEW nals \in Seq(NalUnits)
    PROVE  \E f : Sums(f, nals, 1 .. Len(nals)) /\ Rtp!SumLen(nals) = f[1 .. Len(nals)]
<1> DEFINE n == Len(nals)
           places == DOMAIN nals
           iter == CHOOSE f : f = [s \in SUBSET places |->
                      IF s = {} THEN 0 ELSE f[s \ {Rtp!Max(s)}] + nals[Rtp!Max(s)].len]
           G == [p \in (1 .. n) \X Nat |-> p[2] + nals[p[1]].len]
<1>1. n \in Nat /\ places = 1 .. n OBVIOUS
<1>2. \A i \in 1 .. n : nals[i].len \in Nat
  <2>1. \A i \in 1 .. n : nals[i] \in NalUnits BY SeqHas
  <2> HIDE DEF n
  <2> QED BY <2>1 DEF NalUnits
<1>3. Rtp!SumLen(nals) = iter[places] BY DEF Rtp!SumLen, Rtp!FoldLeft, Rtp!MapThenFoldSet
<1>4. \A i \in 1 .. n, t \in Nat : <<i, t>> \in (1 .. n) \X Nat /\ G[<<i, t>>] = t + nals[i].len OBVIOUS
<1>5. \A i \in 1 .. n, t \in Nat : G[<<i, t>>] \in Nat
  <2>1. ASSUME NEW i \in 1 .. n, NEW t \in Nat PROVE G[<<i, t>>] \in Nat
    <3> HIDE DEF G, n
    <3>1. nals[i].len \in Nat /\ G[<<i, t>>] = t + nals[i].len BY <1>2, <1>4
    <3> QED BY <3>1
  <2> HIDE DEF G, n
  <2> QED BY <2>1
<1> HIDE DEF G, n, places
<1>6. PICK g \in [SUBSET (1 .. n) -> Nat] : Folds(g, n, 0, G) BY <1>1, <1>5, FoldExists
<1>7. g = [s \in SUBSET places |-> IF s = {} THEN 0 ELSE g[s \ {Rtp!Max(s)}] + nals[Rtp!Max(s)].len]
  <2>1. ASSUME NEW s \in SUBSET (1 .. n), s # {}
        PROVE  G[<<Rtp!Max(s), g[s \ {Rtp!Max(s)}]>>] = g[s \ {Rtp!Max(s)}] + nals[Rtp!Max(s)].len
    <3>1. Rtp!Max(s) \in 1 .. n BY <1>1, <2>1, MaxOfPlaces
    <3>2. g[s \ {Rtp!Max(s)}] \in Nat OBVIOUS
    <3> QED BY <1>4, <3>1, <3>2
  <2> QED BY <1>1, <1>6, <2>1 DEF Folds
<1>8. iter = [s \in SUBSET places |-> IF s = {} THEN 0 ELSE iter[s \ {Rtp!Max(s)}] + nals[Rtp!Max(s)].len]
  BY <1>7, Zenon
<1> HIDE DEF iter
<1>9. Sums(iter, nals, 1 .. n) BY <1>1, <1>8, Zenon DEF Sums
<1> QED BY <1>1, <1>3, <1>9, Zenon DEF n

\* The sizes of NAL units add up.
LEMMA SumLenType ==
    ASSUME NEW nals \in Seq(NalUnits)
    PROVE  Rtp!SumLen(nals) \in Nat
<1>1. Len(nals) \in Nat /\ \A i \in 1 .. Len(nals) : nals[i].len \in Nat
  <2>1. Len(nals) \in Nat /\ \A i \in 1 .. Len(nals) : nals[i] \in NalUnits BY SeqHas
  <2> QED BY <2>1 DEF NalUnits
<1>2. PICK f : Sums(f, nals, 1 .. Len(nals)) /\ Rtp!SumLen(nals) = f[1 .. Len(nals)] BY SumsExist
<1>3. f[{}] \in Nat
  <2>1. {} \in SUBSET (1 .. Len(nals)) OBVIOUS
  <2> QED BY <1>2, <2>1 DEF Sums
<1>4. ASSUME NEW s \in SUBSET (1 .. Len(nals)), s # {}, f[s \ {Rtp!Max(s)}] \in Nat PROVE f[s] \in Nat
  <2>1. Rtp!Max(s) \in 1 .. Len(nals) BY <1>1, <1>4, MaxOfPlaces
  <2>2. f[s] = f[s \ {Rtp!Max(s)}] + nals[Rtp!Max(s)].len BY <1>2, <1>4 DEF Sums
  <2> QED BY <1>1, <1>4, <2>1, <2>2
<1>5. f[1 .. Len(nals)] \in Nat BY <1>1, <1>3, <1>4, FoldTyped
<1> QED BY <1>2, <1>5

\* The next NAL unit begins where one ends.
LEMMA NextNal ==
    ASSUME NEW au \in RtpUnits, NEW k \in DOMAIN au.nals
    PROVE  Rtp!NalAt(au, k + 1) = Rtp!NalAt(au, k) + au.nals[k].len
<1> DEFINE nals == au.nals
           j == k - 1
           a == SubSeq(nals, 1, k)
           b == SubSeq(nals, 1, j)
<1>1. nals \in Seq(NalUnits) BY PacketsAssumption DEF Rtp!RtpAssumption, NalUnits
<1>2. k \in 1 .. Len(nals) /\ Len(nals) \in Nat BY <1>1, SeqHas
<1>3. /\ a \in Seq(NalUnits) /\ Len(a) = k /\ \A i \in 1 .. k : a[i] = nals[i]
      /\ b \in Seq(NalUnits) /\ Len(b) = j /\ \A i \in 1 .. j : b[i] = nals[i]
  <2>1. 1 \in 1 .. Len(nals) + 1 /\ k \in 1 - 1 .. Len(nals) /\ j \in 1 - 1 .. Len(nals) BY <1>2
  <2> HIDE DEF nals, j
  <2>2. /\ a \in Seq(NalUnits) /\ Len(a) = IF 1 <= k THEN k - 1 + 1 ELSE 0
        /\ \A i \in 1 .. k - 1 + 1 : a[i] = nals[1 + i - 1]
    BY <1>1, <2>1, SubSeqProperties
  <2>3. /\ b \in Seq(NalUnits) /\ Len(b) = IF 1 <= j THEN j - 1 + 1 ELSE 0
        /\ \A i \in 1 .. j - 1 + 1 : b[i] = nals[1 + i - 1]
    BY <1>1, <2>1, SubSeqProperties
  <2> HIDE DEF a, b
  <2>4. k \in Nat \ {0} /\ j \in Nat BY <1>2, <2>1
  <2>5. k - 1 + 1 = k /\ j - 1 + 1 = j /\ \A i \in 1 .. k : 1 + i - 1 = i BY <2>4
  <2>6. \A i \in 1 .. j : 1 + i - 1 = i BY <2>4
  <2> QED BY <2>2, <2>3, <2>4, <2>5, <2>6
<1>4. j \in Nat /\ k = j + 1 /\ k + 1 - 1 = k BY <1>2
<1> HIDE DEF nals, j, a, b
<1>5. PICK f : Sums(f, a, 1 .. k) /\ Rtp!SumLen(a) = f[1 .. k] BY <1>3, SumsExist
<1>6. PICK g : Sums(g, b, 1 .. j) /\ Rtp!SumLen(b) = g[1 .. j] BY <1>3, SumsExist
<1>7. f[1 .. j] = g[1 .. j]
  <2>1. {} \in SUBSET (1 .. k) /\ {} \in SUBSET (1 .. j) OBVIOUS
  <2>2. f[{}] = g[{}] BY <1>5, <1>6, <2>1 DEF Sums
  <2>3. ASSUME NEW s \in SUBSET (1 .. j), s # {} /\ f[s \ {Rtp!Max(s)}] = g[s \ {Rtp!Max(s)}] PROVE f[s] = g[s]
    <3>1. s \in SUBSET (1 .. k) BY <1>4
    <3>2. Rtp!Max(s) \in 1 .. j BY <1>4, <2>3, MaxOfPlaces
    <3>3. Rtp!Max(s) \in 1 .. k BY <1>4, <3>2
    <3>4. a[Rtp!Max(s)] = b[Rtp!Max(s)] BY <1>3, <3>2, <3>3
    <3>5. f[s] = f[s \ {Rtp!Max(s)}] + a[Rtp!Max(s)].len BY <1>5, <2>3, <3>1 DEF Sums
    <3>6. g[s] = g[s \ {Rtp!Max(s)}] + b[Rtp!Max(s)].len BY <1>6, <2>3 DEF Sums
    <3> QED BY <2>3, <3>4, <3>5, <3>6
  <2> QED BY <1>4, <2>2, <2>3, FoldsAgree
<1>8. f[1 .. k] = f[1 .. j] + a[k].len
  <2>1. 1 .. k \in SUBSET (1 .. j + 1) /\ j + 1 \in 1 .. k /\ (1 .. k) \ {k} = 1 .. j /\ 1 .. k # {} BY <1>4
  <2>2. Rtp!Max(1 .. k) = k BY <1>4, <2>1, MaxIsTop
  <2>3. \A s \in SUBSET (1 .. k) : s # {} => f[s] = f[s \ {Rtp!Max(s)}] + a[Rtp!Max(s)].len BY <1>5 DEF Sums
  <2>4. 1 .. k \in SUBSET (1 .. k) OBVIOUS
  <2>5. f[1 .. k] = f[(1 .. k) \ {Rtp!Max(1 .. k)}] + a[Rtp!Max(1 .. k)].len BY <2>1, <2>3, <2>4
  <2> QED BY <2>1, <2>2, <2>5
<1>9. a[k] = nals[k] BY <1>2, <1>3
<1>10. Rtp!NalAt(au, k + 1) = Rtp!SumLen(a) /\ Rtp!NalAt(au, k) = Rtp!SumLen(b)
  BY <1>4 DEF Rtp!NalAt, a, b, nals, j
<1> QED BY <1>5, <1>6, <1>7, <1>8, <1>9, <1>10 DEF nals
\* Units are where the ones before them end, or behind.
LEMMA NalOrder ==
    ASSUME NEW au \in RtpUnits
    PROVE  /\ Len(au.nals) \in Nat /\ DOMAIN au.nals = 1 .. Len(au.nals)
           /\ \A k \in 1 .. Len(au.nals) + 1 : Rtp!NalAt(au, k) \in Nat
           /\ \A k \in 1 .. Len(au.nals) + 1, j \in 1 .. Len(au.nals) + 1 :
                 j <= k => Rtp!NalAt(au, j) <= Rtp!NalAt(au, k)
<1> DEFINE m == Len(au.nals)
           At(k) == Rtp!NalAt(au, k)
<1>1. au.nals \in Seq(NalUnits) BY PacketsAssumption DEF Rtp!RtpAssumption, NalUnits
<1>2. m \in Nat /\ DOMAIN au.nals = 1 .. m /\ \A k \in 1 .. m : au.nals[k].len \in Nat
  <2>1. \A k \in 1 .. m : au.nals[k] \in NalUnits BY <1>1, SeqHas
  <2>2. m \in Nat /\ DOMAIN au.nals = 1 .. m BY <1>1, SeqHas
  <2> HIDE DEF m
  <2> QED BY <2>1, <2>2 DEF NalUnits
<1>3. ASSUME NEW k \in 1 .. m + 1 PROVE At(k) \in Nat
  <2>1. 1 \in 1 .. m + 1 /\ k - 1 \in 1 - 1 .. m BY <1>2
  <2>2. SubSeq(au.nals, 1, k - 1) \in Seq(NalUnits) BY <1>1, <2>1, SubSeqProperties
  <2>3. Rtp!SumLen(SubSeq(au.nals, 1, k - 1)) \in Nat BY <2>2, SumLenType
  <2> QED BY <2>3 DEF Rtp!NalAt
<1>4. \A k \in 1 .. m : At(k + 1) = At(k) + au.nals[k].len BY <1>2, NextNal
<1> HIDE DEF At, m
<1>5. ASSUME NEW j \in 1 .. m + 1, NEW k \in 1 .. m + 1, j <= k PROVE At(j) <= At(k)
  <2> DEFINE Bad == {i \in j .. m + 1 : ~(At(j) <= At(i))}
  <2>1. Bad = {}
    <3>1. SUFFICES ASSUME Bad # {} PROVE FALSE OBVIOUS
    <3>2. Bad \subseteq Nat BY <1>2
    <3>3. PICK i \in Bad : \A l \in Bad : i <= l BY <3>1, <3>2, Least, Zenon
    <3>4. i \in j .. m + 1 /\ ~(At(j) <= At(i)) OBVIOUS
    <3>5. \A l \in j .. m + 1 : l \notin Bad => At(j) <= At(l) OBVIOUS
    <3> HIDE DEF Bad
    <3>6. i # j BY <1>2, <1>3, <3>4
    <3>7. i - 1 \in j .. m + 1 /\ i - 1 \in 1 .. m /\ (i - 1) + 1 = i /\ i - 1 \notin Bad BY <1>2, <3>3, <3>4, <3>6
    <3>8. At(i) = At(i - 1) + au.nals[i - 1].len BY <1>4, <3>7
    <3>9. At(j) <= At(i - 1) BY <3>5, <3>7
    <3>10. At(j) \in Nat /\ At(i - 1) \in Nat /\ At(i) \in Nat BY <1>2, <1>3, <3>4, <3>7
    <3>11. au.nals[i - 1].len \in Nat BY <1>2, <3>7
    <3> QED BY <3>4, <3>8, <3>9, <3>10, <3>11
  <2>2. k \in j .. m + 1 BY <1>2, <1>5
  <2> QED BY <2>1, <2>2
<1> QED BY <1>2, <1>3, <1>5 DEF At, m

\* The bytes of a NAL unit.
LEMMA NalRunType ==
    ASSUME NEW au \in RtpUnits, NEW n \in Nat, NEW k \in DOMAIN au.nals
    PROVE  Rtp!NalRun(au, n, k) \in Runs
<1>1. k \in 1 .. Len(au.nals) + 1 /\ k + 1 \in 1 .. Len(au.nals) + 1 BY NalOrder
<1>2. Rtp!NalAt(au, k) \in Nat /\ Rtp!NalAt(au, k + 1) \in Nat BY <1>1, NalOrder
<1> QED BY <1>2 DEF Rtp!NalRun, Runs, Rtp!ScLen

\* A unit has a size.
LEMMA SizeType ==
    ASSUME NEW au \in RtpUnits
    PROVE  Rtp!SizeOfUnit(au) \in Nat
<1>1. au.nals \in Seq(NalUnits) BY PacketsAssumption DEF Rtp!RtpAssumption, NalUnits
<1> QED BY <1>1, SumLenType DEF Rtp!SizeOfUnit

\* Sequences put together, of a kind that allows that.
LEMMA FlattenIn ==
    ASSUME NEW T, <<>> \in T, \A s, t \in T : s \o t \in T, NEW seqs \in Seq(T)
    PROVE  Rtp!FlattenSeq(seqs) \in T
<1> DEFINE n == Len(seqs)
           flat == CHOOSE f : f = [i \in 1 .. n |-> IF i = 1 THEN seqs[i] ELSE f[i - 1] \o seqs[i]]
           G == [p \in (1 .. n) \X T |-> IF p[1] = 1 THEN seqs[1] ELSE p[2] \o seqs[p[1]]]
<1>1. n \in Nat /\ \A i \in 1 .. n : seqs[i] \in T BY SeqHas
<1>2. Rtp!FlattenSeq(seqs) = IF n = 0 THEN seqs ELSE flat[n] BY DEF Rtp!FlattenSeq
<1>3. CASE n = 0
  <2>1. seqs = <<>> /\ <<>> \in T BY <1>3
  <2> QED BY <1>2, <1>3, <2>1
<1>4. CASE n # 0
  <2>1. \A i \in 1 .. n, t \in T : G[<<i, t>>] = IF i = 1 THEN seqs[1] ELSE t \o seqs[i]
    <3>1. ASSUME NEW i \in 1 .. n, NEW t \in T PROVE G[<<i, t>>] = IF i = 1 THEN seqs[1] ELSE t \o seqs[i]
      <4>1. <<i, t>> \in (1 .. n) \X T OBVIOUS
      <4> HIDE DEF n
      <4> QED BY <4>1
    <3> QED BY <3>1
  <2>2. 1 \in 1 .. n BY <1>1, <1>4
  <2> HIDE DEF G, n
  <2>4. \A i \in 1 .. n, t \in T : G[<<i, t>>] \in T BY <1>1, <2>1, <2>2
  <2>5. PICK g \in [SUBSET (1 .. n) -> T] : Folds(g, n, <<>>, G) BY <1>1, <2>2, <2>4, FoldExists
  <2> DEFINE h == [i \in 1 .. n |-> g[1 .. i]]
  <2>6. ASSUME NEW i \in 1 .. n PROVE h[i] = IF i = 1 THEN seqs[i] ELSE h[i - 1] \o seqs[i]
    <3> DEFINE j == i - 1
    <3>1. j \in Nat /\ j + 1 = i /\ 1 .. i \in SUBSET (1 .. n) /\ i \in 1 .. i /\ (1 .. i) \ {i} = 1 .. j
          /\ 1 .. j \in SUBSET (1 .. n) BY <1>1
    <3> HIDE DEF j
    <3>2. Rtp!Max(1 .. i) = i
      <4>1. 1 .. i \in SUBSET (1 .. j + 1) /\ j + 1 \in 1 .. i BY <3>1
      <4>2. Rtp!Max(1 .. i) = j + 1 BY <3>1, <4>1, MaxIsTop
      <4> QED BY <3>1, <4>2
    <3>3. 1 .. i # {} BY <3>1
    <3>4. g[1 .. i] = G[<<Rtp!Max(1 .. i), g[(1 .. i) \ {Rtp!Max(1 .. i)}]>>] BY <2>5, <3>1, <3>3 DEF Folds
    <3>5. g[1 .. i] = G[<<i, g[1 .. j]>>] BY <3>1, <3>2, <3>4
    <3>6. g[1 .. j] \in T BY <3>1
    <3>7. g[1 .. i] = IF i = 1 THEN seqs[1] ELSE g[1 .. j] \o seqs[i] BY <2>1, <3>5, <3>6
    <3>8. i # 1 => j \in 1 .. n /\ h[j] = g[1 .. j] BY <1>1, <3>1
    <3>9. h[i] = g[1 .. i] OBVIOUS
    <3> HIDE DEF h
    <3> QED BY <3>7, <3>8, <3>9 DEF j
  <2>7. h = [i \in 1 .. n |-> h[i]] OBVIOUS
  <2> HIDE DEF h
  <2>8. h = [i \in 1 .. n |-> IF i = 1 THEN seqs[i] ELSE h[i - 1] \o seqs[i]] BY <2>6, <2>7
  <2>9. flat = [i \in 1 .. n |-> IF i = 1 THEN seqs[i] ELSE flat[i - 1] \o seqs[i]] BY <2>8, Zenon
  <2> HIDE DEF flat
  <2> DEFINE Bad == {i \in 1 .. n : flat[i] \notin T}
  <2>10. Bad = {}
    <3>1. SUFFICES ASSUME Bad # {} PROVE FALSE OBVIOUS
    <3>2. Bad \subseteq Nat OBVIOUS
    <3>3. PICK k \in Bad : \A m \in Bad : k <= m BY <3>1, <3>2, Least, Zenon
    <3>4. k \in 1 .. n /\ flat[k] \notin T OBVIOUS
    <3>5. \A m \in 1 .. n : m \notin Bad => flat[m] \in T OBVIOUS
    <3> HIDE DEF Bad
    <3>6. CASE k = 1 BY <1>1, <2>9, <3>4, <3>6
    <3>7. CASE k # 1
      <4>1. k - 1 \in 1 .. n /\ k - 1 \notin Bad BY <1>1, <3>2, <3>3, <3>4, <3>7
      <4>2. flat[k] = flat[k - 1] \o seqs[k] BY <2>9, <3>4, <3>7
      <4> QED BY <1>1, <3>4, <3>5, <4>1, <4>2
    <3> QED BY <3>6, <3>7
  <2>11. n \in 1 .. n BY <1>1, <1>4
  <2>12. flat[n] \in T BY <2>10, <2>11
  <2> QED BY <1>2, <1>4, <2>12
<1> QED BY <1>3, <1>4

-------------------------------------------------------------------------------
(* What Pack makes: packets of whole NAL units, and of fragments that follow *)
(* each other.                                                               *)

Bundles(nals) == Seq(nals) \ {<<>>}
Payloads == [kind : {"fu", "stap", "single"}, parts : Seq(Runs), s : BOOLEAN, e : BOOLEAN, hdr : Runs]

\* A fragment of one of the NAL units.
FragmentOf(nals, p) ==
    \E r \in nals : LET piece == p.parts[1] IN
       /\ p.hdr \in Runs /\ piece \in Runs /\ p.parts = <<piece>>
       /\ p.hdr.n = r.n /\ p.hdr.lo = r.lo /\ piece.n = r.n
       /\ r.lo < p.hdr.hi /\ p.hdr.hi <= piece.lo /\ piece.lo <= piece.hi /\ piece.hi <= r.hi
       /\ p.s => piece.lo = p.hdr.hi
       /\ p.e => piece.hi = r.hi
PieceOf(nals, p) ==
    /\ p.kind \in {"fu", "single", "stap"}
    /\ p.kind = "fu" => FragmentOf(nals, p)
    /\ p.kind = "single" => ~p.s /\ \E r \in nals : p.parts = <<r>>
    /\ p.kind = "stap" => ~p.s /\ p.parts \in Bundles(nals)
\* The fragment q is the one before p.
Linked(q, p) == q.kind = "fu" /\ ~q.e /\ q.hdr = p.hdr /\ q.parts[1].hi = p.parts[1].lo
Follows(p) == p.kind = "fu" /\ ~p.s

Pieces(nals) == {p \in Payloads : PieceOf(nals, p)}
\* No fragment but a first one is without the one before it.
Chains(nals) == {c \in Seq(Pieces(nals)) : \A i \in 1 .. Len(c) : Follows(c[i]) => i > 1 /\ Linked(c[i - 1], c[i])}

\* A packet of whole NAL units.
LEMMA WholeChain ==
    ASSUME NEW nals, nals \subseteq Runs, NEW kind \in {"single", "stap"}, NEW parts \in Bundles(nals),
           kind = "single" => \E r \in nals : parts = <<r>>
    PROVE  <<Rtp!Packet(kind, parts)>> \in Chains(nals)
<1> DEFINE p == Rtp!Packet(kind, parts)
<1>1. p = [kind |-> kind, parts |-> parts, s |-> FALSE, e |-> FALSE, hdr |-> Rtp!NoRun] /\ Rtp!NoRun \in Runs
  BY DEF Rtp!Packet, Rtp!NoRun, Runs
<1>2. parts \in Seq(Runs) BY DEF Bundles
<1> HIDE DEF p
<1>3. p \in Payloads BY <1>1, <1>2 DEF Payloads
<1>4. ~Follows(p) /\ PieceOf(nals, p) BY <1>1 DEF Follows, PieceOf
<1>5. p \in Pieces(nals) BY <1>3, <1>4 DEF Pieces
<1>6. <<p>> \in Seq(Pieces(nals)) /\ Len(<<p>>) = 1 /\ <<p>>[1] = p BY <1>5
<1>7. \A i \in 1 .. Len(<<p>>) : <<p>>[i] = p BY <1>6
<1>8. <<p>> \in Chains(nals) BY <1>4, <1>6, <1>7 DEF Chains
<1> QED BY <1>8 DEF p

\* Chains behind each other are one.
LEMMA ChainsJoin ==
    ASSUME NEW nals
    PROVE  <<>> \in Chains(nals) /\ \A c, d \in Chains(nals) : c \o d \in Chains(nals)
<1>1. <<>> \in Chains(nals)
  <2>1. <<>> \in Seq(Pieces(nals)) /\ Len(<<>>) = 0 OBVIOUS
  <2> QED BY <2>1 DEF Chains
<1>2. ASSUME NEW c \in Chains(nals), NEW d \in Chains(nals) PROVE c \o d \in Chains(nals)
  <2> DEFINE P == Pieces(nals)
             e == c \o d
             m == Len(c)
             k == Len(d)
  <2>1. c \in Seq(P) /\ d \in Seq(P) BY DEF Chains
  <2> HIDE DEF P
  <2>2. /\ e \in Seq(P) /\ Len(e) = m + k /\ m \in Nat /\ k \in Nat
        /\ \A i \in 1 .. m + k : e[i] = IF i <= m THEN c[i] ELSE d[i - m]
    BY <2>1
  <2> HIDE DEF e, m, k
  <2>3. ASSUME NEW i \in 1 .. m + k, Follows(e[i]) PROVE i > 1 /\ Linked(e[i - 1], e[i])
    <3>1. CASE i <= m
      <4>1. i \in 1 .. m /\ e[i] = c[i] BY <2>2, <3>1
      <4>2. i > 1 /\ Linked(c[i - 1], c[i]) BY <2>3, <4>1 DEF Chains, m
      <4>3. e[i - 1] = c[i - 1]
        <5>1. i - 1 \in 1 .. m + k /\ i - 1 <= m BY <2>2, <4>1, <4>2
        <5> QED BY <2>2, <5>1
      <4> QED BY <4>1, <4>2, <4>3
    <3>2. CASE ~(i <= m)
      <4>1. i - m \in 1 .. k /\ e[i] = d[i - m] BY <2>2, <3>2
      <4>2. i - m > 1 /\ Linked(d[(i - m) - 1], d[i - m]) BY <2>3, <4>1 DEF Chains, k
      <4>3. i > 1 /\ e[i - 1] = d[(i - m) - 1]
        <5>1. i - 1 \in 1 .. m + k /\ ~(i - 1 <= m) /\ (i - 1) - m = (i - m) - 1 /\ i > 1 BY <2>2, <4>1, <4>2
        <5> QED BY <2>2, <5>1
      <4> QED BY <4>1, <4>2, <4>3
    <3> QED BY <3>1, <3>2
  <2>4. e \in Chains(nals) BY <2>2, <2>3 DEF Chains, P
  <2> QED BY <2>4 DEF e
<1> QED BY <1>1, <1>2

\* A product grows with its factor.
LEMMA Grows ==
    ASSUME NEW r \in Nat, NEW i \in Int, NEW j \in Int, i <= j
    PROVE  i * r \in Int /\ j * r \in Int /\ i * r <= j * r
<1>1. j - i \in Nat OBVIOUS
<1>2. (j - i) * r \in Nat BY <1>1
<1>3. j * r = i * r + (j - i) * r /\ i * r \in Int /\ j * r \in Int BY <1>1
<1> QED BY <1>2, <1>3

\* How many packets it takes.
LEMMA CountUp ==
    ASSUME NEW room \in Nat \ {0}, NEW x \in Int
    PROVE  LET count == (x + room - 1) \div room IN
           count \in Int /\ (count - 1) * room < x /\ x <= count * room /\ count * room \in Int
<1> DEFINE z == x + room - 1
           q == z \div room
           m == z % room
<1>1. z \in Int OBVIOUS
<1> HIDE DEF z
<1>2. q \in Int /\ m \in 0 .. room - 1 /\ z = q * room + m BY <1>1, TurnOf
<1> HIDE DEF q, m
<1>3. (q - 1) * room = q * room - room /\ q * room \in Int BY <1>2
<1>4. (q - 1) * room < x /\ x <= q * room BY <1>2, <1>3 DEF z
<1> QED BY <1>2, <1>3, <1>4 DEF q, z

\* The fragments of a NAL unit that does not fit one packet.
LEMMA FragmentsChain ==
    ASSUME NEW nals, nals \subseteq Runs, NEW run \in nals, NEW header \in 1 .. 2, ~Rtp!FitsAlone(run)
    PROVE  Rtp!Fragments(run, header) \in Chains(nals)
<1> DEFINE room == Mtu - HeadLen - (header + 1)
           from == run.lo + header
           count == (run.hi - from + room - 1) \div room
           lo(i) == from + (i - 1) * room
           hi(i) == IF i = count THEN run.hi ELSE from + i * room
           piece(i) == [n |-> run.n, lo |-> lo(i), hi |-> hi(i)]
           hdr == [run EXCEPT !.hi = from]
           frag(i) == [kind |-> "fu", s |-> i = 1, e |-> i = count, hdr |-> hdr, parts |-> <<piece(i)>>]
           frags == [i \in 1 .. count |-> frag(i)]
<1>1. Rtp!Fragments(run, header) = frags BY DEF Rtp!Fragments
<1>2. run.n \in Nat /\ run.lo \in Int /\ run.hi \in Int /\ run \in Runs BY DEF Runs
<1>3. /\ room \in Nat \ {0} /\ from \in Int /\ run.lo < from
      /\ run.hi - from > 0
  <2>1. run.hi - run.lo + HeadLen > Mtu BY <1>2, RtpConstants DEF Rtp!FitsAlone, Rtp!RunLen
  <2> QED BY <1>2, <2>1, RtpConstants
<1>4. count \in Int /\ (count - 1) * room < run.hi - from /\ run.hi - from <= count * room /\ count * room \in Int
  <2> DEFINE x == run.hi - from
  <2>1. x \in Int BY <1>2, <1>3
  <2> HIDE DEF x, room
  <2>2. (x + room - 1) \div room \in Int /\ ((x + room - 1) \div room - 1) * room < x
        /\ x <= ((x + room - 1) \div room) * room /\ ((x + room - 1) \div room) * room \in Int
    BY <1>3, <2>1, CountUp
  <2> QED BY <2>2 DEF x
<1>5. hdr \in Runs /\ hdr.n = run.n /\ hdr.lo = run.lo /\ hdr.hi = from BY <1>2, <1>3 DEF Runs
<1> HIDE DEF room, from, count, hdr
<1>6. count \in Nat
  <2>1. SUFFICES ASSUME count <= 0 PROVE FALSE BY <1>4
  <2>2. count * room <= 0 * room BY <1>3, <1>4, <2>1, Grows
  <2> QED BY <1>2, <1>3, <1>4, <2>2
<1>7. ASSUME NEW i \in 1 .. count
      PROVE  /\ lo(i) \in Int /\ hi(i) \in Int /\ from <= lo(i) /\ lo(i) <= hi(i) /\ hi(i) <= run.hi
             /\ i = 1 => lo(i) = from
             /\ i = count => hi(i) = run.hi
             /\ i > 1 => i - 1 # count /\ hi(i - 1) = lo(i)
  <2>1. i \in Int /\ 0 <= i - 1 /\ i - 1 <= i /\ i <= count BY <1>6
  <2>2. (i - 1) * room \in Int /\ i * room \in Int /\ 0 * room <= (i - 1) * room /\ (i - 1) * room <= i * room
    BY <1>3, <2>1, Grows
  <2>3. lo(i) \in Int /\ hi(i) \in Int /\ from <= lo(i) BY <1>2, <1>3, <2>2
  <2>4. (i = 1 => lo(i) = from) /\ (i = count => hi(i) = run.hi) BY <1>3
  <2>5. i > 1 => i - 1 # count /\ hi(i - 1) = lo(i) BY <1>6, <2>1
  <2>6. CASE i = count
    <3>1. hi(i) = run.hi BY <2>6
    <3>2. lo(i) < run.hi BY <1>2, <1>3, <1>4, <2>2, <2>6
    <3> HIDE DEF lo, hi
    <3> QED BY <1>2, <2>3, <2>4, <2>5, <3>1, <3>2
  <2>7. CASE i # count
    <3>1. hi(i) = from + i * room BY <2>7
    <3>2. i <= count - 1 /\ count - 1 \in Int BY <1>6, <2>1, <2>7
    <3>3. i * room <= (count - 1) * room /\ (count - 1) * room \in Int BY <1>3, <2>1, <3>2, Grows
    <3>4. hi(i) <= run.hi BY <1>2, <1>3, <1>4, <2>2, <3>1, <3>3
    <3>5. lo(i) <= hi(i) BY <1>3, <2>2, <3>1
    <3> HIDE DEF lo, hi
    <3> QED BY <2>3, <2>4, <2>5, <3>4, <3>5
  <2> QED BY <2>6, <2>7
<1> HIDE DEF lo, hi
<1>8. ASSUME NEW i \in 1 .. count
      PROVE  /\ frag(i) \in Pieces(nals) /\ frag(i).kind = "fu" /\ (frag(i).s <=> i = 1) /\ (frag(i).e <=> i = count)
             /\ frag(i).hdr = hdr /\ frag(i).parts = <<piece(i)>> /\ frag(i).parts[1] = piece(i)
  <2>1. piece(i) \in Runs /\ piece(i).n = run.n /\ piece(i).lo = lo(i) /\ piece(i).hi = hi(i) BY <1>2, <1>7 DEF Runs
  <2> DEFINE first == i = 1
             last == i = count
             parts == <<piece(i)>>
             f == frag(i)
  <2>2. f = [kind |-> "fu", s |-> first, e |-> last, hdr |-> hdr, parts |-> parts] OBVIOUS
  <2>3. first \in BOOLEAN /\ last \in BOOLEAN OBVIOUS
  <2> HIDE DEF piece
  <2>4. parts \in Seq(Runs) /\ parts[1] = piece(i) BY <2>1
  <2> HIDE DEF first, last, parts, f
  <2>5. f \in Payloads
    <3>1. ASSUME NEW s \in BOOLEAN, NEW l \in BOOLEAN, NEW ps \in Seq(Runs), NEW h \in Runs
          PROVE  [kind |-> "fu", s |-> s, e |-> l, hdr |-> h, parts |-> ps] \in Payloads
      BY DEF Payloads
    <3>2. [kind |-> "fu", s |-> first, e |-> last, hdr |-> hdr, parts |-> parts] \in Payloads
      BY <1>5, <2>3, <2>4, <3>1, Zenon
    <3> QED BY <2>2, <3>2
  <2>6. f.kind = "fu" /\ f.s = first /\ f.e = last /\ f.hdr = hdr /\ f.parts = parts BY <2>2
  <2>7. FragmentOf(nals, f)
    <3>1. hdr \in Runs /\ piece(i) \in Runs /\ hdr.n = run.n /\ hdr.lo = run.lo /\ piece(i).n = run.n
          /\ run.lo < hdr.hi /\ hdr.hi <= piece(i).lo /\ piece(i).lo <= piece(i).hi /\ piece(i).hi <= run.hi
          /\ (first => piece(i).lo = hdr.hi) /\ (last => piece(i).hi = run.hi)
      BY <1>3, <1>5, <1>7, <2>1 DEF first, last
    <3>2. f.parts[1] = piece(i) /\ f.parts = <<piece(i)>> BY <2>4, <2>6 DEF parts
    <3> QED BY <2>6, <3>1, <3>2 DEF FragmentOf
  <2>8. PieceOf(nals, f) BY <2>6, <2>7 DEF PieceOf
  <2> QED BY <2>4, <2>5, <2>6, <2>8 DEF Pieces, f, first, last, parts
<1>9. \A i \in 1 .. count : piece(i).lo = lo(i) /\ piece(i).hi = hi(i) OBVIOUS
<1> HIDE DEF frag, piece
<1>10. frags \in Seq(Pieces(nals)) /\ Len(frags) = count
  <2>1. frags \in [1 .. count -> Pieces(nals)] BY <1>8
  <2> QED BY <1>6, <2>1, SeqDef
<1>11. \A i \in 1 .. count : frags[i] = frag(i) OBVIOUS
<1> HIDE DEF frags
<1>12. ASSUME NEW i \in 1 .. count, Follows(frags[i]) PROVE i > 1 /\ Linked(frags[i - 1], frags[i])
  <2>1. i # 1 BY <1>8, <1>11, <1>12 DEF Follows
  <2>2. i > 1 /\ i - 1 \in 1 .. count BY <1>6, <2>1
  <2>3. ~frag(i - 1).e /\ frag(i - 1).kind = "fu" /\ frag(i - 1).hdr = frag(i).hdr BY <1>7, <1>8, <2>2
  <2>4. frag(i - 1).parts[1].hi = frag(i).parts[1].lo
    <3>1. frag(i - 1).parts[1] = piece(i - 1) /\ frag(i).parts[1] = piece(i) BY <1>8, <2>2
    <3> QED BY <1>7, <1>9, <2>2, <3>1
  <2> QED BY <1>11, <2>2, <2>3, <2>4 DEF Linked
<1> QED BY <1>1, <1>10, <1>12 DEF Chains

-------------------------------------------------------------------------------
(* The NAL units that are to go out, and the parameter sets that wait.       *)

Packing(nals) == [sps : nals \cup {Rtp!NoRun}, pps : nals \cup {Rtp!NoRun}, out : Seq(Bundles(nals))]

\* A NAL unit, or two, to be put into a packet.
LEMMA BundleType ==
    ASSUME NEW nals, NEW r \in nals, NEW q \in nals
    PROVE  <<r>> \in Bundles(nals) /\ <<r, q>> \in Bundles(nals)
BY DEF Bundles

\* flushParamSets sends parameter sets that are not empty.
LEMMA FlushType ==
    ASSUME NEW nals, NEW x \in Packing(nals)
    PROVE  Rtp!FlushParamSets(x) \in Packing(nals)
<1> DEFINE both == Rtp!RunLen(x.sps) > 0 /\ Rtp!RunLen(x.pps) > 0
           fit == Rtp!RunLen(x.sps) + Rtp!RunLen(x.pps) + 5 + HeadLen <= Mtu
           more == IF fit THEN <<<<x.sps, x.pps>>>> ELSE <<<<x.sps>>, <<x.pps>>>>
<1>1. Rtp!RunLen(Rtp!NoRun) = 0 BY DEF Rtp!NoRun, Rtp!RunLen
<1>2. x.sps \in nals \cup {Rtp!NoRun} /\ x.pps \in nals \cup {Rtp!NoRun} /\ x.out \in Seq(Bundles(nals)) BY DEF Packing
<1>3. ASSUME both PROVE more \in Seq(Bundles(nals))
  <2>1. x.sps # Rtp!NoRun /\ x.pps # Rtp!NoRun BY <1>1, <1>3
  <2>2. x.sps \in nals /\ x.pps \in nals BY <1>2, <2>1
  <2>3. <<x.sps, x.pps>> \in Bundles(nals) /\ <<x.sps>> \in Bundles(nals) /\ <<x.pps>> \in Bundles(nals)
    BY <2>2, BundleType
  <2> QED BY <2>3
<1>4. Rtp!FlushParamSets(x) =
        IF ~both THEN x ELSE [x EXCEPT !.sps = Rtp!NoRun, !.pps = Rtp!NoRun, !.out = x.out \o more]
  BY DEF Rtp!FlushParamSets
<1> HIDE DEF both, more
<1>5. ASSUME both PROVE [x EXCEPT !.sps = Rtp!NoRun, !.pps = Rtp!NoRun, !.out = x.out \o more] \in Packing(nals)
  <2>1. x.out \o more \in Seq(Bundles(nals)) BY <1>2, <1>3, <1>5
  <2> QED BY <2>1 DEF Packing
<1> QED BY <1>4, <1>5

\* So does a turn of the loop of Pack.
LEMMA CollectType ==
    ASSUME NEW nals, NEW x \in Packing(nals), NEW run \in nals, NEW t
    PROVE  Rtp!CollectTurn(x, t, run) \in Packing(nals)
<1>1. ASSUME NEW y \in Packing(nals) PROVE [y EXCEPT !.out = Append(@, <<run>>)] \in Packing(nals)
  <2>0. y.out \in Seq(Bundles(nals)) BY DEF Packing
  <2>1. Append(y.out, <<run>>) \in Seq(Bundles(nals))
    <3>1. <<run>> \in Bundles(nals) BY BundleType
    <3>2. ASSUME NEW T, NEW s \in Seq(T), NEW b \in T PROVE Append(s, b) \in Seq(T) OBVIOUS
    <3> QED BY <2>0, <3>1, <3>2
  <2> QED BY <2>1 DEF Packing
<1>2. [x EXCEPT !.sps = run] \in Packing(nals) /\ [x EXCEPT !.pps = run] \in Packing(nals) BY DEF Packing
<1>3. Rtp!FlushParamSets(x) \in Packing(nals) BY FlushType
<1> QED BY <1>1, <1>2, <1>3 DEF Rtp!CollectTurn

\* The turns over the NAL units of a frame.
LEMMA CollectedType ==
    ASSUME NEW nals, NEW au \in RtpUnits, NEW n \in Nat, NEW base \in Packing(nals),
           \A k \in DOMAIN au.nals : Rtp!NalRun(au, n, k) \in nals
    PROVE  Rtp!FoldLeft(LAMBDA a, k : Rtp!CollectTurn(a, au.nals[k].t, Rtp!NalRun(au, n, k)),
                        base, [k \in DOMAIN au.nals |-> k]) \in Packing(nals)
<1> DEFINE P == Packing(nals)
           m == Len(au.nals)
           seq == [k \in DOMAIN au.nals |-> k]
           places == DOMAIN seq
           turn(a, k) == Rtp!CollectTurn(a, au.nals[k].t, Rtp!NalRun(au, n, k))
           iter == CHOOSE f : f = [s \in SUBSET places |->
                      IF s = {} THEN base ELSE turn(f[s \ {Rtp!Max(s)}], seq[Rtp!Max(s)])]
           G == [p \in (1 .. m) \X P |-> turn(p[2], p[1])]
<1>1. m \in Nat /\ places = 1 .. m /\ DOMAIN au.nals = 1 .. m /\ \A k \in 1 .. m : seq[k] = k
  <2>1. au.nals \in Seq([t : STRING, len : Nat, first : BOOLEAN]) BY PacketsAssumption DEF Rtp!RtpAssumption
  <2> QED BY <2>1, SeqHas
<1>2. Rtp!FoldLeft(LAMBDA a, k : Rtp!CollectTurn(a, au.nals[k].t, Rtp!NalRun(au, n, k)), base, seq) = iter[places]
  BY DEF Rtp!FoldLeft, Rtp!MapThenFoldSet
<1>3. \A k \in 1 .. m, a \in P : turn(a, k) \in P
  <2>1. ASSUME NEW k \in 1 .. m, NEW a \in P PROVE turn(a, k) \in P
    <3>1. Rtp!NalRun(au, n, k) \in nals BY <1>1
    <3> QED BY <3>1, CollectType
  <2> QED BY <2>1
<1>0. base \in P OBVIOUS
<1> HIDE DEF turn, m, seq, P
<1>4. \A k \in 1 .. m, a \in P : <<k, a>> \in (1 .. m) \X P /\ G[<<k, a>>] = turn(a, k) OBVIOUS
<1> HIDE DEF G, places
<1>5. \A k \in 1 .. m, a \in P : G[<<k, a>>] \in P BY <1>3, <1>4
<1>6. PICK g \in [SUBSET (1 .. m) -> P] : Folds(g, m, base, G) BY <1>0, <1>1, <1>5, FoldExists
<1>7. g = [s \in SUBSET places |-> IF s = {} THEN base ELSE turn(g[s \ {Rtp!Max(s)}], seq[Rtp!Max(s)])]
  <2>1. ASSUME NEW s \in SUBSET (1 .. m), s # {}
        PROVE  G[<<Rtp!Max(s), g[s \ {Rtp!Max(s)}]>>] = turn(g[s \ {Rtp!Max(s)}], seq[Rtp!Max(s)])
    <3>1. Rtp!Max(s) \in 1 .. m BY <1>1, <2>1, MaxOfPlaces
    <3>2. g[s \ {Rtp!Max(s)}] \in P OBVIOUS
    <3>3. seq[Rtp!Max(s)] = Rtp!Max(s) BY <1>1, <3>1
    <3>4. G[<<Rtp!Max(s), g[s \ {Rtp!Max(s)}]>>] = turn(g[s \ {Rtp!Max(s)}], Rtp!Max(s)) BY <1>4, <3>1, <3>2
    <3> QED BY <3>3, <3>4
  <2> QED BY <1>1, <1>6, <2>1 DEF Folds
<1>8. iter = [s \in SUBSET places |-> IF s = {} THEN base ELSE turn(iter[s \ {Rtp!Max(s)}], seq[Rtp!Max(s)])]
  BY <1>7, Zenon
<1> HIDE DEF iter
<1>9. iter[{}] \in P BY <1>0, <1>8
<1>10. ASSUME NEW s \in SUBSET (1 .. m), s # {}, iter[s \ {Rtp!Max(s)}] \in P PROVE iter[s] \in P
  <2>1. Rtp!Max(s) \in 1 .. m BY <1>1, <1>10, MaxOfPlaces
  <2>2. iter[s] = turn(iter[s \ {Rtp!Max(s)}], seq[Rtp!Max(s)]) BY <1>1, <1>8, <1>10
  <2>3. seq[Rtp!Max(s)] = Rtp!Max(s) BY <1>1, <2>1
  <2> QED BY <1>3, <1>10, <2>1, <2>2, <2>3
<1>11. iter[1 .. m] \in P BY <1>1, <1>9, <1>10, FoldTyped
<1> QED BY <1>1, <1>2, <1>11 DEF seq, P

\* Parameter sets that wait, and packets.
PackedOk(x) == x.sps \in Runs /\ x.pps \in Runs /\ IsSeq(x.pkts)
PackedIn(nals, x) == x.sps \in nals \cup {Rtp!NoRun} /\ x.pps \in nals \cup {Rtp!NoRun} /\ x.pkts \in Chains(nals)

\* Packets with the parameter sets that wait are what Pack makes.
LEMMA PackedIs ==
    ASSUME NEW x, NEW T, NEW pkts \in Seq(T), x.sps \in Runs, x.pps \in Runs
    PROVE  PackedOk(Rtp!Packed(x, pkts))
<1>1. IsSeq(pkts) BY SeqRanges
<1> QED BY <1>1 DEF PackedOk, Rtp!Packed

\* What is packed of NAL units is what Pack makes.
LEMMA PackedInIs ==
    ASSUME NEW nals, nals \subseteq Runs, NEW x, PackedIn(nals, x)
    PROVE  PackedOk(x)
<1>1. Rtp!NoRun \in Runs BY DEF Rtp!NoRun, Runs
<1>2. x.pkts \in Seq(Pieces(nals)) BY DEF PackedIn, Chains
<1>3. IsSeq(x.pkts) BY <1>2, SeqRanges
<1> QED BY <1>1, <1>3 DEF PackedIn, PackedOk

\* The packets of one NAL unit.
LEMMA FuType ==
    ASSUME NEW nals, nals \subseteq Runs, NEW run \in nals
    PROVE  /\ Rtp!PackSingleNalu(run) \in Chains(nals)
           /\ ~Rtp!FitsAlone(run) => Rtp!PackFuA(run) \in Chains(nals) /\ Rtp!PackFu(run) \in Chains(nals)
<1>1. 1 \in 1 .. 2 /\ 2 \in 1 .. 2 OBVIOUS
<1>2. <<run>> \in Bundles(nals) BY BundleType
<1>3. Rtp!PackSingleNalu(run) \in Chains(nals) BY <1>2, WholeChain DEF Rtp!PackSingleNalu
<1>4. ~Rtp!FitsAlone(run) => Rtp!Fragments(run, 1) \in Chains(nals) /\ Rtp!Fragments(run, 2) \in Chains(nals)
  BY <1>1, FragmentsChain
<1> QED BY <1>3, <1>4 DEF Rtp!PackFuA, Rtp!PackFu

\* What is not empty has a first place.
LEMMA OneOrMore == ASSUME NEW l \in Nat, l # 0 PROVE (l > 1 \/ l = 1) /\ 1 \in 1 .. l
OBVIOUS

\* Sequences of the same places.
LEMMA SeqMap ==
    ASSUME NEW T, NEW S, NEW s \in Seq(S), NEW t, DOMAIN t = DOMAIN s, t = [i \in DOMAIN s |-> t[i]],
           \A i \in 1 .. Len(s) : t[i] \in T
    PROVE  t \in Seq(T)
<1>1. Len(s) \in Nat /\ DOMAIN s = 1 .. Len(s) BY SeqHas
<1>2. t \in [1 .. Len(s) -> T] BY <1>1
<1> QED BY <1>1, <1>2, SeqDef

\* What the Pack methods of H.264, H.265, MPEG-TS and of audio make: the first,
LEMMA PackH264Type ==
    ASSUME NEW nals, nals \subseteq Runs, mux.sps \in nals \cup {Rtp!NoRun}, mux.pps \in nals \cup {Rtp!NoRun},
           NEW au \in RtpUnits, NEW n \in Nat, \A k \in DOMAIN au.nals : Rtp!NalRun(au, n, k) \in nals
    PROVE  PackedIn(nals, Rtp!PackH264(au, n))
<1> DEFINE base == [sps |-> mux.sps, pps |-> mux.pps, out |-> <<>>]
           all == Rtp!FoldLeft(LAMBDA a, k : Rtp!CollectTurn(a, au.nals[k].t, Rtp!NalRun(au, n, k)),
                               base, [k \in DOMAIN au.nals |-> k])
           x == IF mux.stap THEN Rtp!FlushParamSets(all) ELSE all
           packets(runs) == CASE Len(runs) > 1 -> Rtp!PackStapA(runs)
                              [] Len(runs) = 1 /\ Rtp!FitsAlone(runs[1]) -> Rtp!PackSingleNalu(runs[1])
                              [] OTHER -> Rtp!PackFuA(runs[1])
           pieces == [i \in DOMAIN x.out |-> packets(x.out[i])]
<1>1. base \in Packing(nals) BY DEF Packing
<1>2. all \in Packing(nals) BY <1>1, CollectedType
<1> HIDE DEF all
<1>3. x \in Packing(nals) BY <1>2, FlushType
<1>4. Rtp!PackH264(au, n) = Rtp!Packed(x, Rtp!FlattenSeq(pieces)) BY DEF Rtp!PackH264, all
<1> HIDE DEF x
<1>5. x.sps \in nals \cup {Rtp!NoRun} /\ x.pps \in nals \cup {Rtp!NoRun} /\ x.out \in Seq(Bundles(nals)) BY <1>3 DEF Packing
<1>6. ASSUME NEW runs \in Seq(nals), runs # <<>> PROVE packets(runs) \in Chains(nals)
  <2>1. Len(runs) \in Nat /\ Len(runs) # 0 /\ \A i \in 1 .. Len(runs) : runs[i] \in nals BY <1>6, SeqHas
  <2>2. runs[1] \in nals BY <2>1, OneOrMore, Zenon
  <2>3. Rtp!PackStapA(runs) \in Chains(nals) BY <1>6, WholeChain DEF Rtp!PackStapA, Bundles
  <2>4. Len(runs) > 1 \/ Len(runs) = 1 BY <2>1, OneOrMore, Zenon
  <2> QED BY <2>2, <2>3, <2>4, FuType
<1> HIDE DEF packets
<1>7. \A i \in 1 .. Len(x.out) : x.out[i] \in Seq(nals) /\ x.out[i] # <<>> BY <1>5, SeqHas DEF Bundles
<1>8. DOMAIN x.out = 1 .. Len(x.out) BY <1>5, SeqHas
<1>9. \A i \in 1 .. Len(x.out) : pieces[i] \in Chains(nals) BY <1>6, <1>7, <1>8
<1>10. pieces \in Seq(Chains(nals))
  <2>1. DOMAIN pieces = DOMAIN x.out /\ pieces = [i \in DOMAIN x.out |-> pieces[i]] OBVIOUS
  <2> HIDE DEF pieces
  <2> QED BY <1>5, <1>9, <2>1, SeqMap
<1> HIDE DEF pieces
<1>11. Rtp!FlattenSeq(pieces) \in Chains(nals) BY <1>10, ChainsJoin, FlattenIn
<1> QED BY <1>4, <1>5, <1>11 DEF PackedIn, Rtp!Packed

\* the second,
LEMMA PackH265Type ==
    ASSUME NEW nals, nals \subseteq Runs, mux.sps \in nals \cup {Rtp!NoRun}, mux.pps \in nals \cup {Rtp!NoRun},
           NEW au \in RtpUnits, NEW n \in Nat, \A k \in DOMAIN au.nals : Rtp!NalRun(au, n, k) \in nals
    PROVE  PackedIn(nals, Rtp!PackH265(au, n))
<1> DEFINE packets(run) == IF Rtp!FitsAlone(run) THEN Rtp!PackSingleNalu(run) ELSE Rtp!PackFu(run)
           pieces == [k \in DOMAIN au.nals |-> packets(Rtp!NalRun(au, n, k))]
<1>1. Rtp!PackH265(au, n) = Rtp!Packed(mux, Rtp!FlattenSeq(pieces)) BY DEF Rtp!PackH265
<1>2. ASSUME NEW run \in nals PROVE packets(run) \in Chains(nals) BY FuType
<1> HIDE DEF packets
<1> DEFINE S == [t : STRING, len : Nat, first : BOOLEAN]
<1>3. au.nals \in Seq(S) BY PacketsAssumption DEF Rtp!RtpAssumption
<1> HIDE DEF S
<1>4. DOMAIN au.nals = 1 .. Len(au.nals) BY <1>3, SeqHas
<1>5. ASSUME NEW k \in 1 .. Len(au.nals) PROVE pieces[k] \in Chains(nals)
  <2>1. Rtp!NalRun(au, n, k) \in nals BY <1>4
  <2> QED BY <1>2, <1>4, <2>1
<1>6. pieces \in Seq(Chains(nals))
  <2>1. DOMAIN pieces = DOMAIN au.nals /\ pieces = [k \in DOMAIN au.nals |-> pieces[k]] OBVIOUS
  <2> HIDE DEF pieces
  <2> QED BY <1>3, <1>5, <2>1, SeqMap
<1> HIDE DEF pieces
<1>7. Rtp!FlattenSeq(pieces) \in Chains(nals) BY <1>6, ChainsJoin, FlattenIn
<1> QED BY <1>1, <1>7 DEF PackedIn, Rtp!Packed

\* the third,
LEMMA PackTsType ==
    ASSUME NEW au \in RtpUnits, NEW n \in Nat, mux.sps \in Runs, mux.pps \in Runs
    PROVE  PackedOk(Rtp!PackTs(au, n))
<1> DEFINE room == Mtu - HeadLen
           size == Rtp!SizeOfUnit(au)
           count == (size + room - 1) \div room
           piece(i) == Rtp!Packet("ts", <<[n |-> n, lo |-> (i - 1) * room, hi |-> IF i = count THEN size ELSE i * room]>>)
           pieces == [i \in 1 .. count |-> piece(i)]
           T == {piece(i) : i \in 1 .. count}
<1>1. Rtp!PackTs(au, n) = Rtp!Packed(mux, pieces) BY DEF Rtp!PackTs
<1>2. room \in Nat \ {0} /\ size \in Nat BY RtpConstants, SizeType
<1>3. count \in Nat
  <2> DEFINE z == size + room - 1
  <2>1. z \in Nat BY <1>2
  <2> HIDE DEF z, room
  <2>2. z \div room \in Int /\ z % room \in 0 .. room - 1 /\ z = (z \div room) * room + (z % room) BY <1>2, <2>1, TurnOf
  <2> DEFINE q == z \div room
             m == z % room
  <2>3. q \in Int /\ m \in 0 .. room - 1 /\ z = q * room + m BY <2>2
  <2> HIDE DEF q, m
  <2>4. ~(q < 0)
    <3>1. SUFFICES ASSUME q < 0 PROVE FALSE OBVIOUS
    <3>2. (-1 - q) \in Nat BY <2>3, <3>1
    <3>3. (-1 - q) * room >= 0 BY <1>2, <3>2
    <3>4. q * room <= -room BY <1>2, <2>3, <3>3
    <3> QED BY <1>2, <2>1, <2>3, <3>4
  <2> QED BY <2>3, <2>4 DEF q, z
<1> HIDE DEF piece, count
<1>4. pieces \in [1 .. count -> T] OBVIOUS
<1>5. pieces \in Seq(T) BY <1>3, <1>4, SeqDef
<1> HIDE DEF pieces, T
<1> QED BY <1>1, <1>5, PackedIs

\* and the two others: the frame, if it is not refused.
LEMMA PackAudioType ==
    ASSUME NEW au \in RtpUnits, NEW n \in Nat, mux.sps \in Runs, mux.pps \in Runs
    PROVE  \A x \in {Rtp!PackAac(au, n), Rtp!PackG711(au, n)} :
              /\ PackedOk(x)
              /\ x.pkts # <<>> => x.pkts = <<Rtp!Packet(au.cid, <<[n |-> n, lo |-> 0, hi |-> Rtp!SizeOfUnit(au)]>>)>>
<1> DEFINE p == Rtp!Packet(au.cid, <<[n |-> n, lo |-> 0, hi |-> Rtp!SizeOfUnit(au)]>>)
<1>1. Rtp!WholePacket(au, n) = Rtp!Packed(mux, <<p>>) BY DEF Rtp!WholePacket
<1> HIDE DEF p
<1>2. <<p>> \in Seq({p}) /\ <<>> \in Seq({p}) OBVIOUS
<1>3. PackedOk(Rtp!Packed(mux, <<>>)) /\ PackedOk(Rtp!Packed(mux, <<p>>)) BY <1>2, PackedIs
<1>4. Rtp!Packed(mux, <<>>).pkts = <<>> /\ Rtp!Packed(mux, <<p>>).pkts = <<p>> BY DEF Rtp!Packed
<1>5. Rtp!PackAac(au, n) \in {Rtp!Packed(mux, <<>>), Rtp!Packed(mux, <<p>>)}
      /\ Rtp!PackG711(au, n) \in {Rtp!Packed(mux, <<>>), Rtp!Packed(mux, <<p>>)}
  BY <1>1 DEF Rtp!PackAac, Rtp!PackG711
<1> QED BY <1>3, <1>4, <1>5 DEF p

-------------------------------------------------------------------------------
(* The parts of the invariant about the receiver, in what they depend on.    *)

DemTyped(d) ==
    /\ d = [timestamp |-> d.timestamp, lastSequence |-> d.lastSequence, lost |-> d.lost,
            buf |-> d.buf, ctx |-> d.ctx, reports |-> d.reports]
    /\ d.ctx \in Counts /\ IsSeq(d.reports)

ReportsAre(first, log, reports) ==
    \A i \in 1 .. Len(reports) :
       /\ reports[i].at \in Rtp!Base(log) .. Len(log)
       /\ i > 1 => reports[i - 1].at <= reports[i].at
       /\ Rtp!Steady(log) => HonestAt(first, log, reports, i)

\* CountsOk, here and after a step.
LEMMA CountsOkIs ==
    /\ CountsOk <=> DemTyped(dem) /\ Counted(dem.ctx, wire.log, dem.reports, mux.first)
    /\ CountsOk' <=> DemTyped(dem') /\ Counted(dem'.ctx, wire'.log, dem'.reports, mux'.first)
<1>1. CountsOk <=> DemTyped(dem) /\ Counted(dem.ctx, wire.log, dem.reports, mux.first)
  BY DEF CountsOk, DemTyped, Counted, Place, NumberOf
<1>2. CountsOk' <=> DemTyped(dem') /\ Counted(dem'.ctx, wire'.log, dem'.reports, mux'.first)
  BY DEF CountsOk, DemTyped, Counted, Place, NumberOf
<1> QED BY <1>1, <1>2

\* ReportsOk, here and after a step.
LEMMA ReportsOkIs ==
    /\ ReportsOk <=> ReportsAre(mux.first, wire.log, dem.reports)
    /\ ReportsOk' <=> ReportsAre(mux'.first, wire'.log, dem'.reports)
<1>1. ReportsOk <=> ReportsAre(mux.first, wire.log, dem.reports)
  BY Zenon DEF ReportsOk, ReportsAre, HonestAt, Rtp!Honest, Place
<1>2. ReportsOk' <=> ReportsAre(mux'.first, wire'.log, dem'.reports)
  BY Zenon DEF ReportsOk, ReportsAre, HonestAt, Rtp!Honest, Place
<1> QED BY <1>1, <1>2

\* Nothing came, and no report was made.
LEMMA ReceiverQuiet ==
    ASSUME RtpInvariant, dem' = dem, wire'.log = wire.log, mux'.first = mux.first
    PROVE  CountsOk' /\ ReportsOk'
<1>1. CountsOk /\ ReportsOk BY DEF RtpInvariant
<1> QED BY <1>1, CountsOkIs, ReportsOkIs

\* A packet came.
LEMMA ReportsReceive ==
    ASSUME RtpInvariant, Rtp!Reading, Rtp!Receive(wire.rd),
           wire'.log = Append(wire.log, wire.pkts[wire.rd].id)
    PROVE  ReportsOk'
<1> DEFINE id == wire.pkts[wire.rd].id
           log == wire.log
           n == Len(log)
           t == Append(log, id)
           base == Rtp!Base(log)
           reps == dem.reports
           first == mux.first
<1>1. id \in Nat \ {0} /\ log \in Logs /\ n \in Nat BY NextIsNear
<1>2. CountsOk /\ ReportsAre(first, log, reps) BY ReportsOkIs DEF RtpInvariant
<1>3. dem'.reports = reps /\ mux'.first = first BY <1>2, ReceiveCounts
<1>4. IsSeq(reps) /\ (base = 0 => reps = <<>>) BY <1>2 DEF CountsOk
<1>5. wire'.log = t OBVIOUS
<1>6. SUFFICES ReportsAre(first, t, reps) BY <1>3, <1>5, ReportsOkIs
<1> HIDE DEF id, log, n, t, base, reps, first
<1>7. Len(t) = n + 1 /\ t \in Logs BY <1>1, LogGrows DEF t, n
<1>8. SUFFICES ASSUME NEW i \in 1 .. Len(reps)
      PROVE  /\ reps[i].at \in Rtp!Base(t) .. Len(t)
             /\ i > 1 => reps[i - 1].at <= reps[i].at
             /\ Rtp!Steady(t) => HonestAt(first, t, reps, i)
  BY DEF ReportsAre
<1>9. base # 0 /\ Len(reps) \in Nat BY <1>4, SeqGrows
<1>10. Rtp!Base(t) = base BY <1>1, <1>9, BaseGrows DEF t, base
<1>11. base \in 1 .. n BY <1>1, <1>9, BaseIs DEF base, n
<1>12. reps[i].at \in base .. n /\ (i > 1 => reps[i - 1].at <= reps[i].at)
  BY <1>2 DEF ReportsAre, base, n
<1>13. reps[i].at \in base .. Len(t) BY <1>1, <1>7, <1>11, <1>12
<1>14. ASSUME Rtp!Steady(t) PROVE HonestAt(first, t, reps, i)
  <2>1. Rtp!Steady(log) BY <1>1, <1>9, <1>14, SteadyGrows DEF t, base
  <2>2. HonestAt(first, log, reps, i) BY <1>2, <2>1 DEF ReportsAre
  <2>3. i > 1 => reps[i - 1].at \in base .. n
    <3>1. i > 1 => i - 1 \in 1 .. Len(reps) BY <1>9
    <3> QED BY <1>2, <3>1 DEF ReportsAre, base, n
  <2>4. i \in Nat \ {0} BY <1>9
  <2>5. \A k \in base .. n : Rtp!Expected(t, k) = Rtp!Expected(log, k) /\ Rtp!Missing(t, k) = Rtp!Missing(log, k)
    BY <1>1, <1>9, ExpectedGrows DEF t, base, n
  <2>6. t[base] = log[base] BY <1>1, <1>11, LogGrows DEF t, n
  <2>7. i = 1 \/ i > 1 BY <2>4
  <2> DEFINE pe(l) == IF i = 1 THEN 0 ELSE Rtp!Expected(l, reps[i - 1].at)
             pm(l) == IF i = 1 THEN 0 ELSE Rtp!Missing(l, reps[i - 1].at)
             h(l) == LET r == reps[i] IN
                     /\ r.highest = Place(first, l[Rtp!Base(l)]) + Rtp!Expected(l, r.at) - 1
                     /\ r.lost = (IF Rtp!Missing(l, r.at) < 0 THEN 0 ELSE Rtp!Missing(l, r.at))
                     /\ Rtp!Missing(l, r.at) - pm(l) <= 0 => r.fraction = 0
                     /\ Rtp!Missing(l, r.at) - pm(l) > 0 =>
                          /\ r.fraction * (Rtp!Expected(l, r.at) - pe(l)) <= 256 * (Rtp!Missing(l, r.at) - pm(l))
                          /\ 256 * (Rtp!Missing(l, r.at) - pm(l)) < (r.fraction + 1) * (Rtp!Expected(l, r.at) - pe(l))
  <2>8. pe(t) = pe(log) /\ pm(t) = pm(log) BY <2>3, <2>5, <2>7
  <2>9. HonestAt(first, log, reps, i) <=> h(log) BY Zenon DEF HonestAt
  <2>10. HonestAt(first, t, reps, i) <=> h(t) BY Zenon DEF HonestAt
  <2>11. Rtp!Expected(t, reps[i].at) = Rtp!Expected(log, reps[i].at)
         /\ Rtp!Missing(t, reps[i].at) = Rtp!Missing(log, reps[i].at) BY <1>12, <2>5
  <2>12. Place(first, t[Rtp!Base(t)]) = Place(first, log[Rtp!Base(log)]) BY <1>10, <2>6 DEF base
  <2>13. h(log) => h(t)
    <3> HIDE DEF pe, pm
    <3> QED BY <2>8, <2>11, <2>12
  <2> QED BY <2>2, <2>9, <2>10, <2>13
<1> QED BY <1>10, <1>12, <1>13, <1>14

\* GenerateRR
LEMMA ReportStep ==
    ASSUME MinSequential = 2, RtpInvariant, Rtp!GenerateRR
    PROVE  CountsOk' /\ ReportsOk'
<1> DEFINE ctx == dem.ctx
           log == wire.log
           reps == dem.reports
           first == mux.first
           c == Rtp!Rtcp!Report(ctx).ctx
           r == ReportOf(ctx, log)
           rs == Append(reps, r)
           base == Rtp!Base(log)
           n == Len(log)
           k == Len(reps)
<1>1. /\ dem' = [dem EXCEPT !.ctx = c, !.reports = rs] /\ wire' = wire /\ mux' = mux /\ ctx.probation = 0
  BY DEF Rtp!GenerateRR, ReportOf
<1>2. /\ DemTyped(dem) /\ Counted(ctx, log, reps, first) /\ ReportsAre(first, log, reps)
      /\ log \in Logs /\ first \in Numbers
  BY CountsOkIs, ReportsOkIs DEF RtpInvariant, WireTyped, PackerOk, Logs
<1>3. ctx \in Counts /\ IsSeq(reps) BY <1>2 DEF DemTyped
<1>4. /\ k \in Nat /\ (reps = <<>> <=> k = 0) /\ IsSeq(rs) /\ Len(rs) = k + 1 /\ rs[k + 1] = r
      /\ \A i \in 1 .. k : rs[i] = reps[i]
  BY <1>3, SeqGrows
<1>5. reps # <<>> => reps[k].at \in base .. n
  <2>1. reps # <<>> => k \in 1 .. k BY <1>4
  <2> QED BY <1>2, <2>1 DEF ReportsAre
<1>6. /\ base # 0 /\ c \in Counts /\ Counted(c, log, rs, first)
      /\ Rtp!Steady(log) => HonestAt(first, log, rs, k + 1)
  BY <1>1, <1>2, <1>3, <1>5, ReportCounts
<1>7. r.at = n /\ n \in Nat /\ base \in 0 .. n BY <1>2, BaseIs DEF ReportOf, Logs
<1> HIDE DEF c, r, rs, base, n, k, ctx
<1>8. dem'.ctx = c /\ dem'.reports = rs /\ DemTyped(dem')
  <2>1. dem' = [timestamp |-> dem.timestamp, lastSequence |-> dem.lastSequence, lost |-> dem.lost,
                buf |-> dem.buf, ctx |-> c, reports |-> rs]
    BY <1>1, <1>2 DEF DemTyped
  <2> QED BY <1>4, <1>6, <2>1 DEF DemTyped
<1>9. CountsOk' BY <1>1, <1>6, <1>8, CountsOkIs
<1>10. ASSUME NEW i \in 1 .. k + 1
       PROVE  /\ rs[i].at \in base .. n
              /\ i > 1 => rs[i - 1].at <= rs[i].at
              /\ Rtp!Steady(log) => HonestAt(first, log, rs, i)
  <2>1. CASE i \in 1 .. k
    <3>1. rs[i] = reps[i] /\ (i > 1 => i - 1 \in 1 .. k /\ rs[i - 1] = reps[i - 1]) BY <1>4, <2>1
    <3>2. /\ reps[i].at \in base .. n
          /\ i > 1 => reps[i - 1].at <= reps[i].at
          /\ Rtp!Steady(log) => HonestAt(first, log, reps, i)
      BY <1>2, <2>1 DEF ReportsAre, base, n, k
    <3>3. HonestAt(first, log, reps, i) => HonestAt(first, log, rs, i)
      <4>1. CASE i = 1
        <5>1. rs[1] = reps[1] BY <3>1, <4>1
        <5> QED BY <4>1, <5>1 DEF HonestAt
      <4>2. CASE i > 1
        <5>1. rs[i - 1] = reps[i - 1] BY <3>1, <4>2
        <5> QED BY <3>1, <5>1 DEF HonestAt
      <4> QED BY <1>4, <2>1, <4>1, <4>2
    <3> QED BY <3>1, <3>2, <3>3
  <2>2. CASE i = k + 1
    <3>1. rs[i].at = n /\ n \in base .. n BY <1>4, <1>7, <2>2
    <3>2. i > 1 => rs[i - 1].at <= rs[i].at
      <4>1. SUFFICES ASSUME i > 1 PROVE rs[i - 1].at <= n BY <3>1
      <4>2. i - 1 = k /\ k \in 1 .. k /\ reps # <<>> BY <1>4, <2>2, <4>1
      <4>3. rs[i - 1] = reps[k] BY <1>4, <4>2
      <4> QED BY <1>5, <1>7, <4>2, <4>3
    <3>3. Rtp!Steady(log) => HonestAt(first, log, rs, i) BY <1>6, <2>2
    <3> QED BY <3>1, <3>2, <3>3
  <2> QED BY <1>4, <2>1, <2>2
<1>11. ReportsAre(first, log, rs) BY <1>4, <1>10 DEF ReportsAre, base, n
<1>12. ReportsOk' BY <1>1, <1>8, <1>11, ReportsOkIs
<1> QED BY <1>9, <1>12

-------------------------------------------------------------------------------
(* The steps.                                                                *)

\* The faults are a number, and of them so many packets were moved.
LEMMA FaultsType ==
    ASSUME WireTyped
    PROVE  Rtp!Faults \in Nat /\ Cardinality(wire.lost) \in Nat
           /\ Rtp!Faults = Cardinality(wire.lost) + wire.twice + wire.moved
           /\ wire.moved <= Rtp!Faults /\ wire.moved \in Nat /\ wire.twice \in Nat
<1>1. Cardinality(wire.lost) \in Nat /\ wire.twice \in Nat /\ wire.moved \in Nat
  BY FS_CardinalityType DEF WireTyped
<1>2. Rtp!Faults = Cardinality(wire.lost) + wire.twice + wire.moved BY CardinalityIs DEF Rtp!Faults
<1> QED BY <1>1, <1>2

\* An RTP stream begins with the invariant.
LEMMA RtpInitStep ==
    ASSUME MinSequential = 2, Rtp!Init
    PROVE  RtpInvariant
<1>1. PICK cid \in {au.cid : au \in RtpUnits}, stap \in BOOLEAN, first \in FirstSeqs, expected \in FirstSeqs :
        /\ mux = [cid |-> cid, stap |-> stap, sequence |-> first, sps |-> Rtp!NoRun, pps |-> Rtp!NoRun,
                  ts |-> 0, first |-> first, closed |-> FALSE]
        /\ wire = [pkts |-> <<>>, rd |-> 1, lost |-> {}, twice |-> 0, moved |-> 0, log |-> <<>>]
        /\ dem = [timestamp |-> -1, lastSequence |-> 0, lost |-> FALSE, buf |-> <<>>,
                  ctx |-> Rtp!Rtcp!NewContext(expected), reports |-> <<>>]
        /\ given = <<>>
  BY DEF Rtp!Init
<1>2. first \in Numbers /\ expected \in Numbers /\ SeqRange \in Nat \ {0} /\ MaxFaults \in Nat /\ 0 \in Numbers
  BY RtpConstants DEF Numbers
<1>3. Rtp!NoRun \in Runs BY DEF Rtp!NoRun, Runs
<1>4. first % SeqRange = first
  <2>1. first \in 0 .. SeqRange - 1 BY <1>2 DEF Numbers
  <2>2. (0 * SeqRange + first) % SeqRange = first BY <1>2, <2>1, InTurn
  <2> QED BY <1>2, <2>1, <2>2
<1>5. PackerOk
  <2>1. mux \in [cid : {au.cid : au \in RtpUnits}, stap : BOOLEAN, sequence : Numbers, sps : Runs, pps : Runs,
                 ts : Int, first : Numbers, closed : BOOLEAN]
    BY <1>1, <1>2, <1>3
  <2>2. IsSeq(given) BY <1>1 DEF IsSeq
  <2>3. NumberOf(Len(wire.pkts) + 1) = first
    <3>1. wire.pkts = <<>> /\ mux.first = first BY <1>1
    <3>2. Len(wire.pkts) = 0 BY <3>1
    <3>3. mux.first + (Len(wire.pkts) + 1) - 1 = first BY <1>2, <3>1, <3>2 DEF Numbers
    <3> QED BY <1>4, <3>3 DEF NumberOf
  <2>4. mux.sequence = first BY <1>1
  <2>5. wire.lost = {} BY <1>1
  <2> QED BY <2>1, <2>2, <2>3, <2>4, <2>5 DEF PackerOk
<1>6. /\ wire.pkts = <<>> /\ wire.rd = 1 /\ wire.lost = {} /\ wire.twice = 0 /\ wire.moved = 0 /\ wire.log = <<>>
      /\ Len(wire.pkts) = 0 /\ Len(wire.log) = 0 /\ wire.log \in Logs
  BY <1>1 DEF Logs
<1>7. WireTyped
  <2>1. IsSeq(<<>>) BY DEF IsSeq
  <2>2. IsFiniteSet({}) BY FS_EmptySet
  <2> QED BY <1>1, <1>6, <2>1, <2>2 DEF WireTyped, Logs
<1>8. PacketsOk
  <2>1. Rtp!Faults = 0
    <3>1. Cardinality({}) = 0 BY FS_EmptySet
    <3> QED BY <1>6, <1>7, <3>1, FaultsType
  <2> QED BY <1>2, <1>6, <2>1 DEF PacketsOk
<1>9. LogOk BY <1>6 DEF LogOk
<1>10. Rtp!Base(wire.log) = 0 BY <1>6, BaseIs
<1>11. Rtp!Rtcp!NewContext(expected) \in Counts
  <2>1. (expected - 1 + SeqRange) % SeqRange \in Numbers
    <3>1. expected - 1 + SeqRange \in Int BY <1>2 DEF Numbers
    <3> QED BY <1>2, <3>1, TurnOf DEF Numbers
  <2> HIDE DEF Numbers
  <2>2. MinSequential \in 0 .. MinSequential BY RtpConstants
  <2> QED BY <1>2, <2>1, <2>2 DEF Rtp!Rtcp!NewContext, Counts
<1>12. dem.reports = <<>> /\ dem.ctx = Rtp!Rtcp!NewContext(expected) /\ Len(dem.reports) = 0 BY <1>1
<1>13. CountsOk
  <2>1. IsSeq(<<>>) BY DEF IsSeq
  <2>2. dem.ctx.probation = 2 BY <1>12 DEF Rtp!Rtcp!NewContext
  <2>3. Counted(dem.ctx, wire.log, dem.reports, mux.first) BY <1>6, <1>10, <1>12, <2>2 DEF Counted
  <2>4. DemTyped(dem) BY <1>1, <1>11, <1>12, <2>1 DEF DemTyped
  <2> QED BY <2>3, <2>4, CountsOkIs
<1>14. ReportsOk BY <1>12 DEF ReportsOk
<1> QED BY <1>5, <1>7, <1>8, <1>9, <1>13, <1>14 DEF RtpInvariant

\* The caller of the packer is done.
LEMMA CloseStep ==
    ASSUME RtpInvariant, Rtp!Close
    PROVE  RtpInvariant'
<1>1. mux' = [mux EXCEPT !.closed = TRUE] /\ wire' = wire /\ dem' = dem /\ given' = given /\ ~mux.closed
  BY DEF Rtp!Close
<1>2. PackerOk /\ WireTyped /\ PacketsOk /\ LogOk BY DEF RtpInvariant
<1>3. mux' \in [cid : {au.cid : au \in RtpUnits}, stap : BOOLEAN, sequence : Numbers, sps : Runs, pps : Runs,
                ts : Int, first : Numbers, closed : BOOLEAN] /\ mux'.first = mux.first /\ mux'.closed = TRUE
  BY <1>1, <1>2 DEF PackerOk
<1>4. PackerOk' BY <1>1, <1>2, <1>3 DEF PackerOk
<1>5. WireTyped' BY <1>1, <1>2 DEF WireTyped
<1>6. PacketsOk' BY <1>1, <1>2, <1>3 DEF PacketsOk, NumberOf, Rtp!Faults
<1>7. LogOk' BY <1>1, <1>2, <1>3 DEF LogOk, Rtp!Faults
<1>8. CountsOk' /\ ReportsOk' BY <1>1, <1>3, ReceiverQuiet
<1> QED BY <1>4, <1>5, <1>6, <1>7, <1>8 DEF RtpInvariant

\* GenerateRR makes a report and starts the next interval.
LEMMA GenerateStep ==
    ASSUME MinSequential = 2, RtpInvariant, Rtp!GenerateRR
    PROVE  RtpInvariant'
<1>1. mux' = mux /\ wire' = wire /\ given' = given BY DEF Rtp!GenerateRR
<1>2. PackerOk /\ WireTyped /\ PacketsOk /\ LogOk BY DEF RtpInvariant
<1>4. PackerOk' BY <1>1, <1>2 DEF PackerOk, NumberOf
<1>5. WireTyped' BY <1>1, <1>2 DEF WireTyped
<1>6. PacketsOk' BY <1>1, <1>2 DEF PacketsOk, NumberOf, Rtp!Faults
<1>7. LogOk' BY <1>1, <1>2 DEF LogOk, Rtp!Faults
<1>8. CountsOk' /\ ReportsOk' BY ReportStep
<1> QED BY <1>4, <1>5, <1>6, <1>7, <1>8 DEF RtpInvariant

\* What the next packet is.
LEMMA ReadingFacts ==
    ASSUME RtpInvariant, Rtp!Reading
    PROVE  LET rd == wire.rd
               id == wire.pkts[rd].id
           IN  /\ mux.closed /\ rd \in 1 .. Len(wire.pkts) /\ rd \in Nat /\ id \in Nat \ {0}
               /\ id - rd <= wire.moved /\ rd - id <= wire.moved /\ id \notin wire.lost
               /\ wire.log \in Logs /\ IsSeq(wire.pkts) /\ Len(wire.pkts) \in Nat
               /\ wire = [pkts |-> wire.pkts, rd |-> wire.rd, lost |-> wire.lost, twice |-> wire.twice,
                          moved |-> wire.moved, log |-> wire.log]
<1>1. WireTyped BY DEF RtpInvariant
<1>2. IsSeq(wire.pkts) /\ wire.rd \in Nat \ {0} /\ wire.log \in Logs BY <1>1 DEF WireTyped, Logs
<1>3. Len(wire.pkts) \in Nat BY <1>2, SeqGrows
<1>4. mux.closed /\ wire.rd <= Len(wire.pkts) BY DEF Rtp!Reading
<1>5. wire.rd \in 1 .. Len(wire.pkts) BY <1>2, <1>3, <1>4
<1>6. wire.rd >= wire.rd BY <1>2
<1>7. PacketsOk BY DEF RtpInvariant
<1>8. /\ wire.pkts[wire.rd].id \in Nat \ {0} /\ wire.pkts[wire.rd].id - wire.rd <= wire.moved
      /\ wire.rd - wire.pkts[wire.rd].id <= wire.moved /\ wire.pkts[wire.rd].id \notin wire.lost
  BY <1>5, <1>6, <1>7 DEF PacketsOk
<1>9. wire = [pkts |-> wire.pkts, rd |-> wire.rd, lost |-> wire.lost, twice |-> wire.twice,
              moved |-> wire.moved, log |-> wire.log]
  BY <1>1 DEF WireTyped
<1> QED BY <1>2, <1>3, <1>4, <1>5, <1>8, <1>9

\* A packet comes, for the last time or not: it is within the windows of updateSeq or the
\* counts begin anew.
LEMMA DeliverStep ==
    ASSUME MinSequential = 2, 2 * MaxFaults + 2 < SeqRange, RtpInvariant, Rtp!Deliver \/ Rtp!DeliverTwice
    PROVE  RtpInvariant'
<1> DEFINE rd == wire.rd
           id == wire.pkts[rd].id
           t == Append(wire.log, id)
           n == Len(wire.log)
           f == Rtp!Faults
<1>1. Rtp!Reading /\ Rtp!Receive(wire.rd) BY DEF Rtp!Deliver, Rtp!DeliverTwice
<1>2. /\ mux.closed /\ rd \in 1 .. Len(wire.pkts) /\ rd \in Nat /\ id \in Nat \ {0}
      /\ id - rd <= wire.moved /\ rd - id <= wire.moved
      /\ wire.log \in Logs
      /\ wire = [pkts |-> wire.pkts, rd |-> wire.rd, lost |-> wire.lost, twice |-> wire.twice,
                 moved |-> wire.moved, log |-> wire.log]
  BY <1>1, ReadingFacts
<1>3. PackerOk /\ WireTyped /\ PacketsOk /\ CountsOk BY DEF RtpInvariant
<1>4. mux' = mux /\ given' = given BY <1>1, <1>3, ReceiveCounts
<1>5. f \in Nat /\ f = Cardinality(wire.lost) + wire.twice + wire.moved /\ Cardinality(wire.lost) \in Nat
      /\ wire.twice \in Nat /\ wire.moved \in Nat /\ wire.moved <= f /\ f <= MaxFaults
  BY <1>3, FaultsType DEF PacketsOk
<1>6. /\ t \in Logs /\ n \in Nat /\ Len(t) = n + 1 /\ t[n + 1] = id BY <1>2, LogGrows
<1>7. /\ wire'.pkts = wire.pkts /\ wire'.lost = wire.lost /\ wire'.moved = wire.moved /\ wire'.log = t
      /\ wire' = [pkts |-> wire'.pkts, rd |-> wire'.rd, lost |-> wire'.lost, twice |-> wire'.twice,
                  moved |-> wire'.moved, log |-> wire'.log]
      /\ \/ wire'.rd = rd + 1 /\ wire'.twice = wire.twice
         \/ wire'.rd = rd /\ wire'.twice = wire.twice + 1 /\ f < MaxFaults
  <2>1. CASE Rtp!Deliver
    <3>1. wire' = [wire EXCEPT !.rd = @ + 1, !.log = t] BY <2>1 DEF Rtp!Deliver
    <3> HIDE DEF t, id
    <3>2. wire' = [pkts |-> wire.pkts, rd |-> rd + 1, lost |-> wire.lost, twice |-> wire.twice,
                   moved |-> wire.moved, log |-> t] BY <1>2, <3>1
    <3> QED BY <3>2
  <2>2. CASE Rtp!DeliverTwice
    <3>1. wire' = [wire EXCEPT !.twice = @ + 1, !.log = t] /\ f < MaxFaults BY <2>2 DEF Rtp!DeliverTwice
    <3> HIDE DEF t, id
    <3>2. wire' = [pkts |-> wire.pkts, rd |-> rd, lost |-> wire.lost, twice |-> wire.twice + 1,
                   moved |-> wire.moved, log |-> t] BY <1>2, <3>1
    <3> QED BY <3>1, <3>2
  <2> QED BY <2>1, <2>2
<1>8. CountsOk' BY <1>1, <1>7, CountsReceive
<1>9. ReportsOk' BY <1>1, <1>7, ReportsReceive
<1> HIDE DEF t, id, f, n, rd
<1>10. wire'.rd \in Nat \ {0} /\ wire'.twice \in Nat /\ wire'.rd >= rd BY <1>2, <1>5, <1>7
<1>11. WireTyped' BY <1>3, <1>6, <1>7, <1>10 DEF WireTyped, Logs
<1>12. Rtp!Faults' = Cardinality(wire'.lost) + wire'.twice + wire'.moved
  BY CardinalityIs DEF Rtp!Faults
<1>13. Rtp!Faults' \in Nat /\ Rtp!Faults' <= MaxFaults /\ wire.moved <= Rtp!Faults'
  BY <1>5, <1>7, <1>12, RtpConstants
<1>14. PackerOk' BY <1>2, <1>3, <1>4 DEF PackerOk
<1>15. PacketsOk'
  <2>1. \A i \in 1 .. Len(wire.pkts) : i >= wire'.rd => i >= rd BY <1>2, <1>10
  <2> QED BY <1>2, <1>3, <1>4, <1>7, <1>13, <2>1, SMTT(30) DEF PacketsOk, NumberOf, rd
<1>16. LogOk'
  <2>1. mux'.closed BY <1>2, <1>4
  <2>2. id - wire'.rd <= 1 + Rtp!Faults' /\ wire'.rd - id <= 1 + Rtp!Faults'
    BY <1>2, <1>5, <1>7, <1>13, SMTT(30)
  <2> QED BY <1>6, <1>7, <2>1, <2>2 DEF LogOk
<1> QED BY <1>8, <1>9, <1>11, <1>14, <1>15, <1>16 DEF RtpInvariant

\* A packet is lost.
LEMMA LoseStep ==
    ASSUME RtpInvariant, Rtp!Lose
    PROVE  RtpInvariant'
<1> DEFINE rd == wire.rd
           id == wire.pkts[rd].id
           n == Len(wire.log)
           f == Rtp!Faults
<1>1. Rtp!Reading /\ f < MaxFaults /\ mux' = mux /\ dem' = dem /\ given' = given BY DEF Rtp!Lose
<1>2. /\ mux.closed /\ rd \in 1 .. Len(wire.pkts) /\ rd \in Nat /\ id \in Nat \ {0} /\ id \notin wire.lost
      /\ wire.log \in Logs /\ Len(wire.pkts) \in Nat
      /\ wire = [pkts |-> wire.pkts, rd |-> wire.rd, lost |-> wire.lost, twice |-> wire.twice,
                 moved |-> wire.moved, log |-> wire.log]
  BY <1>1, ReadingFacts
<1>3. PackerOk /\ WireTyped /\ PacketsOk /\ LogOk BY DEF RtpInvariant
<1>4. /\ f \in Nat /\ f = Cardinality(wire.lost) + wire.twice + wire.moved /\ Cardinality(wire.lost) \in Nat
      /\ wire.twice \in Nat /\ wire.moved \in Nat
  BY <1>3, FaultsType
<1>5. wire' = [wire EXCEPT !.rd = @ + 1, !.lost = @ \cup {id}] BY DEF Rtp!Lose
<1> HIDE DEF id
<1>6. wire' = [pkts |-> wire.pkts, rd |-> rd + 1, lost |-> wire.lost \cup {id}, twice |-> wire.twice,
               moved |-> wire.moved, log |-> wire.log] BY <1>2, <1>5
<1>7. IsFiniteSet(wire.lost \cup {id}) /\ Cardinality(wire.lost \cup {id}) = Cardinality(wire.lost) + 1
  BY <1>2, <1>3, FS_AddElement DEF WireTyped
<1> HIDE DEF f
<1>8. Rtp!Faults' = f + 1
  <2>1. Rtp!Faults' = Cardinality(wire'.lost) + wire'.twice + wire'.moved BY CardinalityIs DEF Rtp!Faults
  <2> QED BY <1>4, <1>6, <1>7, <2>1
<1>9. f + 1 <= MaxFaults BY <1>1, <1>4, RtpConstants
<1>10. PackerOk' BY <1>1, <1>2, <1>3 DEF PackerOk
<1>11. WireTyped' BY <1>2, <1>3, <1>6, <1>7 DEF WireTyped
<1>12. PacketsOk'
  <2>1. ASSUME NEW i \in 1 .. Len(wire.pkts), i >= rd + 1 PROVE wire.pkts[i].id \notin wire.lost \cup {id}
    <3>1. i >= rd /\ i # rd BY <1>2, <2>1
    <3>2. wire.pkts[i].id \notin wire.lost BY <1>3, <3>1 DEF PacketsOk
    <3>3. wire.pkts[i].id # wire.pkts[rd].id BY <1>2, <1>3, <3>1 DEF PacketsOk
    <3> QED BY <3>2, <3>3 DEF id
  <2>2. wire'.pkts = wire.pkts /\ wire'.rd = rd + 1 /\ wire'.lost = wire.lost \cup {id} /\ wire'.moved = wire.moved
    BY <1>6
  <2> HIDE DEF rd
  <2> QED BY <1>1, <1>2, <1>3, <1>8, <1>9, <2>1, <2>2, SMTT(30) DEF PacketsOk, NumberOf
<1>13. LogOk'
  <2>1. wire'.log = wire.log /\ wire'.rd = rd + 1 BY <1>6
  <2>2. n > 0 => wire.log[n] - rd <= 1 + f /\ rd - wire.log[n] <= 1 + f BY <1>3 DEF LogOk, f
  <2>3. n > 0 => wire.log[n] \in Nat BY <1>2 DEF Logs
  <2>4. n > 0 => wire.log[n] - (rd + 1) <= 1 + (f + 1) /\ (rd + 1) - wire.log[n] <= 1 + (f + 1)
    BY <1>2, <1>4, <2>2, <2>3, SMTT(30)
  <2> QED BY <1>1, <1>2, <1>8, <2>1, <2>4 DEF LogOk
<1>14. CountsOk' /\ ReportsOk' BY <1>1, <1>6, ReceiverQuiet
<1> QED BY <1>10, <1>11, <1>12, <1>13, <1>14 DEF RtpInvariant

\* Two packets change places: each is one place farther from its own at most.
LEMMA OvertakeStep ==
    ASSUME RtpInvariant, Rtp!Overtake
    PROVE  RtpInvariant'
<1> DEFINE rd == wire.rd
           n == Len(wire.log)
           m == Len(wire.pkts)
           f == Rtp!Faults
           pkts == [wire.pkts EXCEPT ![rd] = wire.pkts[rd + 1], ![rd + 1] = wire.pkts[rd]]
           at(i) == IF i = rd THEN rd + 1 ELSE IF i = rd + 1 THEN rd ELSE i
<1>1. Rtp!Reading /\ f < MaxFaults /\ rd < m /\ mux' = mux /\ dem' = dem /\ given' = given BY DEF Rtp!Overtake
<1>2. /\ mux.closed /\ rd \in 1 .. m /\ rd \in Nat /\ m \in Nat /\ wire.log \in Logs /\ IsSeq(wire.pkts)
      /\ wire = [pkts |-> wire.pkts, rd |-> wire.rd, lost |-> wire.lost, twice |-> wire.twice,
                 moved |-> wire.moved, log |-> wire.log]
  BY <1>1, ReadingFacts
<1>3. PackerOk /\ WireTyped /\ PacketsOk /\ LogOk BY DEF RtpInvariant
<1>4. /\ f \in Nat /\ f = Cardinality(wire.lost) + wire.twice + wire.moved /\ Cardinality(wire.lost) \in Nat
      /\ wire.twice \in Nat /\ wire.moved \in Nat
  BY <1>3, FaultsType
<1>5. wire' = [wire EXCEPT !.moved = @ + 1, !.pkts[rd] = wire.pkts[rd + 1], !.pkts[rd + 1] = wire.pkts[rd]]
  BY DEF Rtp!Overtake
<1>6. wire' = [pkts |-> pkts, rd |-> rd, lost |-> wire.lost, twice |-> wire.twice,
               moved |-> wire.moved + 1, log |-> wire.log] BY <1>2, <1>5
<1>7. /\ DOMAIN wire.pkts = 1 .. m /\ wire.pkts \in Seq({wire.pkts[i] : i \in DOMAIN wire.pkts})
      /\ rd + 1 \in 1 .. m
  BY <1>1, <1>2, SeqGrows DEF IsSeq
<1>8. \A i \in 1 .. m : at(i) \in 1 .. m /\ pkts[i] = wire.pkts[at(i)] BY <1>2, <1>7
<1>9. IsSeq(pkts) /\ Len(pkts) = m
  <2> DEFINE T == {wire.pkts[i] : i \in DOMAIN wire.pkts}
  <2>1. wire.pkts[rd] \in T /\ wire.pkts[rd + 1] \in T BY <1>2, <1>7
  <2>2. wire.pkts \in Seq(T) BY <1>7
  <2> HIDE DEF T
  <2>3. pkts \in Seq(T) /\ Len(pkts) = Len(wire.pkts) BY <1>2, <1>7, <2>1, <2>2
  <2> QED BY <2>3, SeqRanges
<1> HIDE DEF f, pkts
<1>10. Rtp!Faults' = f + 1
  <2>1. Rtp!Faults' = Cardinality(wire'.lost) + wire'.twice + wire'.moved BY CardinalityIs DEF Rtp!Faults
  <2> QED BY <1>4, <1>6, <2>1
<1>11. f + 1 <= MaxFaults BY <1>1, <1>4, RtpConstants
<1>12. PackerOk' BY <1>1, <1>2, <1>3 DEF PackerOk
<1>13. WireTyped' BY <1>2, <1>3, <1>4, <1>6, <1>9 DEF WireTyped
<1>14. wire'.pkts = pkts /\ wire'.rd = rd /\ wire'.lost = wire.lost /\ wire'.moved = wire.moved + 1 /\ wire'.log = wire.log
  BY <1>6
<1>15. PacketsOk'
  <2>1. \A i \in 1 .. m :
          LET p == wire.pkts[i] IN
          /\ p.id \in Nat \ {0} /\ p.seq = NumberOf(p.id)
          /\ p.id - i <= wire.moved /\ i - p.id <= wire.moved
          /\ i >= wire.rd => p.id \notin wire.lost
          /\ \A j \in 1 .. m : wire.pkts[j].id = p.id => i = j
    BY <1>3 DEF PacketsOk
  <2>2. ASSUME NEW i \in 1 .. m
        PROVE  LET p == pkts[i] IN
          /\ p.id \in Nat \ {0} /\ p.seq = NumberOf(p.id)
          /\ p.id - i <= wire.moved + 1 /\ i - p.id <= wire.moved + 1
          /\ i >= rd => p.id \notin wire.lost
          /\ \A j \in 1 .. m : pkts[j].id = p.id => i = j
    <3>1. at(i) \in 1 .. m /\ pkts[i] = wire.pkts[at(i)] BY <1>8
    <3> DEFINE p == wire.pkts[at(i)]
    <3>2. /\ p.id \in Nat \ {0} /\ p.seq = NumberOf(p.id)
          /\ p.id - at(i) <= wire.moved /\ at(i) - p.id <= wire.moved
          /\ at(i) >= wire.rd => p.id \notin wire.lost
      BY <2>1, <3>1
    <3> HIDE DEF p
    <3>3. at(i) - i <= 1 /\ i - at(i) <= 1 /\ at(i) \in Int /\ (i >= rd => at(i) >= rd) BY <1>2, SMTT(30)
    <3>4. ASSUME NEW j \in 1 .. m, pkts[j].id = pkts[i].id PROVE i = j
      <4>1. at(j) \in 1 .. m /\ pkts[j] = wire.pkts[at(j)] BY <1>8
      <4> DEFINE a == at(i)
                 c == at(j)
      <4>2. a \in 1 .. m /\ c \in 1 .. m /\ wire.pkts[c].id = wire.pkts[a].id BY <3>1, <3>4, <4>1
      <4> HIDE DEF a, c
      <4>3. a = c BY <2>1, <4>2
      <4> QED BY <1>2, <4>3 DEF a, c
    <3>5. p.id - i <= wire.moved + 1 /\ i - p.id <= wire.moved + 1
      <4> DEFINE a == at(i)
                 q == p.id
      <4>1. a \in Int /\ q \in Int /\ q - a <= wire.moved /\ a - q <= wire.moved /\ a - i <= 1 /\ i - a <= 1 BY <3>2, <3>3
      <4> HIDE DEF a, q, at
      <4> QED BY <1>4, <4>1, SMTT(30) DEF q
    <3> HIDE DEF at
    <3> QED BY <3>1, <3>2, <3>3, <3>4, <3>5 DEF p
  <2> HIDE DEF m, rd
  <2>3. Len(wire'.pkts) = m /\ Rtp!Faults' <= MaxFaults BY <1>9, <1>10, <1>11, <1>14
  <2>4. \A x : NumberOf(x)' = NumberOf(x') BY <1>1 DEF NumberOf
  <2> QED BY <1>1, <1>2, <1>14, <2>2, <2>3 DEF PacketsOk, NumberOf
<1>16. LogOk'
  <2>2. n > 0 => wire.log[n] - rd <= 1 + f /\ rd - wire.log[n] <= 1 + f BY <1>3 DEF LogOk, f
  <2>3. n > 0 => wire.log[n] \in Nat BY <1>2 DEF Logs
  <2>4. n > 0 => wire.log[n] - rd <= 1 + (f + 1) /\ rd - wire.log[n] <= 1 + (f + 1)
    BY <1>2, <1>4, <2>2, <2>3, SMTT(30)
  <2> QED BY <1>1, <1>2, <1>10, <1>14, <2>4 DEF LogOk
<1>17. CountsOk' /\ ReportsOk' BY <1>1, <1>6, ReceiverQuiet
<1> QED BY <1>12, <1>13, <1>15, <1>16, <1>17 DEF RtpInvariant

\* A number some packets on.
LEMMA NumbersOn ==
    ASSUME NEW r \in Nat \ {0}, NEW x \in Int, NEW j \in Int
    PROVE  ((x % r) + j) % r = (x + j) % r
<1> DEFINE q == x \div r
           y == x % r
           z == y + j
           p == z \div r
           m == z % r
<1>1. y \in 0 .. r - 1 /\ q \in Int /\ x = q * r + y BY TurnOf
<1>2. z \in Int BY <1>1
<1> HIDE DEF q, y, z
<1>3. m \in 0 .. r - 1 /\ p \in Int /\ z = p * r + m BY <1>2, TurnOf
<1> HIDE DEF p, m
<1>4. x + j = (q + p) * r + m /\ q + p \in Int BY <1>1, <1>2, <1>3 DEF z
<1>5. (x + j) % r = m BY <1>3, <1>4, InTurn
<1>6. z % r = m BY DEF m
<1> QED BY <1>5, <1>6 DEF z, y

\* Sequences behind each other.
LEMMA SeqBehind ==
    ASSUME NEW s, NEW t, IsSeq(s), IsSeq(t)
    PROVE  /\ IsSeq(s \o t) /\ Len(s \o t) = Len(s) + Len(t) /\ Len(s) \in Nat /\ Len(t) \in Nat
           /\ \A i \in 1 .. Len(s) + Len(t) : (s \o t)[i] = IF i <= Len(s) THEN s[i] ELSE t[i - Len(s)]
<1> DEFINE S == {s[i] : i \in DOMAIN s}
           T == {t[i] : i \in DOMAIN t}
           R == S \cup T
<1>1. s \in Seq(S) /\ t \in Seq(T) BY DEF IsSeq
<1> HIDE DEF S, T
<1>2. s \in Seq(R) /\ t \in Seq(R) BY <1>1
<1> HIDE DEF R
<1>3. s \o t \in Seq(R) BY <1>2
<1>4. IsSeq(s \o t) BY <1>3, SeqRanges
<1> QED BY <1>2, <1>4

\* A function on the places of a sequence is one.
LEMMA SeqAt ==
    ASSUME NEW s, IsSeq(s), NEW t, t = [i \in DOMAIN s |-> t[i]]
    PROVE  IsSeq(t) /\ Len(t) = Len(s) /\ DOMAIN t = 1 .. Len(s)
<1>1. Len(s) \in Nat /\ DOMAIN s = 1 .. Len(s) BY SeqGrows
<1> DEFINE T == {t[i] : i \in 1 .. Len(s)}
<1>2. t \in [1 .. Len(s) -> T] BY <1>1
<1> HIDE DEF T
<1>3. t \in Seq(T) BY <1>1, <1>2, SeqDef
<1>4. IsSeq(t) BY <1>3, SeqRanges
<1> QED BY <1>1, <1>2, <1>3, <1>4

\* The packets of a frame are numbered on.
LEMMA NumberedIs ==
    ASSUME NEW pkts, IsSeq(pkts), NEW ts, mux.sequence \in Int, Len(wire.pkts) \in Nat
    PROVE  LET t == Rtp!Numbered(pkts, ts) IN
           /\ IsSeq(t) /\ Len(t) = Len(pkts)
           /\ \A i \in 1 .. Len(pkts) :
                 /\ t[i].id = Len(wire.pkts) + i /\ t[i].seq = (mux.sequence + i - 1) % SeqRange
                 /\ t[i].kind = pkts[i].kind /\ t[i].parts = pkts[i].parts
                 /\ t[i].s = pkts[i].s /\ t[i].e = pkts[i].e /\ t[i].hdr = pkts[i].hdr
<1> DEFINE t == Rtp!Numbered(pkts, ts)
<1>1. Len(pkts) \in Nat /\ DOMAIN pkts = 1 .. Len(pkts) BY SeqGrows
<1>2. t = [i \in DOMAIN pkts |-> t[i]] BY Zenon DEF Rtp!Numbered
<1>3. \A i \in 1 .. Len(pkts) :
         /\ t[i].id = Len(wire.pkts) + i /\ t[i].seq = (mux.sequence + i - 1) % SeqRange
         /\ t[i].kind = pkts[i].kind /\ t[i].parts = pkts[i].parts
         /\ t[i].s = pkts[i].s /\ t[i].e = pkts[i].e /\ t[i].hdr = pkts[i].hdr
  BY <1>1, Zenon DEF Rtp!Numbered
<1> HIDE DEF t
<1>4. IsSeq(t) /\ Len(t) = Len(pkts) BY <1>2, SeqAt
<1> QED BY <1>3, <1>4 DEF t

\* What Pack makes of a frame.
PackedOf(au, n) == CASE au.cid = "h264" -> Rtp!PackH264(au, n)
                     [] au.cid = "h265" -> Rtp!PackH265(au, n)
                     [] au.cid = "ts"   -> Rtp!PackTs(au, n)
                     [] au.cid = "aac"  -> Rtp!PackAac(au, n)
                     [] au.cid = "g711" -> Rtp!PackG711(au, n)

\* Whatever the codec, a frame gives packets and parameter sets that wait.
LEMMA PackedType ==
    ASSUME NEW au \in RtpUnits, NEW n \in Nat, mux.sps \in Runs, mux.pps \in Runs
    PROVE  PackedOk(PackedOf(au, n))
<1>1. au.cid \in {"h264", "h265", "ts", "aac", "g711"}
  BY PacketsAssumption DEF Rtp!RtpAssumption, Rtp!H26x
<1>2. \A k \in DOMAIN au.nals : Rtp!NalRun(au, n, k) \in Runs BY NalRunType
<1>3. PackedIn(Runs, Rtp!PackH264(au, n)) /\ PackedIn(Runs, Rtp!PackH265(au, n)) BY <1>2, PackH264Type, PackH265Type
<1>4. PackedOk(Rtp!PackH264(au, n)) /\ PackedOk(Rtp!PackH265(au, n)) BY <1>3, PackedInIs
<1>5. PackedOk(Rtp!PackTs(au, n)) /\ PackedOk(Rtp!PackAac(au, n)) /\ PackedOk(Rtp!PackG711(au, n))
  BY PackTsType, PackAudioType
<1> QED BY <1>1, <1>4, <1>5 DEF PackedOf

\* Pack: the packets of a frame go behind those before, with the next numbers.
LEMMA PackStep ==
    ASSUME RtpInvariant, NEW au \in RtpUnits, NEW step \in {0, 1}, Rtp!Pack(au, step)
    PROVE  RtpInvariant'
<1> DEFINE n == Len(given) + 1
           x == PackedOf(au, n)
           ts == mux.ts + step
           old == wire.pkts
           new == Rtp!Numbered(x.pkts, ts)
           m == Len(old)
           k == Len(x.pkts)
<1>1. /\ ~mux.closed /\ given' = Append(given, [au |-> au, ts |-> ts])
      /\ wire' = [wire EXCEPT !.pkts = @ \o new]
      /\ mux' = [mux EXCEPT !.sequence = (@ + k) % SeqRange, !.ts = @ + step, !.sps = x.sps, !.pps = x.pps]
      /\ dem' = dem
  BY DEF Rtp!Pack, PackedOf
<1>2. PackerOk /\ WireTyped /\ PacketsOk /\ LogOk BY DEF RtpInvariant
<1>3. /\ IsSeq(given) /\ mux.sps \in Runs /\ mux.pps \in Runs /\ mux.sequence \in Numbers /\ mux.ts \in Int
      /\ mux.first \in Numbers /\ IsSeq(old)
      /\ mux \in [cid : {u.cid : u \in RtpUnits}, stap : BOOLEAN, sequence : Numbers, sps : Runs, pps : Runs,
                  ts : Int, first : Numbers, closed : BOOLEAN]
      /\ wire = [pkts |-> wire.pkts, rd |-> wire.rd, lost |-> wire.lost, twice |-> wire.twice,
                 moved |-> wire.moved, log |-> wire.log]
      /\ wire.lost = {} /\ mux.sequence = NumberOf(m + 1) /\ wire.moved \in Nat
  BY <1>1, <1>2 DEF PackerOk, WireTyped
<1>4. n \in Nat /\ IsSeq(given') BY <1>1, <1>3, SeqGrows
<1>5. x.sps \in Runs /\ x.pps \in Runs /\ IsSeq(x.pkts) BY <1>3, <1>4, PackedType DEF PackedOk
<1> HIDE DEF x, n
<1>6. SeqRange \in Nat \ {0} /\ mux.first \in Int /\ mux.sequence \in Int /\ m \in Nat /\ k \in Nat /\ ts \in Int /\ step \in Int
  <2>1. SeqRange \in Nat \ {0} /\ Numbers \subseteq Int BY RtpConstants DEF Numbers
  <2>2. m \in Nat /\ k \in Nat BY <1>3, <1>5, SeqGrows
  <2>3. ts \in Int /\ step \in Int BY <1>3
  <2>4. mux.first \in Int /\ mux.sequence \in Int BY <1>3, <2>1
  <2> QED BY <2>1, <2>2, <2>3, <2>4
<1> HIDE DEF ts
<1>7. /\ IsSeq(new) /\ Len(new) = k
      /\ \A i \in 1 .. k : new[i].id = m + i /\ new[i].seq = (mux.sequence + i - 1) % SeqRange
  BY <1>5, <1>6, NumberedIs, SMTT(30)
<1> HIDE DEF new
<1>8. /\ IsSeq(old \o new) /\ Len(old \o new) = m + k
      /\ \A i \in 1 .. m + k : (old \o new)[i] = IF i <= m THEN old[i] ELSE new[i - m]
  <2> HIDE DEF old, k
  <2>1. IsSeq(old) /\ IsSeq(new) /\ Len(new) = k /\ Len(old) = m BY <1>3, <1>7 DEF old
  <2> HIDE DEF m
  <2>2. /\ IsSeq(old \o new) /\ Len(old \o new) = Len(old) + Len(new)
        /\ \A i \in 1 .. Len(old) + Len(new) :
              (old \o new)[i] = IF i <= Len(old) THEN old[i] ELSE new[i - Len(old)]
    BY <2>1, SeqBehind
  <2> QED BY <2>1, <2>2
<1>9. /\ wire' = [pkts |-> old \o new, rd |-> wire.rd, lost |-> wire.lost, twice |-> wire.twice,
                  moved |-> wire.moved, log |-> wire.log]
      /\ wire'.pkts = old \o new /\ wire'.rd = wire.rd /\ wire'.lost = wire.lost /\ wire'.twice = wire.twice
      /\ wire'.moved = wire.moved /\ wire'.log = wire.log
  BY <1>1, <1>3
<1>10. /\ mux'.first = mux.first /\ mux'.closed = FALSE /\ mux'.sequence = (mux.sequence + k) % SeqRange
       /\ mux' \in [cid : {u.cid : u \in RtpUnits}, stap : BOOLEAN, sequence : Numbers, sps : Runs, pps : Runs,
                    ts : Int, first : Numbers, closed : BOOLEAN]
  <2>1. (mux.sequence + k) % SeqRange \in Numbers BY <1>6 DEF Numbers
  <2>2. mux.ts + step \in Int BY <1>3, <1>6
  <2> DEFINE s == (mux.sequence + k) % SeqRange
             t == mux.ts + step
  <2>3. mux' = [mux EXCEPT !.sequence = s, !.ts = t, !.sps = x.sps, !.pps = x.pps] BY <1>1
  <2>4. s \in Numbers /\ t \in Int BY <2>1, <2>2
  <2> HIDE DEF s, t, k
  <2>5. mux.closed = FALSE BY <1>1, <1>3
  <2>6. mux'.first = mux.first /\ mux'.closed = FALSE /\ mux'.sequence = s BY <1>3, <2>3, <2>5
  <2>7. mux' \in [cid : {u.cid : u \in RtpUnits}, stap : BOOLEAN, sequence : Numbers, sps : Runs, pps : Runs,
                  ts : Int, first : Numbers, closed : BOOLEAN]
    BY <1>3, <1>5, <2>3, <2>4
  <2> QED BY <2>6, <2>7 DEF s
<1>11. ASSUME NEW i \in 0 .. k PROVE (mux.sequence + i) % SeqRange = NumberOf(m + 1 + i)
  <2> DEFINE z == mux.first + m
  <2>1. mux.first + (m + 1) - 1 = z /\ mux.first + (m + 1 + i) - 1 = z + i /\ z \in Int /\ i \in Int BY <1>6
  <2>2. mux.sequence = z % SeqRange /\ NumberOf(m + 1 + i) = (z + i) % SeqRange BY <1>3, <2>1 DEF NumberOf
  <2>3. ((z % SeqRange) + i) % SeqRange = (z + i) % SeqRange BY <1>6, <2>1, NumbersOn
  <2> HIDE DEF z
  <2> QED BY <2>2, <2>3
<1>12. \A id \in Int : NumberOf(id)' = NumberOf(id) BY <1>10 DEF NumberOf
<1>13. PackerOk'
  <2>1. mux'.sequence = NumberOf(m + 1 + k)
    <3>1. k \in 0 .. k BY <1>6
    <3> QED BY <1>10, <1>11, <3>1
  <2>4. Len(wire'.pkts) = m + k BY <1>8, <1>9
  <2> HIDE DEF m, k
  <2>5. (m + k) + 1 = m + 1 + k BY <1>6
  <2>2. NumberOf(Len(wire'.pkts) + 1) = NumberOf(m + 1 + k) BY <2>4, <2>5
  <2>3. (NumberOf(Len(wire.pkts) + 1))' = NumberOf(Len(wire'.pkts) + 1) BY <1>10 DEF NumberOf
  <2> QED BY <1>3, <1>4, <1>9, <1>10, <2>1, <2>2, <2>3 DEF PackerOk
<1>14. WireTyped' BY <1>2, <1>8, <1>9 DEF WireTyped
<1>15. PacketsOk'
  <2>1. \A i \in 1 .. m :
          LET p == old[i] IN
          /\ p.id \in Nat \ {0} /\ p.seq = NumberOf(p.id)
          /\ p.id - i <= wire.moved /\ i - p.id <= wire.moved /\ p.id = i
    BY <1>1, <1>2 DEF PacketsOk
  <2>2. ASSUME NEW i \in 1 .. m + k
        PROVE  LET p == (old \o new)[i] IN
               p.id = i /\ p.seq = NumberOf(i)
    <3>1. CASE i <= m
      <4>1. i \in 1 .. m /\ (old \o new)[i] = old[i] BY <1>6, <1>8, <3>1
      <4> QED BY <2>1, <4>1
    <3>2. CASE ~(i <= m)
      <4> DEFINE j == i - m
      <4>1. j \in 1 .. k /\ j - 1 \in 0 .. k /\ m + j = i /\ m + 1 + (j - 1) = i
        <5> HIDE DEF m, k
        <5> QED BY <1>6, <3>2
      <4>2. (old \o new)[i] = new[j] BY <1>8, <3>2
      <4> HIDE DEF j
      <4>3. new[j].id = i BY <1>7, <4>1
      <4>4. new[j].seq = (mux.sequence + (j - 1)) % SeqRange
        <5>1. mux.sequence + j - 1 = mux.sequence + (j - 1) BY <1>6, <4>1
        <5> QED BY <1>7, <4>1, <5>1
      <4>5. new[j].seq = NumberOf(m + 1 + (j - 1)) BY <1>11, <4>1, <4>4
      <4> QED BY <4>1, <4>2, <4>3, <4>5
    <3> QED BY <3>1, <3>2
  <2>3. Rtp!Faults' <= MaxFaults
    <3>1. Rtp!Faults' = Cardinality(wire'.lost) + wire'.twice + wire'.moved BY CardinalityIs DEF Rtp!Faults
    <3>2. Rtp!Faults = Cardinality(wire.lost) + wire.twice + wire.moved BY CardinalityIs DEF Rtp!Faults
    <3>3. Rtp!Faults <= MaxFaults BY <1>2 DEF PacketsOk
    <3> QED BY <1>9, <3>1, <3>2, <3>3
  <2>4. \A i \in 1 .. m + k : i \in Nat \ {0} /\ i - i <= wire.moved BY <1>3, <1>6
  <2> DEFINE all == old \o new
             l == m + k
  <2>5. wire'.pkts = all /\ Len(wire'.pkts) = l /\ wire'.lost = {} BY <1>3, <1>8, <1>9
  <2>6. ASSUME NEW i \in 1 .. l PROVE all[i].id = i /\ all[i].seq = NumberOf(i) /\ i \in Nat \ {0} /\ i - i <= wire.moved
    BY <2>2, <2>4
  <2>7. \A i \in 1 .. l : i \in Int BY <2>6
  <2> HIDE DEF all, l
  <2>8. (\A i \in 1 .. Len(wire.pkts) :
          LET p == wire.pkts[i] IN
          /\ p.id \in Nat \ {0} /\ p.seq = NumberOf(p.id)
          /\ p.id - i <= wire.moved /\ i - p.id <= wire.moved
          /\ ~mux.closed => p.id = i
          /\ i >= wire.rd => p.id \notin wire.lost
          /\ \A j \in 1 .. Len(wire.pkts) : wire.pkts[j].id = p.id => i = j)'
    BY <1>9, <1>10, <2>5, <2>6 DEF NumberOf
  <2> QED BY <2>3, <2>8 DEF PacketsOk
<1>16. LogOk'
  <2>1. wire.log = <<>> BY <1>1, <1>2 DEF LogOk
  <2> QED BY <1>9, <2>1 DEF LogOk
<1>17. CountsOk' /\ ReportsOk' BY <1>1, <1>9, <1>10, ReceiverQuiet
<1> QED BY <1>13, <1>14, <1>15, <1>16, <1>17 DEF RtpInvariant

\* Every step of an RTP stream keeps the invariant.
LEMMA RtpStep ==
    ASSUME MinSequential = 2, 2 * MaxFaults + 2 < SeqRange, RtpInvariant, [Rtp!Next]_Rtp!vars
    PROVE  RtpInvariant'
<1>1. ASSUME NEW au \in RtpUnits, Rtp!Pack(au, 1) \/ Rtp!Pack(au, 0) PROVE RtpInvariant'
  <2>1. 0 \in {0, 1} /\ 1 \in {0, 1} OBVIOUS
  <2> QED BY <1>1, <2>1, PackStep
<1>2. CASE Rtp!Close BY <1>2, CloseStep
<1>3. CASE Rtp!Deliver BY <1>3, DeliverStep
<1>4. CASE Rtp!DeliverTwice BY <1>4, DeliverStep
<1>5. CASE Rtp!Overtake BY <1>5, OvertakeStep
<1>6. CASE Rtp!Lose BY <1>6, LoseStep
<1>7. CASE Rtp!GenerateRR BY <1>7, GenerateStep
<1>8. CASE UNCHANGED Rtp!vars
  <2>1. mux' = mux /\ wire' = wire /\ dem' = dem /\ given' = given BY <1>8 DEF Rtp!vars
  <2>2. PackerOk /\ WireTyped /\ PacketsOk /\ LogOk BY DEF RtpInvariant
  <2>3. PackerOk' BY <2>1, <2>2 DEF PackerOk, NumberOf
  <2>4. WireTyped' BY <2>1, <2>2 DEF WireTyped
  <2>5. PacketsOk' /\ LogOk'
    <3>1. Rtp!Faults' = Cardinality(wire'.lost) + wire'.twice + wire'.moved BY CardinalityIs DEF Rtp!Faults
    <3>2. Rtp!Faults = Cardinality(wire.lost) + wire.twice + wire.moved BY CardinalityIs DEF Rtp!Faults
    <3>3. Rtp!Faults' = Rtp!Faults BY <2>1, <3>1, <3>2
    <3> QED BY <2>1, <2>2, <3>3 DEF PacketsOk, LogOk, NumberOf
  <2>6. CountsOk' /\ ReportsOk' BY <2>1, ReceiverQuiet
  <2> QED BY <2>3, <2>4, <2>5, <2>6 DEF RtpInvariant
<1> QED BY <1>1, <1>2, <1>3, <1>4, <1>5, <1>6, <1>7, <1>8 DEF Rtp!Next

\* Which of the four streams a behaviour is, is settled at its beginning.
LEMMA PartStays == ASSUME [Next]_vars PROVE part' = part
BY DEF Next, vars

\* A behaviour that begins as an RTP stream is one.
LEMMA RtpPart == Spec /\ InRtp => Rtp!Spec /\ []InRtp
<1>1. Init /\ InRtp => Rtp!Init BY DEF Init, InRtp
<1>2. InRtp /\ [Next]_vars => InRtp' BY PartStays DEF InRtp
<1>3. InRtp /\ [Next]_vars => [Rtp!Next]_Rtp!vars BY DEF Next, vars, Rtp!vars, InRtp
<1> QED BY <1>1, <1>2, <1>3, PTL DEF Spec, Rtp!Spec

\* Packets have the number of their place, the network is about where the last
\* packet was, and the counts of the RtcpContext follow from what came.
THEOREM ReceiverCounts ==
    ASSUME MinSequential = 2, 2 * MaxFaults + 2 < SeqRange
    PROVE  Spec => [](InRtp => RtpInvariant)
<1>1. Rtp!Init => RtpInvariant BY RtpInitStep
<1>2. RtpInvariant /\ [Rtp!Next]_Rtp!vars => RtpInvariant' BY RtpStep
<1>3. Rtp!Spec => []RtpInvariant BY <1>1, <1>2, PTL DEF Rtp!Spec
<1>4. ~InRtp /\ [Next]_vars => ~InRtp' BY PartStays DEF InRtp
<1> QED BY <1>3, <1>4, RtpPart, PTL DEF Spec

\* A receiver report tells the highest packet, through the wrap of the numbers,
\* what was lost in all and since the last report (rtcp-context.go: updateSeq
\* behind ReceivedRtp, getReportBlock behind GenerateRR).
THEOREM ReportsAreHonest ==
    ASSUME MinSequential = 2, 2 * MaxFaults + 2 < SeqRange
    PROVE  Spec => []ReportsHonest
<1>1. RtpInvariant => Rtp!ReportsHonest
  <2> SUFFICES ASSUME RtpInvariant, Rtp!Base(wire.log) # 0, Rtp!Steady(wire.log), NEW i \in DOMAIN dem.reports
               PROVE  Rtp!Honest(wire.log, dem.reports, i)
    BY DEF Rtp!ReportsHonest
  <2>1. IsSeq(dem.reports) /\ ReportsOk BY DEF RtpInvariant, CountsOk
  <2>2. i \in 1 .. Len(dem.reports) BY <2>1, SeqGrows
  <2> QED BY <2>1, <2>2 DEF ReportsOk
<1>2. ReportsHonest <=> (InRtp => Rtp!ReportsHonest) BY DEF ReportsHonest, InRtp
<1> QED BY <1>1, <1>2, ReceiverCounts, PTL

-------------------------------------------------------------------------------
(* Frames that are not damaged are whole.  Every packet holds whole NAL      *)
(* units or is a fragment linked to the one before it; while fragments come  *)
(* one after the other the buffer holds them from the first to the last.     *)
(* (Of MPEG-TS nothing is said here.)                                        *)

Audio == {"aac", "g711"}

\* The NAL units of some frames, and the frames.
NalsOf(frames) ==
    UNION {{Rtp!NalRun(frames[n].au, n, k) : k \in DOMAIN frames[n].au.nals} : n \in 1 .. Len(frames)}
WholeFrames(frames) ==
    {<<[n |-> n, lo |-> 0, hi |-> Rtp!SizeOfUnit(frames[n].au)]>> : n \in 1 .. Len(frames)}

\* The buffer ends within a NAL unit, or with it.
Buffers(nals) ==
    {b \in Seq(Runs) : b # <<>> => \E r \in nals : b[Len(b)].n = r.n /\ r.lo < b[Len(b)].hi /\ b[Len(b)].hi <= r.hi}

\* The packet that came with the i-th of the log, of those that were sent.  Fragments
\* came from the i-th on, and that was a first one.
CameFrom(sent, log, i) == CHOOSE p \in sent : p.id = log[i]
RunFrom(sent, log, i, n) == CameFrom(sent, log, i).s /\ \A j \in i + 1 .. n : Follows(CameFrom(sent, log, j))

FramesAre(cid, frames) ==
    IsSeq(frames) /\ \A n \in 1 .. Len(frames) : frames[n].au \in RtpUnits /\ frames[n].au.cid = cid
PiecesAre(cid, frames, sent) ==
    /\ cid \in Rtp!H26x => \A p \in sent :
          PieceOf(NalsOf(frames), p) /\ (Follows(p) => \E q \in sent : q.id = p.id - 1 /\ Linked(q, p))
    /\ cid \in Audio => \A p \in sent : p.parts \in WholeFrames(frames)
CameAre(sent, log) == \A i \in 1 .. Len(log) : \E p \in sent : p.id = log[i]

\* What the buffer holds while it is not damaged.
Holds(d, p) ==
    /\ p.kind = "fu" /\ d.lastSequence = p.seq
    /\ d.buf = (IF p.e THEN <<>> ELSE <<[n |-> p.hdr.n, lo |-> p.hdr.lo, hi |-> p.parts[1].hi]>>)
BufferIs(cid, frames, sent, log, d) ==
    cid \in Rtp!H26x =>
    /\ d.buf \in Buffers(NalsOf(frames))
    /\ ~d.lost => \A i \in 1 .. Len(log) : RunFrom(sent, log, i, Len(log)) => Holds(d, CameFrom(sent, log, Len(log)))

\* A frame that is not damaged.
Unspliced(cid, frames, sent, log, f) ==
    /\ cid \in Rtp!H26x /\ CameFrom(sent, log, f.at).kind = "fu" /\ (\E i \in 1 .. f.at : RunFrom(sent, log, i, f.at)) =>
          \E r \in NalsOf(frames) : f.runs = <<r>>
    /\ cid \in Rtp!H26x /\ CameFrom(sent, log, f.at).kind # "fu" =>
          f.runs # <<>> /\ f.runs[Len(f.runs)] \in NalsOf(frames)
    /\ cid \in Audio => f.runs \in WholeFrames(frames)
FramesGiven(cid, frames, sent, log, fs) ==
    cid # "ts" =>
    /\ IsSeq(fs)
    /\ \A i \in 1 .. Len(fs) :
          fs[i].at \in 1 .. Len(log) /\ (~fs[i].lost => Unspliced(cid, frames, sent, log, fs[i]))

WholeIs(cid, frames, sent, log, d, fs) ==
    /\ FramesAre(cid, frames) /\ PiecesAre(cid, frames, sent) /\ CameAre(sent, log)
    /\ BufferIs(cid, frames, sent, log, d) /\ FramesGiven(cid, frames, sent, log, fs)

Sent == {wire.pkts[i] : i \in 1 .. Len(wire.pkts)}
HeldOk == mux.cid \in Rtp!H26x => {mux.sps, mux.pps} \subseteq NalsOf(given) \cup {Rtp!NoRun}
NothingYet == ~mux.closed => got = <<>> /\ dem.buf = <<>>
WholeInvariant == HeldOk /\ NothingYet /\ WholeIs(mux.cid, given, Sent, wire.log, dem, got)

\* Frames of H.264 or H.265.
Framed(frames) ==
    IsSeq(frames) /\ \A n \in 1 .. Len(frames) : frames[n].au \in RtpUnits /\ frames[n].au.cid \in Rtp!H26x

\* A NAL unit is not empty, and none begins within another or at its end.
LEMMA NalsApart ==
    ASSUME NEW frames, Framed(frames), NEW r \in NalsOf(frames)
    PROVE  /\ r \in Runs /\ r.lo < r.hi
           /\ \A q \in NalsOf(frames), hi \in Int : q.n = r.n /\ q.lo < hi /\ hi <= q.hi => hi # r.lo
<1>1. Len(frames) \in Nat BY SeqGrows DEF Framed
<1>2. \A q \in NalsOf(frames) : \E n \in 1 .. Len(frames) :
                                  \E k \in DOMAIN frames[n].au.nals : q = Rtp!NalRun(frames[n].au, n, k)
  BY DEF NalsOf
<1>20. PICK n \in 1 .. Len(frames) : \E k \in DOMAIN frames[n].au.nals : r = Rtp!NalRun(frames[n].au, n, k) BY <1>2
<1>3. PICK k \in DOMAIN frames[n].au.nals : r = Rtp!NalRun(frames[n].au, n, k) BY <1>20
<1> DEFINE au == frames[n].au
           m == Len(au.nals)
           At(i) == Rtp!NalAt(au, i)
<1>4. au \in RtpUnits /\ au.cid \in Rtp!H26x BY DEF Framed
<1>5. m \in Nat /\ DOMAIN au.nals = 1 .. m /\ (\A i \in 1 .. m + 1 : At(i) \in Nat)
      /\ \A i, j \in 1 .. m + 1 : j <= i => At(j) <= At(i)
  BY <1>4, NalOrder
<1>6. \A i \in 1 .. m : au.nals[i].len > 4 /\ au.nals[i].len \in Nat /\ At(i + 1) = At(i) + au.nals[i].len
  <2>1. au.nals \in Seq(NalUnits) BY <1>4, PacketsAssumption DEF Rtp!RtpAssumption, NalUnits
  <2>2. \A i \in DOMAIN au.nals : au.nals[i].len > 4 BY <1>4, PacketsAssumption DEF Rtp!RtpAssumption, Rtp!ScLen
  <2>3. \A i \in 1 .. m : au.nals[i] \in NalUnits BY <2>1, SeqHas
  <2>4. \A i \in 1 .. m : au.nals[i].len \in Nat BY <2>3 DEF NalUnits
  <2>5. \A i \in DOMAIN au.nals : At(i + 1) = At(i) + au.nals[i].len BY <1>4, NextNal
  <2> HIDE DEF m, au, At
  <2> QED BY <1>5, <2>2, <2>4, <2>5
<1>7. \A i \in 1 .. m : Rtp!NalRun(au, n, i) = [n |-> n, lo |-> At(i) + 4, hi |-> At(i + 1)] BY DEF Rtp!NalRun, Rtp!ScLen
<1> HIDE DEF au, m, At
<1>8. k \in 1 .. m /\ r = [n |-> n, lo |-> At(k) + 4, hi |-> At(k + 1)] BY <1>3, <1>5, <1>7 DEF au
<1>9. r \in Runs BY <1>1, <1>5, <1>8 DEF Runs
<1>10. r.lo < r.hi
  <2>1. At(k) \in Nat /\ k \in 1 .. m + 1 BY <1>5, <1>8
  <2>2. r.lo = At(k) + 4 /\ r.hi = At(k) + au.nals[k].len /\ au.nals[k].len \in Nat /\ au.nals[k].len > 4
    BY <1>6, <1>8
  <2> QED BY <2>1, <2>2
<1>11. ASSUME NEW q \in NalsOf(frames), NEW hi \in Int, q.n = r.n, q.lo < hi, hi <= q.hi PROVE hi # r.lo
  <2>10. PICK n2 \in 1 .. Len(frames) : \E j \in DOMAIN frames[n2].au.nals : q = Rtp!NalRun(frames[n2].au, n2, j) BY <1>2
  <2>1. PICK j \in DOMAIN frames[n2].au.nals : q = Rtp!NalRun(frames[n2].au, n2, j) BY <2>10
  <2>2. q.n = n2 BY <2>1 DEF Rtp!NalRun
  <2>3. n2 = n BY <1>8, <1>11, <2>2
  <2>4. j \in 1 .. m /\ q = Rtp!NalRun(au, n, j) BY <1>5, <2>1, <2>3 DEF au
  <2>5. q = [n |-> n, lo |-> At(j) + 4, hi |-> At(j + 1)] BY <1>7, <2>4
  <2>6. At(j) + 4 < hi /\ hi <= At(j + 1) /\ r.lo = At(k) + 4 BY <1>8, <1>11, <2>5
  <2>7. /\ j \in 1 .. m + 1 /\ k \in 1 .. m + 1 /\ j + 1 \in 1 .. m + 1
        /\ At(j) \in Nat /\ At(k) \in Nat /\ At(j + 1) \in Nat
    <3>1. m \in Nat /\ j \in 1 .. m /\ k \in 1 .. m BY <1>5, <1>8, <2>4
    <3>2. j \in 1 .. m + 1 /\ k \in 1 .. m + 1 /\ j + 1 \in 1 .. m + 1 BY <3>1
    <3> QED BY <1>5, <3>2
  <2>8. CASE k <= j
    <3>1. At(k) <= At(j) BY <1>5, <2>7, <2>8
    <3> QED BY <2>6, <2>7, <3>1
  <2>9. CASE j + 1 <= k
    <3>1. At(j + 1) <= At(k) BY <1>5, <2>7, <2>9
    <3> QED BY <2>6, <2>7, <3>1
  <2> QED BY <2>7, <2>8, <2>9
<1> QED BY <1>9, <1>10, <1>11

\* A whole NAL unit is not made part of what is in front of it.
LEMMA AppendWhole ==
    ASSUME NEW frames, Framed(frames), NEW r \in NalsOf(frames), NEW b \in Buffers(NalsOf(frames))
    PROVE  LET s == Rtp!AppendRun(b, r) IN
           s \in Seq(Runs) /\ s # <<>> /\ s[Len(s)] = r /\ (b = <<>> => s = <<r>>)
<1>1. r \in Runs /\ r.lo # r.hi BY NalsApart DEF Runs
<1>2. b \in Seq(Runs) /\ Len(b) \in Nat BY DEF Buffers
<1>3. ASSUME b # <<>>, b[Len(b)].n = r.n PROVE b[Len(b)].hi # r.lo
  <2>1. PICK q \in NalsOf(frames) : b[Len(b)].n = q.n /\ q.lo < b[Len(b)].hi /\ b[Len(b)].hi <= q.hi
    BY <1>3 DEF Buffers
  <2>2. b[Len(b)] \in Runs BY <1>2, <1>3
  <2>3. b[Len(b)].hi \in Int BY <2>2 DEF Runs
  <2> QED BY <1>3, <2>1, <2>3, NalsApart
<1>4. Rtp!AppendRun(b, r) = Append(b, r) BY <1>1, <1>3 DEF Rtp!AppendRun, Rtp!Last
<1>5. ASSUME NEW T, NEW t \in Seq(T), NEW x \in T
      PROVE  LET s == Append(t, x) IN s \in Seq(T) /\ s # <<>> /\ s[Len(s)] = x /\ (t = <<>> => s = <<x>>)
  <2>1. Append(t, x) \in Seq(T) /\ Len(Append(t, x)) = Len(t) + 1 /\ Len(t) \in Nat /\ Append(t, x)[Len(t) + 1] = x OBVIOUS
  <2>2. Append(t, x) # <<>> BY <2>1
  <2>3. t = <<>> => Append(t, x) = <<x>> OBVIOUS
  <2> QED BY <2>1, <2>2, <2>3
<1> QED BY <1>1, <1>2, <1>4, <1>5

\* A piece of one ends where it ends.
LEMMA AppendPiece ==
    ASSUME NEW nals, NEW r \in nals, NEW b \in Buffers(nals), NEW piece \in Runs,
           piece.n = r.n, r.lo < piece.hi, piece.hi <= r.hi
    PROVE  Rtp!AppendRun(b, piece) \in Buffers(nals)
<1>1. b \in Seq(Runs) /\ Len(b) \in Nat BY DEF Buffers
<1>2. CASE piece.lo = piece.hi BY <1>2 DEF Rtp!AppendRun
<1>3. CASE piece.lo # piece.hi /\ b # <<>> /\ b[Len(b)].n = piece.n /\ b[Len(b)].hi = piece.lo
  <2> DEFINE s == [b EXCEPT ![Len(b)].hi = piece.hi]
  <2>1. Rtp!AppendRun(b, piece) = s BY <1>3 DEF Rtp!AppendRun, Rtp!Last
  <2>2. b[Len(b)] \in Runs /\ Len(b) \in 1 .. Len(b) BY <1>1, <1>3
  <2>3. [b[Len(b)] EXCEPT !.hi = piece.hi] \in Runs BY <2>2 DEF Runs
  <2>4. s \in Seq(Runs) /\ Len(s) = Len(b) /\ s[Len(s)] = [b[Len(b)] EXCEPT !.hi = piece.hi]
    BY <1>1, <2>2, <2>3
  <2>5. s[Len(s)].n = r.n /\ s[Len(s)].hi = piece.hi BY <1>3, <2>2, <2>4 DEF Runs
  <2> HIDE DEF s
  <2> QED BY <2>1, <2>4, <2>5 DEF Buffers
<1>4. CASE piece.lo # piece.hi /\ ~(b # <<>> /\ b[Len(b)].n = piece.n /\ b[Len(b)].hi = piece.lo)
  <2>1. Rtp!AppendRun(b, piece) = Append(b, piece) BY <1>4 DEF Rtp!AppendRun, Rtp!Last
  <2>2. Append(b, piece) \in Seq(Runs) /\ Len(Append(b, piece)) = Len(b) + 1 /\ Append(b, piece)[Len(b) + 1] = piece
    BY <1>1
  <2> QED BY <2>1, <2>2 DEF Buffers
<1> QED BY <1>2, <1>3, <1>4

-------------------------------------------------------------------------------
(* The unpackers.                                                            *)

\* Frames that end in a whole NAL unit.
WholeEnds(nals, ts) ==
    {f \in [runs : Seq(Runs), ts : {ts}, lost : {FALSE}] : f.runs # <<>> /\ f.runs[Len(f.runs)] \in nals}
\* An unpacker like d, but for what it holds and gave.
Taking(nals, ts, d) ==
    {[timestamp |-> d.timestamp, lastSequence |-> d.lastSequence, lost |-> d.lost, buf |-> b, frames |-> fs] :
       b \in Buffers(nals), fs \in Seq(WholeEnds(nals, ts))}

\* The parts of one.
LEMMA TakingHas ==
    ASSUME NEW nals, NEW ts, NEW d, NEW a \in Taking(nals, ts, d)
    PROVE  /\ a = [timestamp |-> d.timestamp, lastSequence |-> d.lastSequence, lost |-> d.lost,
                   buf |-> a.buf, frames |-> a.frames]
           /\ a.buf \in Buffers(nals) /\ a.frames \in Seq(WholeEnds(nals, ts))
BY DEF Taking

\* A whole NAL unit ends a frame (UnPackSingle).
LEMMA SingleGiven ==
    ASSUME NEW frames, Framed(frames), NEW r \in NalsOf(frames), NEW ts, NEW d, NEW a \in Taking(NalsOf(frames), ts, d)
    PROVE  /\ Rtp!UnPackSingle(a, r, ts) \in Taking(NalsOf(frames), ts, d)
           /\ Rtp!UnPackSingle(a, r, ts).buf = <<>>
<1> DEFINE nals == NalsOf(frames)
           W == WholeEnds(nals, ts)
           s == Rtp!AppendRun(a.buf, r)
           f == [runs |-> s, ts |-> ts, lost |-> FALSE]
           x == Rtp!UnPackSingle(a, r, ts)
<1>1. /\ a = [timestamp |-> d.timestamp, lastSequence |-> d.lastSequence, lost |-> d.lost,
              buf |-> a.buf, frames |-> a.frames]
      /\ a.buf \in Buffers(nals) /\ a.frames \in Seq(W)
  BY TakingHas
<1>2. s \in Seq(Runs) /\ s # <<>> /\ s[Len(s)] = r BY <1>1, AppendWhole
<1>3. x = [a EXCEPT !.frames = Append(a.frames, f), !.buf = <<>>] BY DEF Rtp!UnPackSingle, Rtp!Give
<1> HIDE DEF s, x
<1>4. f \in W BY <1>2 DEF WholeEnds
<1> HIDE DEF f, W
<1>5. Append(a.frames, f) \in Seq(W) BY <1>1, <1>4
<1> DEFINE fs == Append(a.frames, f)
           none == <<>>
<1>6. fs \in Seq(W) BY <1>5
<1>7. x = [a EXCEPT !.frames = fs, !.buf = none] BY <1>3
<1> HIDE DEF fs, none
<1>8. x = [timestamp |-> d.timestamp, lastSequence |-> d.lastSequence, lost |-> d.lost, buf |-> none, frames |-> fs]
  <2>1. a = [timestamp |-> a.timestamp, lastSequence |-> a.lastSequence, lost |-> a.lost,
             buf |-> a.buf, frames |-> a.frames] BY <1>1
  <2>2. a.timestamp = d.timestamp /\ a.lastSequence = d.lastSequence /\ a.lost = d.lost BY <1>1
  <2>3. x = [timestamp |-> a.timestamp, lastSequence |-> a.lastSequence, lost |-> a.lost, buf |-> none, frames |-> fs]
    BY <1>7, <2>1
  <2> QED BY <2>2, <2>3
<1>9. none \in Buffers(nals) BY DEF Buffers, none
<1>10. x \in Taking(nals, ts, d) BY <1>6, <1>8, <1>9 DEF Taking, W
<1> QED BY <1>8, <1>10 DEF x, none

\* So do those of one packet (unpackStapa).
LEMMA StapGiven ==
    ASSUME NEW frames, Framed(frames), NEW p, p.parts \in Seq(NalsOf(frames)), NEW d,
           d \in Taking(NalsOf(frames), p.ts, d)
    PROVE  Rtp!UnPackStapa(d, p) \in Taking(NalsOf(frames), p.ts, d)
<1> DEFINE nals == NalsOf(frames)
           P == Taking(nals, p.ts, d)
           seq == p.parts
           m == Len(seq)
           places == DOMAIN seq
           turn(a, r) == Rtp!UnPackSingle(a, r, p.ts)
           iter == CHOOSE f : f = [s \in SUBSET places |->
                      IF s = {} THEN d ELSE turn(f[s \ {Rtp!Max(s)}], seq[Rtp!Max(s)])]
           G == [q \in (1 .. m) \X P |-> turn(q[2], seq[q[1]])]
<1>1. m \in Nat /\ places = 1 .. m /\ \A k \in 1 .. m : seq[k] \in nals BY SeqHas
<1>2. Rtp!UnPackStapa(d, p) = iter[places]
  BY DEF Rtp!UnPackStapa, Rtp!FoldLeft, Rtp!MapThenFoldSet
<1>3. \A k \in 1 .. m, a \in P : turn(a, seq[k]) \in P BY <1>1, SingleGiven
<1>0. d \in P OBVIOUS
<1> HIDE DEF turn, m, seq, P
<1>4. \A k \in 1 .. m, a \in P : <<k, a>> \in (1 .. m) \X P /\ G[<<k, a>>] = turn(a, seq[k]) OBVIOUS
<1> HIDE DEF G, places
<1>5. \A k \in 1 .. m, a \in P : G[<<k, a>>] \in P BY <1>3, <1>4
<1>6. PICK g \in [SUBSET (1 .. m) -> P] : Folds(g, m, d, G) BY <1>0, <1>1, <1>5, FoldExists
<1>7. g = [s \in SUBSET places |-> IF s = {} THEN d ELSE turn(g[s \ {Rtp!Max(s)}], seq[Rtp!Max(s)])]
  <2>1. ASSUME NEW s \in SUBSET (1 .. m), s # {}
        PROVE  G[<<Rtp!Max(s), g[s \ {Rtp!Max(s)}]>>] = turn(g[s \ {Rtp!Max(s)}], seq[Rtp!Max(s)])
    <3>1. Rtp!Max(s) \in 1 .. m BY <1>1, <2>1, MaxOfPlaces
    <3>2. g[s \ {Rtp!Max(s)}] \in P OBVIOUS
    <3> QED BY <1>4, <3>1, <3>2
  <2> QED BY <1>1, <1>6, <2>1 DEF Folds
<1>8. iter = [s \in SUBSET places |-> IF s = {} THEN d ELSE turn(iter[s \ {Rtp!Max(s)}], seq[Rtp!Max(s)])]
  BY <1>7, Zenon
<1> HIDE DEF iter
<1>9. iter[{}] \in P BY <1>0, <1>8
<1>10. ASSUME NEW s \in SUBSET (1 .. m), s # {}, iter[s \ {Rtp!Max(s)}] \in P PROVE iter[s] \in P
  <2>1. Rtp!Max(s) \in 1 .. m BY <1>1, <1>10, MaxOfPlaces
  <2>2. iter[s] = turn(iter[s \ {Rtp!Max(s)}], seq[Rtp!Max(s)]) BY <1>1, <1>8, <1>10
  <2> QED BY <1>3, <1>10, <2>1, <2>2
<1>11. iter[1 .. m] \in P BY <1>1, <1>9, <1>10, FoldTyped
<1> QED BY <1>1, <1>2, <1>11 DEF P

\* What the buffer holds with the fragment p, and whether it is damaged then.
FuHeld(d, p) == Rtp!AppendRun(IF p.s THEN Rtp!AppendRun(<<>>, p.hdr) ELSE d.buf, p.parts[1])
FuLost(d, p) == IF p.s THEN FALSE ELSE d.lost \/ (d.lastSequence + 1) % SeqRange # p.seq

\* An unpacker like d that gave nothing so far.
Fresh(d) ==
    [timestamp |-> d.timestamp, lastSequence |-> d.lastSequence, lost |-> d.lost, buf |-> d.buf, frames |-> <<>>]

\* A frame at the end of some.
LEMMA FrameEnds ==
    ASSUME NEW fs, IsSeq(fs), NEW f
    PROVE  /\ IsSeq(Append(fs, f)) /\ Append(fs, f) # <<>>
           /\ \A k \in 1 .. Len(Append(fs, f)) : Append(fs, f)[k] = f \/ (k \in 1 .. Len(fs) /\ Append(fs, f)[k] = fs[k])
<1>1. Len(fs) \in Nat /\ Len(Append(fs, f)) = Len(fs) + 1 /\ IsSeq(Append(fs, f)) /\ Append(fs, f)[Len(fs) + 1] = f
      /\ \A k \in 1 .. Len(fs) : Append(fs, f)[k] = fs[k]
  BY SeqGrows
<1>2. \A k \in 1 .. Len(fs) + 1 : k = Len(fs) + 1 \/ k \in 1 .. Len(fs) BY <1>1
<1> DEFINE t == Append(fs, f)
<1>4. IsSeq(t) /\ Len(t) = Len(fs) + 1 BY <1>1
<1> HIDE DEF t
<1>5. t # <<>> BY <1>1, <1>4
<1> QED BY <1>1, <1>2, <1>5 DEF t

\* A fragment comes (UnPackFu).
LEMMA FuGiven ==
    ASSUME NEW d, d = Fresh(d), NEW p
    PROVE  LET x == Rtp!UnPackFu(d, p) IN
           /\ x.lastSequence = p.seq /\ x.lost = FuLost(d, p) /\ x.buf = (IF p.e THEN <<>> ELSE FuHeld(d, p))
           /\ IsSeq(x.frames)
           /\ \A k \in 1 .. Len(x.frames) :
                 ~x.frames[k].lost => p.e /\ ~FuLost(d, p) /\ x.frames[k].runs = FuHeld(d, p)
<1> DEFINE none == <<>>
           b == FuHeld(d, p)
           l == FuLost(d, p)
           left == [runs |-> d.buf, ts |-> d.timestamp, lost |-> TRUE]
           dropped == IF p.s /\ d.buf # <<>> THEN Rtp!Give(d, d.buf, d.timestamp, TRUE) ELSE d
           fs == IF p.s /\ d.buf # <<>> THEN Append(none, left) ELSE none
           held == IF p.s /\ d.buf # <<>> THEN none ELSE d.buf
           time == IF p.s THEN p.ts ELSE d.timestamp
           start == IF p.s THEN Rtp!AppendRun(none, p.hdr) ELSE d.buf
           begun == IF p.s
                    THEN [dropped EXCEPT !.timestamp = p.ts, !.buf = Rtp!AppendRun(@, p.hdr), !.lost = FALSE]
                    ELSE [dropped EXCEPT !.lost = @ \/ (d.lastSequence + 1) % SeqRange # p.seq]
           x == [begun EXCEPT !.lastSequence = p.seq, !.buf = Rtp!AppendRun(@, p.parts[1])]
           y == Rtp!UnPackFu(d, p)
<1>1. y = IF p.e THEN Rtp!Give(x, x.buf, x.timestamp, x.lost) ELSE x BY DEF Rtp!UnPackFu
<1>0. d = [timestamp |-> d.timestamp, lastSequence |-> d.lastSequence, lost |-> d.lost,
           buf |-> d.buf, frames |-> none] BY DEF Fresh
<1>2. dropped = [timestamp |-> d.timestamp, lastSequence |-> d.lastSequence, lost |-> d.lost, buf |-> held, frames |-> fs]
  <2>1. CASE p.s /\ d.buf # <<>>
    <3>1. dropped = [d EXCEPT !.frames = Append(d.frames, left), !.buf = none] BY <2>1 DEF Rtp!Give
    <3>2. d.frames = none BY <1>0
    <3>3. fs = Append(none, left) /\ held = none BY <2>1
    <3> DEFINE more == Append(none, left)
    <3>4. dropped = [d EXCEPT !.frames = more, !.buf = none] BY <3>1, <3>2
    <3> HIDE DEF none, left, dropped, more
    <3>5. dropped = [timestamp |-> d.timestamp, lastSequence |-> d.lastSequence, lost |-> d.lost, buf |-> none, frames |-> more]
      BY <1>0, <3>4
    <3> HIDE DEF fs, held
    <3> QED BY <3>3, <3>5 DEF more
  <2>2. CASE ~(p.s /\ d.buf # <<>>)
    <3>1. dropped = d /\ fs = none /\ held = d.buf BY <2>2
    <3> HIDE DEF none, dropped, fs, held
    <3> QED BY <1>0, <3>1
  <2> QED BY <2>1, <2>2
<1>3. begun = [timestamp |-> time, lastSequence |-> d.lastSequence, lost |-> l, buf |-> start, frames |-> fs]
  <2>1. CASE p.s
    <3>1. held = none BY <2>1
    <3>2. begun = [dropped EXCEPT !.timestamp = p.ts, !.buf = Rtp!AppendRun(dropped.buf, p.hdr), !.lost = FALSE] BY <2>1
    <3>3. time = p.ts /\ start = Rtp!AppendRun(none, p.hdr) /\ l = FALSE BY <2>1 DEF FuLost
    <3> HIDE DEF dropped, begun, none, held, fs, time, start, l
    <3>4. dropped.buf = none BY <1>2, <3>1
    <3> DEFINE first == Rtp!AppendRun(none, p.hdr)
    <3>5. begun = [dropped EXCEPT !.timestamp = p.ts, !.buf = first, !.lost = FALSE] BY <3>2, <3>4
    <3> HIDE DEF first
    <3>6. begun = [timestamp |-> p.ts, lastSequence |-> d.lastSequence, lost |-> FALSE, buf |-> first, frames |-> fs]
      BY <1>2, <3>5
    <3> QED BY <3>3, <3>6 DEF first
  <2>2. CASE ~p.s
    <3>1. held = d.buf /\ time = d.timestamp /\ start = d.buf BY <2>2
    <3>2. begun = [dropped EXCEPT !.lost = dropped.lost \/ (d.lastSequence + 1) % SeqRange # p.seq] BY <2>2
    <3>3. dropped.lost = d.lost
      <4> HIDE DEF dropped, held, fs
      <4> QED BY <1>2
    <3>4. begun = [dropped EXCEPT !.lost = l] BY <2>2, <3>2, <3>3 DEF FuLost
    <3> HIDE DEF dropped, begun, none, held, fs, time, start, l
    <3> QED BY <1>2, <3>1, <3>4
  <2> QED BY <2>1, <2>2
<1>4. x = [begun EXCEPT !.lastSequence = p.seq, !.buf = Rtp!AppendRun(begun.buf, p.parts[1])] OBVIOUS
<1> HIDE DEF begun, dropped, x
<1>5. b = Rtp!AppendRun(start, p.parts[1]) BY DEF FuHeld
<1> HIDE DEF start, b, l, time, fs
<1>6. begun.buf = start BY <1>3
<1>7. x = [begun EXCEPT !.lastSequence = p.seq, !.buf = b] BY <1>4, <1>5, <1>6
<1>8. x = [timestamp |-> time, lastSequence |-> p.seq, lost |-> l, buf |-> b, frames |-> fs] BY <1>3, <1>7
<1>9. IsSeq(fs) /\ \A k \in 1 .. Len(fs) : fs[k].lost
  <2>1. IsSeq(none) /\ Len(none) = 0 BY DEF IsSeq
  <2>2. IsSeq(Append(none, left)) /\ \A k \in 1 .. Len(Append(none, left)) : Append(none, left)[k] = left
    <3>1. \A k : k \notin 1 .. Len(none) BY <2>1
    <3> HIDE DEF none, left
    <3> QED BY <2>1, <3>1, FrameEnds, Zenon
  <2>3. left.lost OBVIOUS
  <2> HIDE DEF none, left
  <2> QED BY <2>1, <2>2, <2>3 DEF fs
<1>10. CASE ~p.e
  <2>1. y = x BY <1>1, <1>10
  <2>2. y.lastSequence = p.seq /\ y.lost = l /\ y.buf = b /\ y.frames = fs BY <1>8, <2>1
  <2> QED BY <1>9, <1>10, <2>2 DEF b, l
<1>11. CASE p.e
  <2> DEFINE f == [runs |-> x.buf, ts |-> x.timestamp, lost |-> x.lost]
             all == Append(x.frames, f)
  <2>1. y = [x EXCEPT !.frames = all, !.buf = none] BY <1>1, <1>11 DEF Rtp!Give
  <2>2. f.runs = b /\ f.lost = l /\ x.frames = fs BY <1>8
  <2>3. all = Append(fs, f) BY <2>2
  <2> HIDE DEF f, all, y, none
  <2>4. y.lastSequence = p.seq /\ y.lost = l /\ y.buf = none /\ y.frames = all BY <1>8, <2>1
  <2>5. IsSeq(all) /\ \A k \in 1 .. Len(all) : all[k] = f \/ (k \in 1 .. Len(fs) /\ all[k] = fs[k]) BY <1>9, <2>3, FrameEnds
  <2>6. \A k \in 1 .. Len(all) : ~all[k].lost => ~l /\ all[k].runs = b BY <1>9, <2>2, <2>5
  <2> QED BY <1>11, <2>4, <2>5, <2>6 DEF none, y, b, l
<1> QED BY <1>10, <1>11

\* A run that is a record of its fields.
LEMMA RunIs ==
    ASSUME NEW r \in Runs
    PROVE  r = [n |-> r.n, lo |-> r.lo, hi |-> r.hi] /\ r.n \in Nat /\ r.lo \in Int /\ r.hi \in Int
BY DEF Runs

\* A first run.
LEMMA AppendFirst ==
    ASSUME NEW r \in Runs
    PROVE  Rtp!AppendRun(<<>>, r) = IF r.lo = r.hi THEN <<>> ELSE <<r>>
<1>1. Append(<<>>, r) = <<r>> OBVIOUS
<1> QED BY <1>1 DEF Rtp!AppendRun

\* A run that begins where the only one ends.
LEMMA AppendJoins ==
    ASSUME NEW r \in Runs, NEW q \in Runs, q.n = r.n, q.lo = r.hi
    PROVE  Rtp!AppendRun(<<r>>, q) = <<[n |-> r.n, lo |-> r.lo, hi |-> q.hi]>>
<1>0. r = [n |-> r.n, lo |-> r.lo, hi |-> r.hi] BY RunIs
<1>1. <<r>> # <<>> /\ Len(<<r>>) = 1 /\ <<r>>[1] = r OBVIOUS
<1>2. CASE q.lo = q.hi
  <2>1. Rtp!AppendRun(<<r>>, q) = <<r>> BY <1>2 DEF Rtp!AppendRun
  <2>2. r.hi = q.hi BY <1>2
  <2> QED BY <1>0, <2>1, <2>2
<1>3. CASE q.lo # q.hi
  <2>1. Rtp!AppendRun(<<r>>, q) = [<<r>> EXCEPT ![1].hi = q.hi] BY <1>1, <1>3 DEF Rtp!AppendRun, Rtp!Last
  <2>2. [<<r>> EXCEPT ![1].hi = q.hi] = <<[r EXCEPT !.hi = q.hi]>> OBVIOUS
  <2>3. [r EXCEPT !.hi = q.hi] = [n |-> r.n, lo |-> r.lo, hi |-> q.hi] BY <1>0
  <2> QED BY <2>1, <2>2, <2>3
<1> QED BY <1>2, <1>3

\* Fragments end within a NAL unit, or with it.
LEMMA FuBuffers ==
    ASSUME NEW nals, nals \subseteq Runs, NEW p, FragmentOf(nals, p), NEW d, d.buf \in Buffers(nals)
    PROVE  FuHeld(d, p) \in Buffers(nals)
<1> DEFINE piece == p.parts[1]
           hdr == p.hdr
           start == IF p.s THEN Rtp!AppendRun(<<>>, hdr) ELSE d.buf
<1>1. PICK r \in nals :
         /\ hdr \in Runs /\ piece \in Runs /\ hdr.n = r.n /\ hdr.lo = r.lo /\ piece.n = r.n
         /\ r.lo < hdr.hi /\ hdr.hi <= piece.lo /\ piece.lo <= piece.hi /\ piece.hi <= r.hi
  BY DEF FragmentOf
<1>2. r \in Runs OBVIOUS
<1>3. r.lo < piece.hi /\ hdr.hi <= r.hi
  <2> HIDE DEF piece, hdr
  <2>1. /\ r.lo \in Int /\ r.hi \in Int /\ hdr.hi \in Int /\ piece.lo \in Int /\ piece.hi \in Int BY <1>1, <1>2, RunIs
  <2> QED BY <1>1, <2>1
<1>4. <<>> \in Buffers(nals) BY DEF Buffers
<1> HIDE DEF piece, hdr
<1>5. Rtp!AppendRun(<<>>, hdr) \in Buffers(nals) BY <1>1, <1>3, <1>4, AppendPiece
<1>6. start \in Buffers(nals) BY <1>5
<1> HIDE DEF start
<1>7. Rtp!AppendRun(start, piece) \in Buffers(nals) BY <1>1, <1>3, <1>6, AppendPiece
<1> QED BY <1>7 DEF FuHeld, start, hdr, piece

\* A fragment that begins one, or where the one before it ends, goes on from there
\* to its own end; a last fragment makes the NAL unit whole.
LEMMA FuJoins ==
    ASSUME NEW nals, nals \subseteq Runs, NEW p, FragmentOf(nals, p), NEW d,
           ~p.s => d.buf = <<[n |-> p.hdr.n, lo |-> p.hdr.lo, hi |-> p.parts[1].lo]>>
    PROVE  /\ FuHeld(d, p) = <<[n |-> p.hdr.n, lo |-> p.hdr.lo, hi |-> p.parts[1].hi]>>
           /\ p.e => \E r \in nals : FuHeld(d, p) = <<r>>
<1> DEFINE piece == p.parts[1]
           hdr == p.hdr
           q == [n |-> hdr.n, lo |-> hdr.lo, hi |-> piece.lo]
           start == IF p.s THEN Rtp!AppendRun(<<>>, hdr) ELSE d.buf
<1>1. PICK r \in nals :
         /\ hdr \in Runs /\ piece \in Runs /\ hdr.n = r.n /\ hdr.lo = r.lo /\ piece.n = r.n
         /\ r.lo < hdr.hi /\ (p.s => piece.lo = hdr.hi) /\ (p.e => piece.hi = r.hi)
  BY DEF FragmentOf
<1>2. /\ r = [n |-> r.n, lo |-> r.lo, hi |-> r.hi] /\ hdr = [n |-> hdr.n, lo |-> hdr.lo, hi |-> hdr.hi]
      /\ hdr.n \in Nat /\ hdr.lo \in Int /\ piece.lo \in Int /\ hdr.hi \in Int /\ r.lo \in Int
  <2>1. r \in Runs OBVIOUS
  <2> QED BY <1>1, <2>1, RunIs
<1>3. q \in Runs /\ q.n = piece.n /\ q.hi = piece.lo BY <1>1, <1>2 DEF Runs
<1>4. start = <<q>>
  <2>1. CASE p.s
    <3>1. hdr = q BY <1>1, <1>2, <2>1
    <3>2. hdr.lo # hdr.hi
      <4> HIDE DEF hdr, q
      <4> QED BY <1>1, <1>2
    <3>3. Rtp!AppendRun(<<>>, hdr) = <<hdr>> BY <1>1, <3>2, AppendFirst
    <3> QED BY <2>1, <3>1, <3>3
  <2>2. CASE ~p.s BY <2>2
  <2> QED BY <2>1, <2>2
<1>5. q.n = hdr.n /\ q.lo = hdr.lo OBVIOUS
<1>6. FuHeld(d, p) = Rtp!AppendRun(start, piece) BY DEF FuHeld
<1> HIDE DEF q, start, piece, hdr
<1>7. FuHeld(d, p) = <<[n |-> hdr.n, lo |-> hdr.lo, hi |-> piece.hi]>> BY <1>1, <1>3, <1>4, <1>5, <1>6, AppendJoins
<1>8. p.e => FuHeld(d, p) = <<r>>
  <2>1. p.e => [n |-> hdr.n, lo |-> hdr.lo, hi |-> piece.hi] = r BY <1>1, <1>2
  <2> QED BY <1>7, <2>1
<1> QED BY <1>7, <1>8 DEF hdr, piece

-------------------------------------------------------------------------------
(* A packet comes.                                                           *)

\* Packets have identities of their own.
Distinct(sent) == \A p \in sent, q \in sent : p.id = q.id => p = q

\* What came before stays what it was, and the packet came last.
LEMMA CameGrows ==
    ASSUME NEW sent, Distinct(sent), NEW p \in sent, p.id \in Nat \ {0}, NEW log \in Logs
    PROVE  LET t == Append(log, p.id)
               n == Len(log)
           IN  /\ n \in Nat /\ Len(t) = n + 1 /\ t[n + 1] = p.id /\ CameFrom(sent, t, n + 1) = p
               /\ \A i \in 1 .. n : t[i] = log[i] /\ CameFrom(sent, t, i) = CameFrom(sent, log, i)
               /\ \A m \in 1 .. n : \A i \in 1 .. m : RunFrom(sent, t, i, m) <=> RunFrom(sent, log, i, m)
<1> DEFINE t == Append(log, p.id)
           n == Len(log)
<1>1. n \in Nat /\ Len(t) = n + 1 /\ t[n + 1] = p.id /\ \A i \in 1 .. n : t[i] = log[i] BY LogGrows
<1>2. CameFrom(sent, t, n + 1) = p BY <1>1, Zenon DEF CameFrom, Distinct
<1>3. \A i \in 1 .. n : CameFrom(sent, t, i) = CameFrom(sent, log, i) BY <1>1, Zenon DEF CameFrom
<1>4. ASSUME NEW m \in 1 .. n, NEW i \in 1 .. m PROVE RunFrom(sent, t, i, m) <=> RunFrom(sent, log, i, m)
  <2> HIDE DEF t, n
  <2>1. i \in 1 .. n /\ \A j \in i + 1 .. m : j \in 1 .. n BY <1>1
  <2>2. CameFrom(sent, t, i) = CameFrom(sent, log, i) /\ \A j \in i + 1 .. m : CameFrom(sent, t, j) = CameFrom(sent, log, j)
    BY <1>3, <2>1
  <2> QED BY <2>2, Zenon DEF RunFrom
<1> QED BY <1>1, <1>2, <1>3, <1>4

\* Frames that were given stay what they were.
LEMMA UnsplicedStays ==
    ASSUME NEW cid, NEW frames, NEW sent, Distinct(sent), NEW p \in sent, p.id \in Nat \ {0}, NEW log \in Logs,
           NEW f, f.at \in 1 .. Len(log), Unspliced(cid, frames, sent, log, f)
    PROVE  Unspliced(cid, frames, sent, Append(log, p.id), f)
<1> DEFINE t == Append(log, p.id)
<1>1. CameFrom(sent, t, f.at) = CameFrom(sent, log, f.at)
      /\ \A i \in 1 .. f.at : RunFrom(sent, t, i, f.at) <=> RunFrom(sent, log, i, f.at)
  BY CameGrows
<1> HIDE DEF t
<1>2. Unspliced(cid, frames, sent, t, f) BY <1>1 DEF Unspliced
<1> QED BY <1>2 DEF t

\* What an unpacker may give for the packet p and keep of it.
TakenWell(cid, frames, sent, log, p, x) ==
    LET t == Append(log, p.id)
        n == Len(t)
    IN  cid # "ts" =>
        /\ BufferIs(cid, frames, sent, t, x) /\ IsSeq(x.frames)
        /\ \A k \in 1 .. Len(x.frames) : \A f : ~x.frames[k].lost /\ f.runs = x.frames[k].runs /\ f.at = n =>
              Unspliced(cid, frames, sent, t, f)

\* A packet that is no fragment ends what came before it.
LEMMA NoRunEnds ==
    ASSUME NEW sent, Distinct(sent), NEW p \in sent, p.id \in Nat \ {0}, NEW log \in Logs, p.kind # "fu", ~p.s
    PROVE  LET t == Append(log, p.id) IN
           \A i \in 1 .. Len(t) : ~RunFrom(sent, t, i, Len(t))
<1> DEFINE t == Append(log, p.id)
           n == Len(log)
<1>1. n \in Nat /\ Len(t) = n + 1 /\ CameFrom(sent, t, n + 1) = p BY CameGrows
<1>2. ~Follows(p) BY DEF Follows
<1> HIDE DEF t, n
<1>3. ASSUME NEW i \in 1 .. n + 1, RunFrom(sent, t, i, n + 1) PROVE FALSE
  <2>1. CASE i = n + 1 BY <1>1, <1>3, <2>1 DEF RunFrom
  <2>2. CASE i # n + 1
    <3>1. n + 1 \in i + 1 .. n + 1 BY <1>1, <2>2
    <3> QED BY <1>1, <1>2, <1>3, <3>1 DEF RunFrom
  <2> QED BY <2>1, <2>2
<1> QED BY <1>1, <1>3 DEF t

\* Whole NAL units are taken well.
LEMMA WholeTaken ==
    ASSUME NEW cid \in Rtp!H26x, NEW frames, NEW sent, Distinct(sent), NEW p \in sent, p.id \in Nat \ {0},
           NEW log \in Logs, p.kind # "fu", ~p.s, NEW d, NEW x \in Taking(NalsOf(frames), p.ts, d)
    PROVE  TakenWell(cid, frames, sent, log, p, x)
<1> DEFINE t == Append(log, p.id)
           n == Len(t)
           nals == NalsOf(frames)
           W == WholeEnds(nals, p.ts)
<1>1. x.buf \in Buffers(nals) /\ x.frames \in Seq(W) BY TakingHas
<1>2. \A i \in 1 .. n : ~RunFrom(sent, t, i, n) BY NoRunEnds
<1>3. CameFrom(sent, t, n) = p BY CameGrows
<1>4. IsSeq(x.frames) /\ \A k \in 1 .. Len(x.frames) : x.frames[k] \in W BY <1>1, SeqRanges, SeqHas
<1>5. cid \notin Audio BY DEF Audio, Rtp!H26x
<1> HIDE DEF t, n
<1>6. BufferIs(cid, frames, sent, t, x) BY <1>1, <1>2 DEF BufferIs, n
<1>7. ASSUME NEW k \in 1 .. Len(x.frames), NEW f, f.runs = x.frames[k].runs, f.at = n
      PROVE  Unspliced(cid, frames, sent, t, f)
  <2>1. f.runs # <<>> /\ f.runs[Len(f.runs)] \in nals BY <1>4, <1>7 DEF WholeEnds
  <2> QED BY <1>3, <1>5, <1>7, <2>1 DEF Unspliced
<1> QED BY <1>4, <1>6, <1>7 DEF TakenWell, t, n

\* So is an audio frame.
LEMMA AudioTaken ==
    ASSUME NEW cid \in Audio, NEW frames, NEW sent, NEW p, NEW log, NEW ts,
           NEW runs \in WholeFrames(frames), NEW x, x.frames = <<[runs |-> runs, ts |-> ts, lost |-> FALSE]>>
    PROVE  TakenWell(cid, frames, sent, log, p, x)
<1>1. cid \notin Rtp!H26x BY DEF Audio, Rtp!H26x
<1>2. IsSeq(x.frames)
  <2>1. <<[runs |-> runs, ts |-> ts, lost |-> FALSE]>> \in Seq({[runs |-> runs, ts |-> ts, lost |-> FALSE]}) OBVIOUS
  <2> QED BY <2>1, SeqRanges
<1>3. \A k \in 1 .. Len(x.frames) : x.frames[k].runs = runs OBVIOUS
<1>4. BufferIs(cid, frames, sent, Append(log, p.id), x) BY <1>1 DEF BufferIs
<1> QED BY <1>1, <1>2, <1>3, <1>4 DEF TakenWell, Unspliced

\* So is a fragment: it goes on where the one before it ended, or it is known to be damaged.
LEMMA FuTaken ==
    ASSUME NEW cid \in Rtp!H26x, NEW frames, Framed(frames), NEW sent, Distinct(sent),
           NEW p \in sent, p.id \in Nat \ {0}, p.kind = "fu", FragmentOf(NalsOf(frames), p),
           NEW log \in Logs, CameAre(sent, log),
           ~p.s => \E q \in sent : q.id = p.id - 1 /\ Linked(q, p),
           \A q \in sent : Len(log) > 0 /\ q.id = log[Len(log)] /\ (q.seq + 1) % SeqRange = p.seq => q.id = p.id - 1,
           NEW d, BufferIs(cid, frames, sent, log, d),
           d = Fresh(d)
    PROVE  TakenWell(cid, frames, sent, log, p, Rtp!UnPackFu(d, p))
<1> DEFINE t == Append(log, p.id)
           n == Len(log)
           nals == NalsOf(frames)
           x == Rtp!UnPackFu(d, p)
           b == FuHeld(d, p)
           whole == <<[n |-> p.hdr.n, lo |-> p.hdr.lo, hi |-> p.parts[1].hi]>>
<1>1. /\ n \in Nat /\ Len(t) = n + 1 /\ CameFrom(sent, t, n + 1) = p
      /\ \A i \in 1 .. n : CameFrom(sent, t, i) = CameFrom(sent, log, i)
      /\ \A m \in 1 .. n : \A i \in 1 .. m : RunFrom(sent, t, i, m) <=> RunFrom(sent, log, i, m)
  BY CameGrows
<1>2. /\ x.lastSequence = p.seq /\ x.lost = FuLost(d, p) /\ x.buf = (IF p.e THEN <<>> ELSE b)
      /\ IsSeq(x.frames)
      /\ \A k \in 1 .. Len(x.frames) : ~x.frames[k].lost => p.e /\ ~FuLost(d, p) /\ x.frames[k].runs = b
  BY FuGiven
<1>3. nals \subseteq Runs BY NalsApart
<1>4. b \in Buffers(nals) /\ <<>> \in Buffers(nals)
  <2>1. d.buf \in Buffers(nals) BY DEF BufferIs
  <2>2. <<>> \in Buffers(nals) BY DEF Buffers
  <2> QED BY <1>3, <2>1, <2>2, FuBuffers
<1>5. cid \notin Audio BY DEF Audio, Rtp!H26x
<1> HIDE DEF t, n, x, b, nals, whole
<1>6. ASSUME ~FuLost(d, p), NEW i \in 1 .. n + 1, RunFrom(sent, t, i, n + 1)
      PROVE  b = whole /\ (p.e => \E r \in nals : b = <<r>>)
  <2>1. CASE p.s BY <1>3, <2>1, FuJoins DEF b, whole, nals
  <2>2. CASE ~p.s
    <3>1. ~d.lost /\ (d.lastSequence + 1) % SeqRange = p.seq BY <1>6, <2>2 DEF FuLost
    <3>2. i # n + 1 BY <1>1, <1>6, <2>2 DEF RunFrom
    <3>3. i \in 1 .. n /\ n \in 1 .. n /\ n > 0 BY <1>1, <3>2
    <3>4. RunFrom(sent, t, i, n)
      <4>1. \A j \in i + 1 .. n : j \in i + 1 .. n + 1 BY <1>1
      <4> QED BY <1>6, <4>1 DEF RunFrom
    <3>5. RunFrom(sent, log, i, n) BY <1>1, <3>3, <3>4
    <3> DEFINE q == CameFrom(sent, log, n)
    <3>6. Holds(d, q) BY <3>1, <3>3, <3>5 DEF BufferIs, n
    <3>7. q \in sent /\ q.id = log[n] BY <3>3, Zenon DEF CameFrom, CameAre, n
    <3> HIDE DEF q
    <3>8. (q.seq + 1) % SeqRange = p.seq BY <3>1, <3>6 DEF Holds
    <3>9. q.id = p.id - 1 BY <3>3, <3>7, <3>8 DEF n
    <3>10. Linked(q, p)
      <4>1. PICK o \in sent : o.id = p.id - 1 /\ Linked(o, p) BY <2>2
      <4>2. o = q BY <3>7, <3>9, <4>1 DEF Distinct
      <4> QED BY <4>1, <4>2
    <3>11. d.buf = <<[n |-> p.hdr.n, lo |-> p.hdr.lo, hi |-> p.parts[1].lo]>> BY <3>6, <3>10 DEF Holds, Linked
    <3>12. FragmentOf(nals, p) BY DEF nals
    <3>13. ~p.s => d.buf = <<[n |-> p.hdr.n, lo |-> p.hdr.lo, hi |-> p.parts[1].lo]>> BY <3>11
    <3>14. FuHeld(d, p) = <<[n |-> p.hdr.n, lo |-> p.hdr.lo, hi |-> p.parts[1].hi]>> BY <1>3, <3>12, <3>13, FuJoins
    <3>15. p.e => \E r \in nals : FuHeld(d, p) = <<r>> BY <1>3, <3>12, <3>13, FuJoins
    <3> QED BY <3>14, <3>15 DEF b, whole
  <2> QED BY <2>1, <2>2
<1>7. BufferIs(cid, frames, sent, t, x)
  <2>1. x.buf \in Buffers(nals) BY <1>2, <1>4
  <2>2. ASSUME ~x.lost, NEW i \in 1 .. n + 1, RunFrom(sent, t, i, n + 1) PROVE Holds(x, p)
    <3>1. b = whole BY <1>2, <1>6, <2>2
    <3> QED BY <1>2, <3>1 DEF Holds, whole
  <2> QED BY <1>1, <2>1, <2>2 DEF BufferIs, nals
<1>8. ASSUME NEW k \in 1 .. Len(x.frames), ~x.frames[k].lost, NEW f, f.runs = x.frames[k].runs, f.at = n + 1
      PROVE  Unspliced(cid, frames, sent, t, f)
  <2>1. p.e /\ ~FuLost(d, p) /\ f.runs = b BY <1>2, <1>8
  <2>2. ASSUME NEW i \in 1 .. n + 1, RunFrom(sent, t, i, n + 1) PROVE \E r \in nals : f.runs = <<r>>
    BY <1>6, <2>1, <2>2
  <2> QED BY <1>1, <1>5, <1>8, <2>2 DEF Unspliced, nals
<1> QED BY <1>1, <1>2, <1>7, <1>8 DEF TakenWell, t, x

\* What is taken well goes to what was given.
LEMMA TakenGrows ==
    ASSUME NEW cid, NEW frames, NEW sent, Distinct(sent), NEW p \in sent, p.id \in Nat \ {0}, NEW log \in Logs,
           NEW d, NEW fs, WholeIs(cid, frames, sent, log, d, fs),
           NEW x, TakenWell(cid, frames, sent, log, p, x),
           NEW y, y.buf = x.buf, y.lost = x.lost, y.lastSequence = x.lastSequence,
           NEW new, IsSeq(new), Len(new) = Len(x.frames),
           \A k \in 1 .. Len(new) : /\ new[k].runs = x.frames[k].runs /\ new[k].lost = x.frames[k].lost
                                    /\ new[k].at = Len(log) + 1
    PROVE  WholeIs(cid, frames, sent, Append(log, p.id), y, fs \o new)
<1> DEFINE t == Append(log, p.id)
           n == Len(log)
           all == fs \o new
<1>1. n \in Nat /\ Len(t) = n + 1 /\ t[n + 1] = p.id /\ \A i \in 1 .. n : t[i] = log[i] BY LogGrows
<1>2. FramesAre(cid, frames) /\ PiecesAre(cid, frames, sent) /\ CameAre(sent, log) /\ FramesGiven(cid, frames, sent, log, fs)
  BY DEF WholeIs
<1> HIDE DEF t, all
<1>3. CameAre(sent, t)
  <2> SUFFICES ASSUME NEW i \in 1 .. n + 1 PROVE \E q \in sent : q.id = t[i] BY <1>1 DEF CameAre
  <2>1. CASE i = n + 1 BY <1>1, <2>1
  <2>2. CASE i # n + 1
    <3>1. i \in 1 .. n BY <1>1, <2>2
    <3> QED BY <1>1, <1>2, <3>1 DEF CameAre
  <2> QED BY <2>1, <2>2
<1>4. cid = "ts" => BufferIs(cid, frames, sent, t, y) BY DEF BufferIs, Rtp!H26x
<1>5. cid # "ts" => BufferIs(cid, frames, sent, t, y)
  <2>1. cid # "ts" => BufferIs(cid, frames, sent, t, x) BY DEF TakenWell, t
  <2> QED BY <2>1 DEF BufferIs, Holds
<1>6. ASSUME cid # "ts" PROVE FramesGiven(cid, frames, sent, t, all)
  <2>1. IsSeq(fs) /\ \A i \in 1 .. Len(fs) :
           fs[i].at \in 1 .. n /\ (~fs[i].lost => Unspliced(cid, frames, sent, log, fs[i]))
    BY <1>2, <1>6 DEF FramesGiven
  <2>2. /\ IsSeq(x.frames)
        /\ \A k \in 1 .. Len(x.frames) : \A f : ~x.frames[k].lost /\ f.runs = x.frames[k].runs /\ f.at = n + 1 =>
              Unspliced(cid, frames, sent, t, f)
    BY <1>1, <1>6 DEF TakenWell, t
  <2>4. /\ IsSeq(all) /\ Len(all) = Len(fs) + Len(new) /\ Len(fs) \in Nat /\ Len(new) \in Nat
        /\ \A i \in 1 .. Len(fs) + Len(new) : all[i] = IF i <= Len(fs) THEN fs[i] ELSE new[i - Len(fs)]
    BY <2>1, SeqBehind DEF all
  <2> DEFINE l == Len(fs)
             m == Len(new)
  <2> HIDE DEF l, m
  <2>6. /\ l \in Nat /\ m \in Nat /\ \A i \in 1 .. l + m : all[i] = IF i <= l THEN fs[i] ELSE new[i - l]
    BY <2>4 DEF l, m
  <2>5. ASSUME NEW i \in 1 .. l + m
        PROVE  all[i].at \in 1 .. n + 1 /\ (~all[i].lost => Unspliced(cid, frames, sent, t, all[i]))
    <3>1. CASE i <= l
      <4>0. i \in 1 .. l /\ all[i] = fs[i] BY <2>6, <3>1
      <4>1. i \in 1 .. Len(fs) /\ all[i] = fs[i] BY <4>0 DEF l
      <4>2. fs[i].at \in 1 .. n /\ fs[i].at \in 1 .. n + 1 BY <1>1, <2>1, <4>1
      <4>3. ~fs[i].lost => Unspliced(cid, frames, sent, t, fs[i]) BY <2>1, <4>1, <4>2, UnsplicedStays DEF t
      <4> QED BY <4>1, <4>2, <4>3
    <3>2. CASE ~(i <= l)
      <4> DEFINE k == i - l
      <4>1. k \in 1 .. m /\ all[i] = new[k] BY <2>6, <3>2
      <4>2. k \in 1 .. Len(x.frames) /\ k \in 1 .. Len(new) BY <4>1 DEF m
      <4> HIDE DEF k
      <4>3. new[k].runs = x.frames[k].runs /\ new[k].lost = x.frames[k].lost /\ new[k].at = n + 1 BY <4>2
      <4>4. n + 1 \in 1 .. n + 1 BY <1>1
      <4>5. ~new[k].lost => Unspliced(cid, frames, sent, t, new[k]) BY <2>2, <4>2, <4>3
      <4> QED BY <4>1, <4>3, <4>4, <4>5
    <3> QED BY <3>1, <3>2
  <2> QED BY <1>1, <2>4, <2>5 DEF FramesGiven, l, m
<1>7. FramesGiven(cid, frames, sent, t, all) BY <1>6 DEF FramesGiven
<1>8. WholeIs(cid, frames, sent, t, y, all) BY <1>2, <1>3, <1>4, <1>5, <1>7 DEF WholeIs
<1> QED BY <1>8 DEF t, all

\* Of the packets that were sent, no two are the same, and their numbers are theirs.
LEMMA SentFacts ==
    ASSUME RtpInvariant
    PROVE  /\ Distinct(Sent)
           /\ \A p \in Sent : p.id \in Nat \ {0} /\ p.seq = NumberOf(p.id)
           /\ \A i \in 1 .. Len(wire.pkts) : wire.pkts[i] \in Sent
<1>1. PacketsOk BY DEF RtpInvariant
<1>2. \A i \in 1 .. Len(wire.pkts) :
         LET p == wire.pkts[i] IN
         /\ p.id \in Nat \ {0} /\ p.seq = NumberOf(p.id)
         /\ \A j \in 1 .. Len(wire.pkts) : wire.pkts[j].id = p.id => i = j
  BY <1>1 DEF PacketsOk
<1>3. Distinct(Sent) BY <1>2 DEF Distinct, Sent
<1> QED BY <1>2, <1>3 DEF Sent

\* What comes next is a packet that was sent; if its number is the next to that of the
\* packet before, it is the one behind that.
LEMMA NextComes ==
    ASSUME 2 * MaxFaults + 2 < SeqRange, RtpInvariant, Rtp!Reading
    PROVE  LET p == wire.pkts[wire.rd] IN
           /\ p \in Sent /\ wire.log \in Logs
           /\ \A q \in Sent : Len(wire.log) > 0 /\ q.id = wire.log[Len(wire.log)] /\ (q.seq + 1) % SeqRange = p.seq =>
                 q.id = p.id - 1
<1> DEFINE p == wire.pkts[wire.rd]
           n == Len(wire.log)
<1>1. wire.rd \in 1 .. Len(wire.pkts) /\ wire.log \in Logs BY ReadingFacts
<1>2. p \in Sent /\ \A q \in Sent : q.id \in Nat \ {0} /\ q.seq = NumberOf(q.id) BY <1>1, SentFacts
<1> HIDE DEF p, n
<1>3. ASSUME NEW q \in Sent, n > 0, q.id = wire.log[n], (q.seq + 1) % SeqRange = p.seq PROVE q.id = p.id - 1
  <2>1. q.id - p.id <= 2 * MaxFaults + 1 /\ p.id - q.id <= 2 * MaxFaults + 1 BY <1>3, NextIsNear DEF p, n
  <2>2. SeqRange \in Nat \ {0} /\ mux.first \in Int
    <3>1. mux.first \in Numbers BY DEF RtpInvariant, PackerOk
    <3> QED BY <3>1, RtpConstants DEF Numbers
  <2> DEFINE z == mux.first + q.id - 1
             w == mux.first + p.id - 1
  <2>3. z \in Int /\ w \in Int /\ z + 1 \in Int BY <1>2, <2>2
  <2>4. q.seq = z % SeqRange /\ p.seq = w % SeqRange BY <1>2 DEF NumberOf
  <2>5. ((z % SeqRange) + 1) % SeqRange = (z + 1) % SeqRange BY <2>2, <2>3, NumbersOn
  <2>6. (z + 1) % SeqRange = w % SeqRange BY <1>3, <2>4, <2>5
  <2>7. (z + 1) - w < SeqRange /\ w - (z + 1) < SeqRange
    <3>1. MaxFaults \in Nat BY RtpConstants
    <3> QED BY <1>2, <2>1, <2>2, <3>1
  <2> HIDE DEF z, w
  <2>8. z + 1 = w BY <2>2, <2>3, <2>6, <2>7, SameNumber
  <2> QED BY <1>2, <2>2, <2>8 DEF z, w
<1> QED BY <1>1, <1>2, <1>3 DEF p, n

\* The unpacker of the codec takes a packet.
TakenOf(cid, d, p) == CASE cid = "h264" -> Rtp!UnPackH264(d, p)
                        [] cid = "h265" -> Rtp!UnPackH265(d, p)
                        [] cid = "ts"   -> Rtp!UnPackTs(d, p)
                        [] cid = "aac"  -> Rtp!UnPackAac(d, p)
                        [] cid = "g711" -> Rtp!UnPackG711(d, p)

\* One that holds what it may and gave what it may.
LEMMA InTaking ==
    ASSUME NEW nals, NEW ts, NEW d, NEW b \in Buffers(nals), NEW fs \in Seq(WholeEnds(nals, ts)), NEW a,
           a = [timestamp |-> d.timestamp, lastSequence |-> d.lastSequence, lost |-> d.lost, buf |-> b, frames |-> fs]
    PROVE  a \in Taking(nals, ts, d)
BY DEF Taking

\* Whatever the codec, it takes it well.
LEMMA AllTaken ==
    ASSUME NEW cid \in {u.cid : u \in RtpUnits}, NEW frames, NEW sent, Distinct(sent),
           NEW p \in sent, p.id \in Nat \ {0}, NEW log \in Logs,
           \A q \in sent : Len(log) > 0 /\ q.id = log[Len(log)] /\ (q.seq + 1) % SeqRange = p.seq => q.id = p.id - 1,
           NEW d, NEW e, NEW fs, WholeIs(cid, frames, sent, log, e, fs),
           d = Fresh(e)
    PROVE  TakenWell(cid, frames, sent, log, p, TakenOf(cid, d, p))
<1> DEFINE nals == NalsOf(frames)
           ts == p.ts
           x == TakenOf(cid, d, p)
<1>1. FramesAre(cid, frames) /\ PiecesAre(cid, frames, sent) /\ CameAre(sent, log) /\ BufferIs(cid, frames, sent, log, e)
  BY DEF WholeIs
<1>2. cid \in {"h264", "h265", "ts", "aac", "g711"}
  BY PacketsAssumption DEF Rtp!RtpAssumption, Rtp!H26x
<1>3. /\ d.timestamp = e.timestamp /\ d.lastSequence = e.lastSequence /\ d.lost = e.lost /\ d.buf = e.buf
      /\ d.frames = <<>>
      /\ d = Fresh(d)
  BY DEF Fresh
<1>4. BufferIs(cid, frames, sent, log, d) BY <1>1, <1>3 DEF BufferIs, Holds
<1>5. CASE cid \in Rtp!H26x
  <2>1. Framed(frames) BY <1>1, <1>5 DEF Framed, FramesAre
  <2>2. PieceOf(nals, p) /\ (Follows(p) => \E q \in sent : q.id = p.id - 1 /\ Linked(q, p)) BY <1>1, <1>5 DEF PiecesAre
  <2>3. nals \subseteq Runs BY <2>1, NalsApart
  <2>4. d \in Taking(nals, ts, d)
    <3>1. d.buf \in Buffers(nals) BY <1>4, <1>5 DEF BufferIs
    <3> DEFINE none == <<>>
    <3>2. none \in Seq(WholeEnds(nals, ts)) OBVIOUS
    <3> HIDE DEF nals, ts
    <3>3. d = [timestamp |-> d.timestamp, lastSequence |-> d.lastSequence, lost |-> d.lost, buf |-> d.buf, frames |-> none]
      BY <1>3 DEF Fresh
    <3> HIDE DEF none
    <3> QED BY <3>1, <3>2, <3>3, InTaking
  <2> HIDE DEF nals, ts
  <2>5. CASE p.kind = "fu"
    <3>1. FragmentOf(nals, p) BY <2>2, <2>5 DEF PieceOf
    <3>2. ~p.s => \E q \in sent : q.id = p.id - 1 /\ Linked(q, p) BY <2>2, <2>5 DEF Follows
    <3>3. TakenWell(cid, frames, sent, log, p, Rtp!UnPackFu(d, p)) BY <1>1, <1>3, <1>4, <1>5, <2>1, <2>5, <3>1, <3>2, FuTaken DEF nals
    <3>4. Rtp!UnPackH264(d, p) = Rtp!UnPackFu(d, p) /\ Rtp!UnPackH265(d, p) = Rtp!UnPackFu(d, p)
      BY <2>5 DEF Rtp!UnPackH264, Rtp!UnPackH265
    <3>5. x = Rtp!UnPackFu(d, p) BY <1>5, <3>4 DEF TakenOf, Rtp!H26x
    <3> QED BY <3>3, <3>5
  <2>6. CASE p.kind = "single"
    <3>1. ~p.s /\ p.kind # "fu" BY <2>2, <2>6 DEF PieceOf
    <3>2. PICK r \in nals : p.parts = <<r>> BY <2>2, <2>6 DEF PieceOf
    <3>3. p.parts[1] = r BY <3>2
    <3>4. Rtp!UnPackSingle(d, r, ts) \in Taking(nals, ts, d) BY <2>1, <2>4, SingleGiven DEF nals
    <3>5. Rtp!UnPackH264(d, p) = Rtp!UnPackSingle(d, r, ts)
          /\ (Rtp!UnPackH265(d, p) = d \/ Rtp!UnPackH265(d, p) = Rtp!UnPackSingle(d, r, ts))
      BY <2>6, <3>3 DEF Rtp!UnPackH264, Rtp!UnPackH265, ts
    <3>6. x = d \/ x = Rtp!UnPackSingle(d, r, ts) BY <1>5, <3>5 DEF TakenOf, Rtp!H26x
    <3>7. x \in Taking(nals, ts, d) BY <2>4, <3>4, <3>6
    <3> QED BY <1>5, <3>1, <3>7, WholeTaken DEF nals, ts
  <2>7. CASE p.kind = "stap"
    <3>1. ~p.s /\ p.kind # "fu" /\ p.parts \in Seq(nals) /\ p.parts # <<>> BY <2>2, <2>7 DEF PieceOf, Bundles
    <3>2. p.parts[1] \in nals
      <4>1. Len(p.parts) \in Nat /\ Len(p.parts) # 0 /\ \A i \in 1 .. Len(p.parts) : p.parts[i] \in nals BY <3>1, SeqHas
      <4> QED BY <4>1, OneOrMore, Zenon
    <3>3. Rtp!UnPackSingle(d, p.parts[1], ts) \in Taking(nals, ts, d) BY <2>1, <2>4, <3>2, SingleGiven DEF nals
    <3>4. Rtp!UnPackStapa(d, p) \in Taking(nals, ts, d) BY <2>1, <2>4, <3>1, StapGiven DEF nals, ts
    <3>5. Rtp!UnPackH264(d, p) = Rtp!UnPackStapa(d, p) /\ Rtp!UnPackH265(d, p) = Rtp!UnPackSingle(d, p.parts[1], ts)
      BY <2>7 DEF Rtp!UnPackH264, Rtp!UnPackH265, ts
    <3>6. x \in Taking(nals, ts, d) BY <1>5, <3>3, <3>4, <3>5 DEF TakenOf, Rtp!H26x
    <3> QED BY <1>5, <3>1, <3>6, WholeTaken DEF nals, ts
  <2> QED BY <2>2, <2>5, <2>6, <2>7 DEF PieceOf
<1>6. CASE cid \in Audio
  <2>1. p.parts \in WholeFrames(frames) BY <1>1, <1>6 DEF PiecesAre
  <2>2. <<p.parts[1]>> = p.parts BY <2>1 DEF WholeFrames
  <2>3. x = Rtp!Give(d, p.parts, ts, FALSE) BY <1>6, <2>2 DEF TakenOf, Audio, Rtp!UnPackAac, Rtp!UnPackG711
  <2>4. x.frames = <<[runs |-> p.parts, ts |-> ts, lost |-> FALSE]>>
    <3> DEFINE none == <<>>
               f == [runs |-> p.parts, ts |-> ts, lost |-> FALSE]
               more == Append(none, f)
    <3>1. more = <<f>> OBVIOUS
    <3>2. d.frames = none BY <1>3
    <3>3. x = [d EXCEPT !.frames = Append(d.frames, f), !.buf = none] BY <2>3 DEF Rtp!Give
    <3>4. d = [timestamp |-> d.timestamp, lastSequence |-> d.lastSequence, lost |-> d.lost, buf |-> d.buf, frames |-> none]
      BY <1>3 DEF Fresh
    <3> HIDE DEF x, f, none
    <3>5. x = [d EXCEPT !.frames = more, !.buf = none] BY <3>2, <3>3
    <3> HIDE DEF more
    <3>6. x.frames = more BY <3>4, <3>5
    <3> QED BY <3>1, <3>6 DEF f
  <2> HIDE DEF x, ts
  <2>5. TakenWell(cid, frames, sent, log, p, x) BY <1>6, <2>1, <2>4, AudioTaken
  <2> QED BY <2>5 DEF x
<1>7. CASE cid = "ts" BY <1>7 DEF TakenWell
<1> QED BY <1>2, <1>5, <1>6, <1>7 DEF Audio, Rtp!H26x

\* What the unpacker counts besides does not matter.
LEMMA WholeStays ==
    ASSUME NEW cid, NEW frames, NEW sent, NEW log, NEW d, NEW fs, WholeIs(cid, frames, sent, log, d, fs),
           NEW y, y.buf = d.buf, y.lost = d.lost, y.lastSequence = d.lastSequence
    PROVE  WholeIs(cid, frames, sent, log, y, fs)
BY DEF WholeIs, BufferIs, Holds

\* Nor does where the receiver is.
LEMMA QuietWhole ==
    ASSUME WholeInvariant, given' = given, got' = got, Sent' = Sent, wire'.log = wire.log,
           mux'.cid = mux.cid, mux'.sps = mux.sps, mux'.pps = mux.pps, ~mux'.closed => ~mux.closed,
           dem'.buf = dem.buf, dem'.lost = dem.lost, dem'.lastSequence = dem.lastSequence
    PROVE  WholeInvariant'
<1>1. HeldOk' BY DEF WholeInvariant, HeldOk
<1>2. NothingYet' BY DEF WholeInvariant, NothingYet
<1>3. WholeIs(mux.cid, given, Sent, wire.log, dem', got) BY WholeStays DEF WholeInvariant
<1>4. WholeIs(mux'.cid, given', Sent', wire'.log, dem', got') BY <1>3
<1> QED BY <1>1, <1>2, <1>4 DEF WholeInvariant

\* Steps of the network and of the RtcpContext.
LEMMA NetworkWhole ==
    ASSUME RtpInvariant, WholeInvariant, Rtp!Close \/ Rtp!Lose \/ Rtp!GenerateRR
    PROVE  WholeInvariant'
<1>1. /\ mux \in [cid : {au.cid : au \in RtpUnits}, stap : BOOLEAN, sequence : Numbers, sps : Runs, pps : Runs,
                  ts : Int, first : Numbers, closed : BOOLEAN]
      /\ wire = [pkts |-> wire.pkts, rd |-> wire.rd, lost |-> wire.lost, twice |-> wire.twice,
                 moved |-> wire.moved, log |-> wire.log]
  BY DEF RtpInvariant, PackerOk, WireTyped
<1>2. CASE Rtp!Close
  <2>1. mux' = [mux EXCEPT !.closed = TRUE] /\ wire' = wire /\ dem' = dem /\ given' = given /\ got' = got
    BY <1>2 DEF Rtp!Close
  <2>2. mux'.cid = mux.cid /\ mux'.sps = mux.sps /\ mux'.pps = mux.pps /\ mux'.closed = TRUE BY <1>1, <2>1
  <2>3. Sent' = Sent BY <2>1 DEF Sent
  <2> QED BY <2>1, <2>2, <2>3, QuietWhole
<1>3. CASE Rtp!Lose
  <2>1. wire'.pkts = wire.pkts /\ wire'.log = wire.log /\ mux' = mux /\ dem' = dem /\ given' = given /\ got' = got
    BY <1>1, <1>3 DEF Rtp!Lose
  <2>2. Sent' = Sent BY <2>1 DEF Sent
  <2> QED BY <2>1, <2>2, QuietWhole
<1>4. CASE Rtp!GenerateRR
  <2>1. mux' = mux /\ wire' = wire /\ given' = given /\ got' = got BY <1>4 DEF Rtp!GenerateRR
  <2>2. dem = [timestamp |-> dem.timestamp, lastSequence |-> dem.lastSequence, lost |-> dem.lost,
               buf |-> dem.buf, ctx |-> dem.ctx, reports |-> dem.reports]
    BY DEF RtpInvariant, CountsOk
  <2> DEFINE r == Rtp!Rtcp!Report(dem.ctx).ctx
             all == Append(dem.reports, [highest |-> Rtp!Rtcp!Report(dem.ctx).block.highest, lost |-> Rtp!Rtcp!Report(dem.ctx).block.lost,
                                         fraction |-> Rtp!Rtcp!Report(dem.ctx).block.fraction, at |-> Len(wire.log)])
  <2>3. dem' = [dem EXCEPT !.ctx = r, !.reports = all] BY <1>4 DEF Rtp!GenerateRR
  <2> HIDE DEF r, all
  <2>4. dem'.buf = dem.buf /\ dem'.lost = dem.lost /\ dem'.lastSequence = dem.lastSequence BY <2>2, <2>3
  <2>5. Sent' = Sent BY <2>1 DEF Sent
  <2> QED BY <2>1, <2>4, <2>5, QuietWhole
<1> QED BY <1>2, <1>3, <1>4

\* Packets that change places stay the packets that were sent.
LEMMA OvertakeWhole ==
    ASSUME RtpInvariant, WholeInvariant, Rtp!Overtake
    PROVE  WholeInvariant'
<1> DEFINE rd == wire.rd
           m == Len(wire.pkts)
           t == [wire.pkts EXCEPT ![rd] = wire.pkts[rd + 1], ![rd + 1] = wire.pkts[rd]]
           at(i) == IF i = rd THEN rd + 1 ELSE IF i = rd + 1 THEN rd ELSE i
<1>1. Rtp!Reading /\ rd < m /\ mux' = mux /\ dem' = dem /\ given' = given /\ got' = got BY DEF Rtp!Overtake
<1>2. /\ rd \in 1 .. m /\ m \in Nat /\ DOMAIN wire.pkts = 1 .. m
      /\ wire = [pkts |-> wire.pkts, rd |-> wire.rd, lost |-> wire.lost, twice |-> wire.twice,
                 moved |-> wire.moved, log |-> wire.log]
  BY <1>1, ReadingFacts, SeqGrows
<1>3. wire' = [wire EXCEPT !.moved = @ + 1, !.pkts = t] BY DEF Rtp!Overtake
<1>4. IsSeq(wire.pkts) BY <1>1, ReadingFacts
<1>5. t = [i \in DOMAIN wire.pkts |-> t[i]] BY DEF t
<1>6. IsSeq(t) /\ Len(t) = m
  <2> HIDE DEF t
  <2> QED BY <1>4, <1>5, SeqAt
<1>7. \A i \in 1 .. m : at(i) \in 1 .. m /\ at(at(i)) = i /\ t[i] = wire.pkts[at(i)] BY <1>1, <1>2
<1> HIDE DEF t, at, rd
<1>8. wire'.pkts = t /\ wire'.log = wire.log BY <1>2, <1>3
<1>9. Sent' = {t[i] : i \in 1 .. m} BY <1>6, <1>8 DEF Sent
<1>10. Sent = {wire.pkts[i] : i \in 1 .. m} BY DEF Sent
<1> HIDE DEF m
<1>11. \A i \in 1 .. m : t[i] \in Sent BY <1>7, <1>10
<1>12. \A i \in 1 .. m : wire.pkts[i] \in {t[j] : j \in 1 .. m}
  <2> SUFFICES ASSUME NEW i \in 1 .. m PROVE wire.pkts[i] \in {t[j] : j \in 1 .. m} OBVIOUS
  <2>1. at(i) \in 1 .. m /\ t[at(i)] = wire.pkts[at(at(i))] /\ at(at(i)) = i BY <1>7
  <2> QED BY <2>1
<1>13. Sent' = Sent BY <1>9, <1>10, <1>11, <1>12
<1> QED BY <1>1, <1>8, <1>13, QuietWhole

\* A packet comes.
LEMMA ReceiveWhole ==
    ASSUME 2 * MaxFaults + 2 < SeqRange, RtpInvariant, WholeInvariant, Rtp!Deliver \/ Rtp!DeliverTwice
    PROVE  WholeInvariant'
<1> DEFINE p == wire.pkts[wire.rd]
           d == Fresh(dem)
           x == TakenOf(mux.cid, d, p)
           new == [k \in DOMAIN x.frames |-> Rtp!OnFrame(x.frames[k])]
           t == Append(wire.log, p.id)
           ctx == Rtp!Rtcp!UpdateSeq(dem.ctx, p.seq)
<1>1. Rtp!Reading /\ Rtp!Receive(wire.rd) BY Zenon DEF Rtp!Deliver, Rtp!DeliverTwice
<1>2. /\ dem' = [dem EXCEPT !.timestamp = x.timestamp, !.lastSequence = x.lastSequence,
                            !.lost = x.lost, !.buf = x.buf, !.ctx = ctx]
      /\ got' = got \o new /\ mux' = mux /\ given' = given
  BY <1>1, Zenon DEF Rtp!Receive, TakenOf, Fresh
<1>3. dem = [timestamp |-> dem.timestamp, lastSequence |-> dem.lastSequence, lost |-> dem.lost,
             buf |-> dem.buf, ctx |-> dem.ctx, reports |-> dem.reports]
  BY DEF RtpInvariant, CountsOk
<1>4. /\ wire = [pkts |-> wire.pkts, rd |-> wire.rd, lost |-> wire.lost, twice |-> wire.twice,
                 moved |-> wire.moved, log |-> wire.log]
      /\ mux.closed /\ mux.cid \in {u.cid : u \in RtpUnits}
  BY <1>1, ReadingFacts DEF RtpInvariant, PackerOk
<1>5. wire'.pkts = wire.pkts /\ wire'.log = t
  <2>1. \/ wire' = [wire EXCEPT !.rd = @ + 1, !.log = t]
        \/ wire' = [wire EXCEPT !.twice = @ + 1, !.log = t]
    BY DEF Rtp!Deliver, Rtp!DeliverTwice
  <2> HIDE DEF t
  <2> QED BY <1>4, <2>1
<1>6. /\ Distinct(Sent) /\ p \in Sent /\ p.id \in Nat \ {0} /\ wire.log \in Logs
      /\ \A q \in Sent : Len(wire.log) > 0 /\ q.id = wire.log[Len(wire.log)] /\ (q.seq + 1) % SeqRange = p.seq =>
            q.id = p.id - 1
  BY <1>1, SentFacts, NextComes
<1>7. WholeIs(mux.cid, given, Sent, wire.log, dem, got) BY DEF WholeInvariant
<1> HIDE DEF p
<1>8. TakenWell(mux.cid, given, Sent, wire.log, p, x) BY <1>4, <1>6, <1>7, AllTaken
<1> HIDE DEF x, d, t, ctx
<1>9. dem'.buf = x.buf /\ dem'.lost = x.lost /\ dem'.lastSequence = x.lastSequence BY <1>2, <1>3
<1>10. ASSUME mux.cid # "ts" PROVE WholeIs(mux.cid, given, Sent, t, dem', got')
  <2>1. IsSeq(x.frames) BY <1>8, <1>10 DEF TakenWell
  <2>2. Len(x.frames) \in Nat /\ DOMAIN x.frames = 1 .. Len(x.frames) BY <2>1, SeqGrows
  <2>3. new = [k \in DOMAIN x.frames |-> new[k]] BY DEF new
  <2>4. \A k \in 1 .. Len(x.frames) :
           /\ new[k].runs = x.frames[k].runs /\ new[k].lost = x.frames[k].lost /\ new[k].at = Len(wire.log) + 1
    BY <2>2 DEF new, Rtp!OnFrame
  <2> HIDE DEF new
  <2>5. IsSeq(new) /\ Len(new) = Len(x.frames) BY <2>1, <2>3, SeqAt
  <2>6. WholeIs(mux.cid, given, Sent, t, dem', got \o new) BY <1>6, <1>7, <1>8, <1>9, <2>4, <2>5, TakenGrows DEF t
  <2> QED BY <1>2, <2>6
<1>11. ASSUME mux.cid = "ts" PROVE WholeIs(mux.cid, given, Sent, t, dem', got')
  <2> HIDE DEF new
  <2> DEFINE none == <<>>
             y == [buf |-> dem'.buf, lost |-> dem'.lost, lastSequence |-> dem'.lastSequence, frames |-> none]
  <2>1. IsSeq(none) /\ Len(none) = 0
    <3>1. <<>> \in Seq({}) OBVIOUS
    <3> QED BY <3>1, SeqRanges
  <2>2. TakenWell(mux.cid, given, Sent, wire.log, p, y) BY <1>11 DEF TakenWell
  <2> HIDE DEF none
  <2>3. y.buf = dem'.buf /\ y.lost = dem'.lost /\ y.lastSequence = dem'.lastSequence /\ y.frames = none OBVIOUS
  <2> HIDE DEF y
  <2>6. Len(none) = Len(y.frames) /\ \A k \in 1 .. Len(none) :
           /\ none[k].runs = y.frames[k].runs /\ none[k].lost = y.frames[k].lost /\ none[k].at = Len(wire.log) + 1
    BY <2>1, <2>3
  <2>4. WholeIs(mux.cid, given, Sent, t, dem', got \o none) BY <1>6, <1>7, <2>1, <2>2, <2>3, <2>6, TakenGrows DEF t
  <2>5. WholeIs(mux.cid, given, Sent, t, dem', got') BY <1>11, <2>4 DEF WholeIs, FramesGiven
  <2> QED BY <2>5
<1>12. WholeIs(mux.cid, given, Sent, t, dem', got') BY <1>10, <1>11
<1>13. Sent' = Sent BY <1>5 DEF Sent
<1>14. HeldOk' /\ NothingYet' BY <1>2, <1>4 DEF WholeInvariant, HeldOk, NothingYet
<1> QED BY <1>2, <1>5, <1>12, <1>13, <1>14 DEF WholeInvariant

\* With another frame there are its NAL units, and those there were.
LEMMA NalsGrow ==
    ASSUME NEW frames, IsSeq(frames), NEW f
    PROVE  LET t == Append(frames, f)
               n == Len(frames) + 1
           IN  /\ NalsOf(frames) \subseteq NalsOf(t) /\ WholeFrames(frames) \subseteq WholeFrames(t)
               /\ \A k \in DOMAIN f.au.nals : Rtp!NalRun(f.au, n, k) \in NalsOf(t)
               /\ <<[n |-> n, lo |-> 0, hi |-> Rtp!SizeOfUnit(f.au)]>> \in WholeFrames(t)
<1> DEFINE t == Append(frames, f)
           m == Len(frames)
           of(i) == {Rtp!NalRun(t[i].au, i, k) : k \in DOMAIN t[i].au.nals}
           whole(i) == <<[n |-> i, lo |-> 0, hi |-> Rtp!SizeOfUnit(t[i].au)]>>
<1>1. /\ m \in Nat /\ IsSeq(t) /\ Len(t) = m + 1 /\ t[m + 1] = f
      /\ \A i \in 1 .. m : t[i] = frames[i]
  BY SeqGrows
<1>2. NalsOf(t) = UNION {of(i) : i \in 1 .. m + 1} /\ WholeFrames(t) = {whole(i) : i \in 1 .. m + 1}
  BY <1>1 DEF NalsOf, WholeFrames
<1>3. NalsOf(frames) = UNION {of(i) : i \in 1 .. m} /\ WholeFrames(frames) = {whole(i) : i \in 1 .. m}
  BY <1>1 DEF NalsOf, WholeFrames
<1>4. whole(m + 1) = <<[n |-> m + 1, lo |-> 0, hi |-> Rtp!SizeOfUnit(f.au)]>> BY <1>1
<1>5. \A k \in DOMAIN f.au.nals : Rtp!NalRun(f.au, m + 1, k) \in of(m + 1) BY <1>1
<1> HIDE DEF t, of, whole, m
<1>6. (\A i \in 1 .. m : i \in 1 .. m + 1) /\ m + 1 \in 1 .. m + 1 BY <1>1
<1>7. NalsOf(frames) \subseteq NalsOf(t) /\ of(m + 1) \subseteq NalsOf(t) BY <1>2, <1>3, <1>6
<1>8. WholeFrames(frames) \subseteq WholeFrames(t) /\ whole(m + 1) \in WholeFrames(t) BY <1>2, <1>3, <1>6
<1> QED BY <1>4, <1>5, <1>7, <1>8 DEF t, m

\* A packet for NAL units is one for more of them, and so is one like it.
LEMMA PieceStays ==
    ASSUME NEW nals, NEW more, nals \subseteq more, NEW p, PieceOf(nals, p), NEW q, q.kind = p.kind, q.parts = p.parts,
           q.s = p.s, q.e = p.e, q.hdr = p.hdr
    PROVE  PieceOf(more, q)
<1>1. ASSUME p.kind = "fu" PROVE FragmentOf(more, q)
  <2>1. PICK r \in nals : LET piece == p.parts[1] IN
           /\ p.hdr \in Runs /\ piece \in Runs /\ p.parts = <<piece>>
           /\ p.hdr.n = r.n /\ p.hdr.lo = r.lo /\ piece.n = r.n
           /\ r.lo < p.hdr.hi /\ p.hdr.hi <= piece.lo /\ piece.lo <= piece.hi /\ piece.hi <= r.hi
           /\ p.s => piece.lo = p.hdr.hi
           /\ p.e => piece.hi = r.hi
    BY <1>1 DEF PieceOf, FragmentOf
  <2>2. r \in more OBVIOUS
  <2> QED BY <2>1, <2>2 DEF FragmentOf
<1>2. ASSUME p.kind = "single" PROVE ~q.s /\ \E r \in more : q.parts = <<r>> BY <1>2 DEF PieceOf
<1>3. ASSUME p.kind = "stap" PROVE ~q.s /\ q.parts \in Bundles(more)
  <2>1. p.parts \in Seq(nals) /\ p.parts # <<>> /\ ~p.s BY <1>3 DEF PieceOf, Bundles
  <2>2. p.parts \in Seq(more) BY <2>1
  <2> QED BY <2>1, <2>2 DEF Bundles
<1> QED BY <1>1, <1>2, <1>3 DEF PieceOf

\* What a sequence holds.
Entries(s) == {s[i] : i \in 1 .. Len(s)}

\* The packets of another frame are pieces of it.
LEMMA PiecesGrow ==
    ASSUME NEW cid, NEW frames, IsSeq(frames), NEW f, NEW old, IsSeq(old),
           PiecesAre(cid, frames, Entries(old)),
           NEW pkts, IsSeq(pkts), NEW new, IsSeq(new), Len(new) = Len(pkts),
           \A i \in 1 .. Len(pkts) :
              /\ new[i].id = Len(old) + i /\ new[i].kind = pkts[i].kind /\ new[i].parts = pkts[i].parts
              /\ new[i].s = pkts[i].s /\ new[i].e = pkts[i].e /\ new[i].hdr = pkts[i].hdr,
           cid \in Rtp!H26x => pkts \in Chains(NalsOf(Append(frames, f))),
           cid \in Audio => \A i \in 1 .. Len(pkts) : pkts[i].parts \in WholeFrames(Append(frames, f))
    PROVE  PiecesAre(cid, Append(frames, f), Entries(old \o new))
<1> DEFINE t == Append(frames, f)
           all == old \o new
           m == Len(old)
           k == Len(new)
           was == Entries(old)
           sent == {all[i] : i \in 1 .. Len(all)}
<1>1. /\ Len(all) = m + k /\ m \in Nat /\ k \in Nat
      /\ \A i \in 1 .. m + k : all[i] = IF i <= m THEN old[i] ELSE new[i - m]
  BY SeqBehind
<1>2. NalsOf(frames) \subseteq NalsOf(t) /\ WholeFrames(frames) \subseteq WholeFrames(t) BY NalsGrow
<1>3. \A i \in 1 .. k :
         /\ new[i].id = m + i /\ new[i].kind = pkts[i].kind /\ new[i].parts = pkts[i].parts
         /\ new[i].s = pkts[i].s /\ new[i].e = pkts[i].e /\ new[i].hdr = pkts[i].hdr
  OBVIOUS
<1>4. k = Len(pkts) OBVIOUS
<1>50. was = {old[i] : i \in 1 .. Len(old)} BY DEF Entries
<1> HIDE DEF all, m, k, t, was
<1>5. \A i \in 1 .. m : old[i] \in sent
  <2> SUFFICES ASSUME NEW i \in 1 .. m PROVE old[i] \in sent OBVIOUS
  <2>1. i \in 1 .. m + k /\ all[i] = old[i] BY <1>1
  <2> QED BY <1>1, <2>1
<1>6. \A i \in 1 .. k : new[i] \in sent
  <2> SUFFICES ASSUME NEW i \in 1 .. k PROVE new[i] \in sent OBVIOUS
  <2>1. m + i \in 1 .. m + k /\ ~(m + i <= m) /\ (m + i) - m = i BY <1>1
  <2>2. all[m + i] = new[i] BY <1>1, <2>1
  <2> QED BY <1>1, <2>1, <2>2
<1>7. ASSUME NEW p \in sent PROVE p \in was \/ \E i \in 1 .. k : p = new[i]
  <2>1. PICK i \in 1 .. m + k : p = all[i] BY <1>1
  <2>2. CASE i <= m
    <3>1. i \in 1 .. m /\ p = old[i] BY <1>1, <2>1, <2>2
    <3> QED BY <1>50, <3>1 DEF m
  <2>3. CASE ~(i <= m)
    <3>1. i - m \in 1 .. k /\ p = new[i - m] BY <1>1, <2>1, <2>3
    <3> QED BY <3>1
  <2> QED BY <2>2, <2>3
<1>8. was \subseteq sent BY <1>5, <1>50 DEF m
<1> HIDE DEF sent
<1>9. ASSUME cid \in Rtp!H26x, NEW p \in sent
      PROVE  PieceOf(NalsOf(t), p) /\ (Follows(p) => \E q \in sent : q.id = p.id - 1 /\ Linked(q, p))
  <2>1. CASE p \in was
    <3>1. PieceOf(NalsOf(frames), p) /\ (Follows(p) => \E q \in was : q.id = p.id - 1 /\ Linked(q, p))
      BY <1>9, <2>1 DEF PiecesAre, was
    <3>2. PieceOf(NalsOf(t), p) BY <1>2, <3>1, PieceStays
    <3> QED BY <1>8, <3>1, <3>2
  <2>2. ASSUME NEW i \in 1 .. k, p = new[i]
        PROVE  PieceOf(NalsOf(t), p) /\ (Follows(p) => \E q \in sent : q.id = p.id - 1 /\ Linked(q, p))
    <3>1. pkts \in Chains(NalsOf(t)) BY <1>9 DEF t
    <3>2. pkts \in Seq(Pieces(NalsOf(t))) /\ \A j \in 1 .. Len(pkts) : Follows(pkts[j]) => j > 1 /\ Linked(pkts[j - 1], pkts[j])
      BY <3>1 DEF Chains
    <3>3. i \in 1 .. Len(pkts) BY <1>4
    <3>4. pkts[i] \in Pieces(NalsOf(t)) BY <3>2, <3>3, SeqHas
    <3>5. PieceOf(NalsOf(t), pkts[i]) BY <3>4 DEF Pieces
    <3>6. PieceOf(NalsOf(t), p)
      <4>1. p.kind = pkts[i].kind /\ p.parts = pkts[i].parts /\ p.s = pkts[i].s /\ p.e = pkts[i].e /\ p.hdr = pkts[i].hdr
        BY <1>3, <2>2
      <4>2. NalsOf(t) \subseteq NalsOf(t) OBVIOUS
      <4> QED BY <3>5, <4>1, <4>2, PieceStays
    <3>7. ASSUME Follows(p) PROVE \E q \in sent : q.id = p.id - 1 /\ Linked(q, p)
      <4>1. Follows(pkts[i]) BY <1>3, <2>2, <3>7 DEF Follows
      <4>2. i > 1 /\ Linked(pkts[i - 1], pkts[i]) BY <3>2, <3>3, <4>1
      <4>3. i - 1 \in 1 .. k /\ m + (i - 1) = (m + i) - 1
        <5>1. \A a, b, c \in Nat : c \in 1 .. b /\ c > 1 => c - 1 \in 1 .. b /\ a + (c - 1) = (a + c) - 1 OBVIOUS
        <5>2. i \in Nat /\ i > 1 BY <1>1, <4>2
        <5> QED BY <1>1, <5>1, <5>2
      <4>4. new[i - 1].id = p.id - 1 BY <1>3, <2>2, <4>3
      <4>5. Linked(new[i - 1], new[i])
        <5> DEFINE j == i - 1
        <5>1. j \in 1 .. k /\ Linked(pkts[j], pkts[i]) BY <4>2, <4>3
        <5> HIDE DEF j
        <5>2. Linked(new[j], new[i]) BY <1>3, <5>1 DEF Linked
        <5> QED BY <5>2 DEF j
      <4> QED BY <1>6, <2>2, <4>3, <4>4, <4>5
    <3> QED BY <3>6, <3>7
  <2> QED BY <1>7, <2>1, <2>2
<1>10. ASSUME cid \in Audio, NEW p \in sent PROVE p.parts \in WholeFrames(t)
  <2>1. CASE p \in was
    <3>1. p.parts \in WholeFrames(frames) BY <1>10, <2>1 DEF PiecesAre, was
    <3> QED BY <1>2, <3>1
  <2>2. ASSUME NEW i \in 1 .. k, p = new[i] PROVE p.parts \in WholeFrames(t)
    <3>1. i \in 1 .. Len(pkts) BY <1>4
    <3>2. pkts[i].parts \in WholeFrames(t) BY <1>10, <3>1 DEF t
    <3> QED BY <1>3, <2>2, <3>2
  <2> QED BY <1>7, <2>1, <2>2
<1>11. PiecesAre(cid, t, sent) BY <1>9, <1>10 DEF PiecesAre
<1> QED BY <1>11 DEF t, sent, all, Entries

\* A frame is packed.
LEMMA PackWhole ==
    ASSUME RtpInvariant, WholeInvariant, NEW au \in RtpUnits, NEW step \in {0, 1}, Rtp!Pack(au, step)
    PROVE  WholeInvariant'
<1> DEFINE n == Len(given) + 1
           x == PackedOf(au, n)
           f == [au |-> au, ts |-> mux.ts + step]
           t == Append(given, f)
           nals == NalsOf(t)
           old == wire.pkts
           new == Rtp!Numbered(x.pkts, mux.ts + step)
           cid == mux.cid
<1>1. /\ ~mux.closed /\ given' = t /\ au.cid = cid
      /\ wire' = [wire EXCEPT !.pkts = @ \o new]
      /\ mux' = [mux EXCEPT !.sequence = (@ + Len(x.pkts)) % SeqRange, !.ts = @ + step, !.sps = x.sps, !.pps = x.pps]
      /\ dem' = dem /\ got' = got
  BY DEF Rtp!Pack, PackedOf
<1>2. /\ IsSeq(given) /\ mux.sps \in Runs /\ mux.pps \in Runs /\ mux.sequence \in Int /\ IsSeq(old)
      /\ mux \in [cid : {u.cid : u \in RtpUnits}, stap : BOOLEAN, sequence : Numbers, sps : Runs, pps : Runs,
                  ts : Int, first : Numbers, closed : BOOLEAN]
      /\ wire = [pkts |-> wire.pkts, rd |-> wire.rd, lost |-> wire.lost, twice |-> wire.twice,
                 moved |-> wire.moved, log |-> wire.log]
      /\ wire.log = <<>>
  <2>1. PackerOk /\ WireTyped /\ LogOk BY DEF RtpInvariant
  <2>2. mux.sequence \in Numbers /\ Numbers \subseteq Int BY <2>1, RtpConstants DEF PackerOk, Numbers
  <2> QED BY <1>1, <2>1, <2>2 DEF PackerOk, WireTyped, LogOk
<1>3. Len(old) \in Nat /\ n \in Nat BY <1>2, SeqGrows
<1>4. HeldOk /\ FramesAre(cid, given) /\ PiecesAre(cid, given, Sent) /\ got = <<>> /\ dem.buf = <<>>
  BY <1>1 DEF WholeInvariant, WholeIs, NothingYet
<1>5. /\ NalsOf(given) \subseteq nals /\ WholeFrames(given) \subseteq WholeFrames(t)
      /\ \A k \in DOMAIN au.nals : Rtp!NalRun(au, n, k) \in nals
      /\ <<[n |-> n, lo |-> 0, hi |-> Rtp!SizeOfUnit(au)]>> \in WholeFrames(t)
  <2>1. f.au = au OBVIOUS
  <2> HIDE DEF f
  <2> QED BY <1>2, <2>1, NalsGrow
<1>6. FramesAre(cid, t)
  <2>1. /\ IsSeq(t) /\ Len(t) = Len(given) + 1 /\ t[Len(given) + 1] = f /\ Len(given) \in Nat
        /\ \A i \in 1 .. Len(given) : t[i] = given[i]
    BY <1>2, SeqGrows
  <2>2. f.au = au OBVIOUS
  <2> HIDE DEF f, t
  <2>3. ASSUME NEW i \in 1 .. Len(t) PROVE t[i].au \in RtpUnits /\ t[i].au.cid = cid
    <3>1. CASE i = Len(given) + 1 BY <1>1, <2>1, <2>2, <3>1
    <3>2. CASE i # Len(given) + 1
      <4>1. i \in 1 .. Len(given) BY <2>1, <3>2
      <4> QED BY <1>4, <2>1, <4>1 DEF FramesAre
    <3> QED BY <3>1, <3>2
  <2> QED BY <2>1, <2>3 DEF FramesAre
<1>7. x.sps \in Runs /\ x.pps \in Runs /\ IsSeq(x.pkts) BY <1>2, <1>3, PackedType DEF PackedOk
<1>8. ASSUME cid \in Rtp!H26x PROVE PackedIn(nals, x)
  <2>1. Framed(t) BY <1>6, <1>8 DEF Framed, FramesAre
  <2>2. nals \subseteq Runs BY <2>1, NalsApart
  <2>3. mux.sps \in nals \cup {Rtp!NoRun} /\ mux.pps \in nals \cup {Rtp!NoRun} BY <1>4, <1>5, <1>8 DEF HeldOk
  <2> HIDE DEF n, t, nals
  <2>4. PackedIn(nals, Rtp!PackH264(au, n)) /\ PackedIn(nals, Rtp!PackH265(au, n))
    BY <1>3, <1>5, <2>2, <2>3, PackH264Type, PackH265Type
  <2> QED BY <1>1, <1>8, <2>4 DEF PackedOf, Rtp!H26x
<1>9. ASSUME cid \in Audio PROVE \A i \in 1 .. Len(x.pkts) : x.pkts[i].parts \in WholeFrames(t)
  <2> DEFINE whole == <<[n |-> n, lo |-> 0, hi |-> Rtp!SizeOfUnit(au)]>>
  <2>1. x \in {Rtp!PackAac(au, n), Rtp!PackG711(au, n)} BY <1>1, <1>9 DEF PackedOf, Audio
  <2>2. x.pkts # <<>> => x.pkts = <<Rtp!Packet(au.cid, whole)>> BY <1>2, <1>3, <2>1, PackAudioType
  <2>3. Rtp!Packet(au.cid, whole).parts = whole BY DEF Rtp!Packet
  <2>4. whole \in WholeFrames(t) BY <1>5
  <2> HIDE DEF x, whole, t
  <2>5. CASE x.pkts = <<>> BY <2>5
  <2>6. CASE x.pkts = <<Rtp!Packet(au.cid, whole)>>
    <3>1. \A i \in 1 .. Len(x.pkts) : x.pkts[i] = Rtp!Packet(au.cid, whole) BY <2>6
    <3> QED BY <2>3, <2>4, <3>1
  <2> QED BY <2>2, <2>5, <2>6
<1> HIDE DEF x
<1>10. /\ IsSeq(new) /\ Len(new) = Len(x.pkts)
       /\ \A i \in 1 .. Len(x.pkts) :
             /\ new[i].id = Len(old) + i /\ new[i].kind = x.pkts[i].kind /\ new[i].parts = x.pkts[i].parts
             /\ new[i].s = x.pkts[i].s /\ new[i].e = x.pkts[i].e /\ new[i].hdr = x.pkts[i].hdr
  BY <1>2, <1>3, <1>7, NumberedIs
<1> HIDE DEF new, n
<1>11. wire'.pkts = old \o new /\ wire'.log = <<>> BY <1>1, <1>2
<1>12. /\ mux'.sps = x.sps /\ mux'.pps = x.pps /\ mux'.cid = cid
  <2> DEFINE s == (mux.sequence + Len(x.pkts)) % SeqRange
             u == mux.ts + step
  <2>1. mux' = [mux EXCEPT !.sequence = s, !.ts = u, !.sps = x.sps, !.pps = x.pps] BY <1>1
  <2> HIDE DEF s, u
  <2> QED BY <1>2, <2>1
<1>13. PiecesAre(cid, t, Sent')
  <2>1. PiecesAre(cid, given, Entries(old)) BY <1>4 DEF Sent, Entries
  <2>2. Sent' = Entries(old \o new) BY <1>11 DEF Sent, Entries
  <2>3. cid \in Rtp!H26x => x.pkts \in Chains(NalsOf(Append(given, f))) BY <1>8 DEF PackedIn
  <2>4. cid \in Audio => \A i \in 1 .. Len(x.pkts) : x.pkts[i].parts \in WholeFrames(Append(given, f)) BY <1>9
  <2>5. IsSeq(given) /\ IsSeq(old) /\ IsSeq(x.pkts) BY <1>2, <1>7
  <2> DEFINE pkts == x.pkts
  <2>6. IsSeq(pkts) /\ (cid \in Rtp!H26x => pkts \in Chains(NalsOf(Append(given, f))))
        /\ (cid \in Audio => \A i \in 1 .. Len(pkts) : pkts[i].parts \in WholeFrames(Append(given, f)))
    BY <2>3, <2>4, <2>5
  <2>7. /\ IsSeq(new) /\ Len(new) = Len(pkts)
        /\ \A i \in 1 .. Len(pkts) :
              /\ new[i].id = Len(old) + i /\ new[i].kind = pkts[i].kind /\ new[i].parts = pkts[i].parts
              /\ new[i].s = pkts[i].s /\ new[i].e = pkts[i].e /\ new[i].hdr = pkts[i].hdr
    BY <1>10
  <2> HIDE DEF old, f, pkts, cid
  <2>8. PiecesAre(cid, Append(given, f), Entries(old \o new))
    BY <2>1, <2>5, <2>6, <2>7, PiecesGrow
  <2> QED BY <2>2, <2>8
<1>14. HeldOk' BY <1>1, <1>8, <1>12 DEF HeldOk, PackedIn
<1>15. NothingYet' BY <1>1, <1>4 DEF NothingYet
<1> HIDE DEF t, f
<1>16. WholeIs(cid, t, Sent', <<>>, dem, <<>>)
  <2>1. BufferIs(cid, t, Sent', <<>>, dem)
    <3>1. dem.buf \in Buffers(NalsOf(t)) BY <1>4 DEF Buffers
    <3> QED BY <3>1 DEF BufferIs
  <2>2. CameAre(Sent', <<>>) BY DEF CameAre
  <2>3. FramesGiven(cid, t, Sent', <<>>, <<>>)
    <3>1. <<>> \in Seq({}) OBVIOUS
    <3>2. IsSeq(<<>>) BY <3>1, SeqRanges
    <3> QED BY <3>2 DEF FramesGiven
  <2> QED BY <1>6, <1>13, <2>1, <2>2, <2>3 DEF WholeIs
<1> QED BY <1>1, <1>4, <1>11, <1>12, <1>14, <1>15, <1>16 DEF WholeInvariant

\* Nothing was given or sent.
LEMMA InitWhole == ASSUME Rtp!Init PROVE WholeInvariant
<1>1. /\ wire.pkts = <<>> /\ wire.log = <<>> /\ given = <<>> /\ got = <<>> /\ dem.buf = <<>>
      /\ mux.sps = Rtp!NoRun /\ mux.pps = Rtp!NoRun
  BY DEF Rtp!Init
<1>2. HeldOk /\ NothingYet BY <1>1 DEF HeldOk, NothingYet
<1>3. IsSeq(<<>>)
  <2>1. <<>> \in Seq({}) OBVIOUS
  <2> QED BY <2>1, SeqRanges
<1>4. Sent = {} BY <1>1 DEF Sent
<1>5. FramesAre(mux.cid, given) BY <1>1, <1>3 DEF FramesAre
<1>6. PiecesAre(mux.cid, given, Sent) BY <1>4 DEF PiecesAre
<1>7. CameAre(Sent, wire.log) BY <1>1 DEF CameAre
<1>8. BufferIs(mux.cid, given, Sent, wire.log, dem)
  <2>1. dem.buf \in Buffers(NalsOf(given)) BY <1>1 DEF Buffers
  <2> QED BY <1>1, <2>1 DEF BufferIs
<1>9. FramesGiven(mux.cid, given, Sent, wire.log, got) BY <1>1, <1>3 DEF FramesGiven
<1> QED BY <1>2, <1>5, <1>6, <1>7, <1>8, <1>9 DEF WholeInvariant, WholeIs

\* Every step keeps frames whole.
LEMMA WholeStep ==
    ASSUME 2 * MaxFaults + 2 < SeqRange, RtpInvariant, WholeInvariant, [Rtp!Next]_Rtp!vars
    PROVE  WholeInvariant'
<1>1. ASSUME NEW au \in RtpUnits, Rtp!Pack(au, 1) \/ Rtp!Pack(au, 0) PROVE WholeInvariant'
  <2>1. 0 \in {0, 1} /\ 1 \in {0, 1} OBVIOUS
  <2> QED BY <1>1, <2>1, PackWhole
<1>2. CASE Rtp!Close BY <1>2, NetworkWhole
<1>3. CASE Rtp!Deliver BY <1>3, ReceiveWhole
<1>4. CASE Rtp!DeliverTwice BY <1>4, ReceiveWhole
<1>5. CASE Rtp!Overtake BY <1>5, OvertakeWhole
<1>6. CASE Rtp!Lose BY <1>6, NetworkWhole
<1>7. CASE Rtp!GenerateRR BY <1>7, NetworkWhole
<1>8. CASE UNCHANGED Rtp!vars
  <2>1. mux' = mux /\ wire' = wire /\ dem' = dem /\ given' = given /\ got' = got BY <1>8 DEF Rtp!vars
  <2>2. Sent' = Sent BY <2>1 DEF Sent
  <2> QED BY <2>1, <2>2, QuietWhole
<1> QED BY <1>1, <1>2, <1>3, <1>4, <1>5, <1>6, <1>7, <1>8 DEF Rtp!Next

\* What the property says of a frame follows.
LEMMA WholeNotSpliced ==
    ASSUME RtpInvariant, WholeInvariant, mux.cid # "ts"
    PROVE  Rtp!NeverSpliced
<1> DEFINE cid == mux.cid
           log == wire.log
<1>1. /\ IsSeq(given) /\ IsSeq(wire.pkts) /\ cid \in {u.cid : u \in RtpUnits}
      /\ IsSeq(got)
      /\ \A i \in 1 .. Len(got) : got[i].at \in 1 .. Len(log) /\ (~got[i].lost => Unspliced(cid, given, Sent, log, got[i]))
  BY DEF RtpInvariant, PackerOk, WireTyped, WholeInvariant, WholeIs, FramesGiven
<1>2. cid \in {"h264", "h265", "aac", "g711"}
  BY <1>1, PacketsAssumption DEF Rtp!RtpAssumption, Rtp!H26x
<1>3. DOMAIN given = 1 .. Len(given) /\ DOMAIN got = 1 .. Len(got) /\ DOMAIN wire.pkts = 1 .. Len(wire.pkts)
  BY <1>1, SeqGrows
<1>4. \A i : Rtp!Came(i) = CameFrom(Sent, log, i)
  <2>1. Rtp!ToSet(wire.pkts) = Sent BY <1>3 DEF Rtp!ToSet, Sent
  <2> QED BY <2>1 DEF Rtp!Came, Rtp!PacketWith, CameFrom
<1>5. \A r \in NalsOf(given) : \A runs : Len(runs) = 1 /\ runs[1] = r => Rtp!IsWhole(runs)
  <2> SUFFICES ASSUME NEW r \in NalsOf(given), NEW runs, Len(runs) = 1, runs[1] = r PROVE Rtp!IsWhole(runs) OBVIOUS
  <2>1. PICK n \in 1 .. Len(given) : \E k \in DOMAIN given[n].au.nals : r = Rtp!NalRun(given[n].au, n, k) BY DEF NalsOf
  <2>2. PICK k \in DOMAIN given[n].au.nals : r = Rtp!NalRun(given[n].au, n, k) BY <2>1
  <2>3. n \in DOMAIN given BY <1>3
  <2>4. <<n, k>> \in Rtp!Nals BY <2>2, <2>3 DEF Rtp!Nals
  <2>5. Rtp!Whole(<<n, k>>) = r BY <2>2 DEF Rtp!Whole
  <2> QED BY <2>4, <2>5 DEF Rtp!IsWhole
<1> HIDE DEF log
<1>6. ASSUME NEW i \in DOMAIN got, ~got[i].lost
      PROVE  /\ cid \in Rtp!H26x /\ Rtp!Fragment(got[i].at) /\ Rtp!Unbroken(got[i]) => Rtp!IsWhole(got[i].runs)
             /\ cid \in Rtp!H26x /\ ~Rtp!Fragment(got[i].at) => Rtp!IsWhole(<<Rtp!Last(got[i].runs)>>)
             /\ cid \in Audio =>
                   got[i].runs = <<[n |-> got[i].runs[1].n, lo |-> 0, hi |-> Rtp!SizeOfUnit(given[got[i].runs[1].n].au)]>>
  <2> DEFINE g == got[i]
             c == CameFrom(Sent, log, g.at)
  <2>1. g.at \in 1 .. Len(log) /\ Unspliced(cid, given, Sent, log, g) BY <1>1, <1>3, <1>6
  <2>2. Rtp!Fragment(g.at) <=> c.kind = "fu" BY <1>4 DEF Rtp!Fragment
  <2>3. Rtp!Unbroken(g) => \E k \in 1 .. g.at : RunFrom(Sent, log, k, g.at)
    <3> SUFFICES ASSUME NEW k \in 1 .. g.at, Rtp!Came(k).s, \A j \in k + 1 .. g.at : Rtp!Fragment(j) /\ ~Rtp!Came(j).s
                 PROVE  RunFrom(Sent, log, k, g.at)
      BY DEF Rtp!Unbroken
    <3>1. \A j \in k + 1 .. g.at : Follows(CameFrom(Sent, log, j)) BY <1>4 DEF Rtp!Fragment, Follows
    <3> QED BY <1>4, <3>1 DEF RunFrom
  <2>4. ASSUME cid \in Rtp!H26x, Rtp!Fragment(g.at), Rtp!Unbroken(g) PROVE Rtp!IsWhole(g.runs)
    <3>1. PICK r \in NalsOf(given) : g.runs = <<r>> BY <2>1, <2>2, <2>3, <2>4 DEF Unspliced
    <3> HIDE DEF g
    <3> QED BY <1>5, <3>1
  <2>5. ASSUME cid \in Rtp!H26x, ~Rtp!Fragment(g.at) PROVE Rtp!IsWhole(<<Rtp!Last(g.runs)>>)
    <3>1. g.runs[Len(g.runs)] \in NalsOf(given) BY <2>1, <2>2, <2>5 DEF Unspliced
    <3> HIDE DEF g
    <3>2. Len(<<Rtp!Last(g.runs)>>) = 1 /\ <<Rtp!Last(g.runs)>>[1] = g.runs[Len(g.runs)] BY DEF Rtp!Last
    <3> QED BY <1>5, <3>1, <3>2
  <2>6. ASSUME cid \in Audio
        PROVE  g.runs = <<[n |-> g.runs[1].n, lo |-> 0, hi |-> Rtp!SizeOfUnit(given[g.runs[1].n].au)]>>
    <3>1. g.runs \in WholeFrames(given) BY <2>1, <2>6 DEF Unspliced
    <3> HIDE DEF g
    <3>2. PICK n \in 1 .. Len(given) : g.runs = <<[n |-> n, lo |-> 0, hi |-> Rtp!SizeOfUnit(given[n].au)]>>
      BY <3>1 DEF WholeFrames
    <3>3. g.runs[1].n = n BY <3>2
    <3> QED BY <3>2, <3>3
  <2> QED BY <2>4, <2>5, <2>6
<1> QED BY <1>2, <1>6 DEF Rtp!NeverSpliced, Rtp!H26x, Audio

\* Every packet holds whole NAL units or is a fragment linked to the one before it,
\* and what the buffer holds is what came.
THEOREM FramesAreWhole ==
    ASSUME MinSequential = 2, 2 * MaxFaults + 2 < SeqRange
    PROVE  Spec => [](InRtp => WholeInvariant)
<1>1. Rtp!Init => RtpInvariant /\ WholeInvariant BY RtpInitStep, InitWhole
<1>2. (RtpInvariant /\ WholeInvariant) /\ [Rtp!Next]_Rtp!vars => (RtpInvariant /\ WholeInvariant)' BY RtpStep, WholeStep
<1>3. Rtp!Spec => [](RtpInvariant /\ WholeInvariant) BY <1>1, <1>2, PTL DEF Rtp!Spec
<1>4. ~InRtp /\ [Next]_vars => ~InRtp' BY PartStays DEF InRtp
<1> QED BY <1>3, <1>4, RtpPart, PTL DEF Spec

\* Whatever is lost, comes twice or comes late, a NAL unit that is not called damaged
\* has all its bytes and none of another, when the fragments came one after the other
\* (unPackFuA of h264-unpacker.go, unpackFu of h265-unpacker.go: the lost flag that the
\* sequence numbers set); of a packet without fragments the last NAL unit is whole; an
\* audio frame is whole.
THEOREM RtpNeverSpliced ==
    ASSUME MinSequential = 2, 2 * MaxFaults + 2 < SeqRange
    PROVE  Spec => [](InRtp /\ mux.cid # "ts" => NeverSpliced)
<1>1. InRtp => (NeverSpliced <=> Rtp!NeverSpliced) BY DEF NeverSpliced, InRtp
<1>2. RtpInvariant /\ WholeInvariant /\ mux.cid # "ts" => Rtp!NeverSpliced BY WholeNotSpliced
<1> QED BY <1>1, <1>2, ReceiverCounts, FramesAreWhole, PTL

-------------------------------------------------------------------------------
(* The payload of SRT.  Its two halves, the clock and the keys, meet in the  *)
(* packets only.                                                             *)

InSrt == part = "srt"

\* Keys of both slots, 0 for none.
Slots == {Srt!Even, Srt!Odd}
KeyPairs == [Slots -> Nat]
Datagrams(kind) == {d \in wire : d.kind = kind}

SenderIs(m) ==
    /\ m = [secure |-> m.secure, refreshes |-> m.refreshes, start |-> m.start, now |-> m.now,
            wait |-> m.wait, keys |-> m.keys, flag |-> m.flag, made |-> m.made, confirmed |-> m.confirmed]
    /\ m.secure \in BOOLEAN /\ m.confirmed \in BOOLEAN /\ m.keys \in KeyPairs /\ m.flag \in 0 .. 2
    /\ m.made \in Nat \ {0} /\ m.now \in Nat /\ m.start \in 0 .. TsMod - 1 /\ m.start <= m.now
ReceiverIs(d) ==
    /\ d = [secure |-> d.secure, keys |-> d.keys, tsSeen |-> d.tsSeen, lastTs |-> d.lastTs, tsEpoch |-> d.tsEpoch]
    /\ d.keys \in KeyPairs /\ d.lastTs \in 0 .. TsMod - 1 /\ d.tsEpoch \in Nat
DatagramIs(d) ==
    \/ d.kind = "data" /\ d = [kind |-> "data", n |-> d.n, ts |-> d.ts, flag |-> d.flag, key |-> d.key, at |-> d.at]
    \/ d.kind = "key" /\ d = [kind |-> "key", keys |-> d.keys, at |-> d.at]
SrtTyped == SenderIs(mux) /\ ReceiverIs(dem) /\ given \in Seq(Nat) /\ \A d \in wire : DatagramIs(d)

\* The latest time the receiver knows of.
Latest == IF got = {} THEN mux.start ELSE dem.tsEpoch + dem.lastTs

\* The widened clock is that of the latest packet, and the next is within half
\* a turn of it.
ClockOk ==
    /\ \A i \in 1 .. Len(given) : mux.start <= given[i] /\ given[i] <= mux.now
    /\ \A d \in Datagrams("data") : d.n \in 1 .. Len(given) /\ d.at = given[d.n] /\ d.ts = d.at % TsMod
    /\ \A r \in got : r.n \in 1 .. Len(given) /\ r.ts = given[r.n]
    /\ dem.tsEpoch % TsMod = 0
    /\ got = {} => dem.tsSeen = FALSE /\ dem.tsEpoch = 0 /\ mux.now < TsMod
    /\ got # {} => /\ dem.tsSeen = TRUE
                   /\ \E r \in got : given[r.n] = Latest
                   /\ \A r \in got : given[r.n] <= Latest
    /\ mux.now = mux.start \/ mux.now + MaxLate - Latest < Srt!Half

\* The slot of the key made last, and the other one.
Newest == IF mux.keys[Srt!Even] = mux.made THEN Srt!Even ELSE Srt!Odd
Oldest == Srt!Even + Srt!Odd - Newest

\* Both ends agree on whether there are keys at all.
BothSecure ==
    /\ dem.secure = mux.secure /\ (mux.refreshes => mux.secure) /\ (mux.flag # 0 <=> mux.secure)
    /\ \A d \in Datagrams("data") : d.flag \in 0 .. 2 /\ (d.flag # 0 <=> mux.secure)
    /\ ~mux.secure => Datagrams("key") = {}

\* The receiver has the keys of the sender, but for the last one, which was
\* announced: as long as it lacks that one, or has an earlier one in its place,
\* nothing under it comes that it would take.
KeysHeld ==
    mux.secure =>
       /\ mux.keys[Newest] = mux.made /\ mux.keys[Oldest] < mux.made
       /\ dem.keys[Oldest] = mux.keys[Oldest]
       /\ \/ dem.keys[Newest] = mux.made
          \/ /\ ~mux.confirmed
             /\ mux.made = 2 => dem.keys[Newest] = 0
             /\ mux.made # 2 =>
                   /\ mux.flag = Oldest
                   /\ \A d \in Datagrams("data") : d.flag = Newest => ~Srt!Arrives(d)

\* What can still arrive is under a key the sender has.
KeysArriving ==
    mux.secure =>
       /\ \A d \in Datagrams("data") : Srt!Arrives(d) => d.key = mux.keys[d.flag]
       /\ \A d \in Datagrams("key") : d.keys[Newest] = mux.made /\ d.keys[Oldest] \in {0, mux.keys[Oldest]}

KeysOk == BothSecure /\ KeysHeld /\ KeysArriving /\ \A r \in got : r.clear

\* Every packet is taken once.
TakenOnce ==
    IsFiniteSet(got) /\ IsFiniteSet(Srt!Taken) /\ Cardinality(Srt!Taken) = Cardinality(got)

SrtInvariant == SrtTyped /\ ClockOk /\ KeysOk /\ TakenOnce

\* The constants of SrtPayload.
LEMMA SrtConstants ==
    /\ TsMod \in Nat \ {0} /\ MaxLate \in Nat /\ SrtSteps \subseteq Nat /\ SrtStarts \subseteq 0 .. TsMod - 1
    /\ Srt!Half \in Nat \ {0} /\ Srt!Half + Srt!Half = TsMod
    /\ \A step \in SrtSteps : step + MaxLate < Srt!Half
<1>1. /\ TsMod \in Nat \ {0} /\ MaxLate \in Nat /\ SrtSteps \subseteq Nat /\ SrtStarts \subseteq 0 .. TsMod - 1
      /\ TsMod % 2 = 0 /\ \A step \in SrtSteps : step + MaxLate < TsMod \div 2
  BY PacketsAssumption DEF Srt!PayloadAssumption
<1>2. Srt!Half = TsMod \div 2 BY DEF Srt!Half
<1> DEFINE h == TsMod \div 2
<1>3. h \in Int /\ TsMod = h * 2 + 0
  <2>1. TsMod \div 2 \in Int /\ TsMod = (TsMod \div 2) * 2 + (TsMod % 2) BY <1>1
  <2> QED BY <1>1, <2>1
<1> HIDE DEF h
<1>4. h \in Nat \ {0} /\ h + h = TsMod BY <1>1, <1>3
<1> QED BY <1>1, <1>2, <1>4 DEF h

\* The time the sender goes by when it waits.
LEMMA HeardIs ==
    ASSUME SrtTyped, ClockOk
    PROVE  Srt!Heard = Latest /\ Latest \in Nat
<1> DEFINE times == {mux.start} \cup {given[r.n] : r \in got}
           late(t) == \A u \in times : u <= t
<1>1. Srt!Heard = CHOOSE t \in times : late(t) BY DEF Srt!Heard
<1>2. times \subseteq Nat
  <2>1. mux.start \in Nat BY SrtConstants DEF SrtTyped, SenderIs
  <2>2. \A r \in got : given[r.n] \in Nat BY DEF SrtTyped, ClockOk
  <2> QED BY <2>1, <2>2
<1>3. Latest \in times /\ late(Latest)
  <2>1. CASE got = {} BY <1>2, <2>1 DEF Latest
  <2>2. CASE got # {}
    <3>1. /\ \E r \in got : given[r.n] = Latest
          /\ \A r \in got : given[r.n] <= Latest /\ r.n \in 1 .. Len(given)
      BY <2>2 DEF ClockOk
    <3>2. \A r \in got : mux.start <= given[r.n] BY <3>1 DEF ClockOk
    <3> DEFINE l == Latest
    <3>3. l \in times BY <3>1
    <3>4. \A r \in got : given[r.n] <= l BY <3>1
    <3>5. PICK r \in got : given[r.n] = l BY <3>1
    <3>6. mux.start <= l BY <3>2, <3>5
    <3> QED BY <3>3, <3>4, <3>6
  <2> QED BY <2>1, <2>2
<1>4. \A t \in times : late(t) => t = Latest
  <2> SUFFICES ASSUME NEW t \in times, late(t) PROVE t = Latest OBVIOUS
  <2> DEFINE l == Latest
  <2>1. t \in Nat /\ l \in Nat /\ l <= t /\ t <= l BY <1>2, <1>3
  <2> HIDE DEF l
  <2>2. t = l BY <2>1
  <2> QED BY <2>2 DEF l
<1> HIDE DEF times, late
<1> QED BY <1>1, <1>2, <1>3, <1>4

\* A time within half a turn of e + l is in the turn of e, or in the next, or
\* in the one before, and its place in the turn tells which.
InTurnOf(r, half, e, l, t, ts) ==
    \/ ts = t - e /\ ts - l < half /\ l - ts < half
    \/ ts = t - e - r /\ l - ts > half
    \/ ts = t - e + r /\ ts - l > half /\ e >= r

\* It is one of these three (extendTs compares with half a turn).
LEMMA HalfTurn ==
    ASSUME NEW r \in Nat \ {0}, NEW half \in Nat \ {0}, half + half = r, NEW e \in Nat, e % r = 0,
           NEW l \in 0 .. r - 1, NEW t \in Nat, t - (e + l) < half, (e + l) - t < half
    PROVE  InTurnOf(r, half, e, l, t, t % r) /\ t % r \in 0 .. r - 1 /\ (e + r) % r = 0
<1> DEFINE q == e \div r
           p == t \div r
           ts == t % r
<1>1. q \in Int /\ e = q * r /\ p \in Int /\ ts \in 0 .. r - 1 /\ t = p * r + ts
  <2>1. q \in Int /\ e = q * r + (e % r) BY TurnOf
  <2>2. p \in Int /\ ts \in 0 .. r - 1 /\ t = p * r + ts BY TurnOf
  <2> HIDE DEF q, p, ts
  <2>3. q * r + (e % r) = q * r BY <2>1
  <2> QED BY <2>1, <2>2, <2>3
<1> HIDE DEF q, p, ts
<1>2. (e + r) % r = 0
  <2>1. 0 \in 0 .. r - 1 /\ q + 1 \in Int BY <1>1
  <2>2. ((q + 1) * r + 0) % r = 0 BY <2>1, InTurn
  <2>3. (q + 1) * r + 0 = q * r + r BY <1>1
  <2> QED BY <1>1, <2>2, <2>3
<1> DEFINE d == (p - q) * r
<1>3. d \in Int /\ t = e + d + ts
  <2>1. (p - q) * r = p * r - q * r BY <1>1
  <2>2. p * r \in Int /\ q * r \in Int BY <1>1
  <2> DEFINE a == p * r
             b == q * r
  <2>3. a \in Int /\ b \in Int /\ d = a - b /\ t = a + ts /\ e = b BY <1>1, <2>1, <2>2
  <2> HIDE DEF a, b, d
  <2> QED BY <1>1, <2>3
<1>4. d + ts - l < half /\ l - ts - d < half
  <2> HIDE DEF d
  <2> QED BY <1>1, <1>3
<1>5. d = 0 \/ d = r \/ d = -r
  <2> DEFINE k == p - q
  <2>1. k \in Int /\ d = k * r BY <1>1
  <2>2. d < r + r /\ -d < r + r
    <3> HIDE DEF d
    <3> QED BY <1>1, <1>3, <1>4
  <2> HIDE DEF k
  <2>3. k < 2 /\ k > -2 BY <2>1, <2>2
  <2>4. k = 0 \/ k = 1 \/ k = -1 BY <2>1, <2>3
  <2> QED BY <2>1, <2>4
<1> HIDE DEF d
<1>6. CASE d = 0
  <2>1. ts = t - e /\ ts - l < half /\ l - ts < half BY <1>1, <1>3, <1>4, <1>6
  <2>2. InTurnOf(r, half, e, l, t, ts) BY <2>1 DEF InTurnOf
  <2> QED BY <1>1, <1>2, <2>2 DEF ts
<1>7. CASE d = r
  <2>1. ts = t - e - r /\ l - ts > half BY <1>1, <1>3, <1>4, <1>7
  <2>2. InTurnOf(r, half, e, l, t, ts) BY <2>1 DEF InTurnOf
  <2> QED BY <1>1, <1>2, <2>2 DEF ts
<1>8. CASE d = -r
  <2>1. ts = t - e + r /\ ts - l > half BY <1>1, <1>3, <1>4, <1>8
  <2>2. e >= 1 BY <1>1, <2>1
  <2>3. q >= 1
    <3>1. SUFFICES ASSUME ~(q >= 1) PROVE FALSE OBVIOUS
    <3>2. -q \in Nat BY <1>1, <3>1
    <3>3. (-q) * r >= 0 BY <3>2
    <3>4. q * r <= 0 BY <1>1, <3>3
    <3> QED BY <1>1, <2>2, <3>4
  <2>4. (q - 1) * r >= 0
    <3>1. q - 1 \in Nat BY <1>1, <2>3
    <3> QED BY <3>1
  <2>5. e >= r BY <1>1, <2>4
  <2>6. InTurnOf(r, half, e, l, t, ts) BY <2>1, <2>5 DEF InTurnOf
  <2> QED BY <1>1, <1>2, <2>6 DEF ts
<1> QED BY <1>5, <1>6, <1>7, <1>8

\* The clock after a packet of time t.
WidenedTo(w, h, t) ==
    /\ w.ts = t /\ w.last \in 0 .. TsMod - 1 /\ w.epoch \in Nat /\ w.epoch % TsMod = 0
    /\ w.epoch + w.last = IF t > h THEN t ELSE h

\* A packet within half a turn of the clock is widened to its time, and the
\* clock goes with the latest (extendTs).
LEMMA Extends ==
    ASSUME SrtTyped, NEW t \in Nat, dem.tsSeen = TRUE, dem.tsEpoch % TsMod = 0,
           t - (dem.tsEpoch + dem.lastTs) < Srt!Half, (dem.tsEpoch + dem.lastTs) - t < Srt!Half
    PROVE  WidenedTo(Srt!ExtendTs(t % TsMod), dem.tsEpoch + dem.lastTs, t)
<1> DEFINE r == TsMod
           e == dem.tsEpoch
           l == dem.lastTs
           ts == t % r
           half == Srt!Half
           w == Srt!ExtendTs(ts)
<1>1. r \in Nat \ {0} /\ half \in Nat \ {0} /\ half + half = r BY SrtConstants
<1>2. e \in Nat /\ l \in 0 .. r - 1 BY <1>1 DEF SrtTyped, SenderIs, ReceiverIs
<1>3. e % r = 0 /\ t - (e + l) < half /\ (e + l) - t < half OBVIOUS
<1>4. w = IF ts < l /\ l - ts > half THEN [ts |-> e + r + ts, last |-> ts, epoch |-> e + r]
          ELSE IF ts > l /\ ts - l > half THEN [ts |-> IF e > 0 THEN e - r + ts ELSE e + ts, last |-> l, epoch |-> e]
          ELSE [ts |-> e + ts, last |-> IF ts > l THEN ts ELSE l, epoch |-> e]
  BY DEF Srt!ExtendTs, Srt!Widened
<1> HIDE DEF w, half, e, l, r
<1>5. InTurnOf(r, half, e, l, t, ts) /\ ts \in 0 .. r - 1 /\ (e + r) % r = 0 BY <1>1, <1>2, <1>3, HalfTurn
<1> HIDE DEF ts
<1>6. CASE ts = t - e /\ ts - l < half /\ l - ts < half
  <2>1. w.ts = e + ts /\ w.epoch = e /\ w.last = IF ts > l THEN ts ELSE l BY <1>1, <1>2, <1>4, <1>5, <1>6
  <2>2. e + ts = t /\ (ts > l <=> t > e + l) /\ w.last \in 0 .. r - 1 BY <1>1, <1>2, <1>5, <1>6, <2>1
  <2>3. w.epoch + w.last = IF t > e + l THEN t ELSE e + l BY <1>2, <1>5, <2>1, <2>2
  <2>4. WidenedTo(w, e + l, t) BY <1>2, <1>3, <2>1, <2>2, <2>3 DEF WidenedTo, r
  <2> QED BY <2>4 DEF w, ts, e, l, r
<1>7. CASE ts = t - e - r /\ l - ts > half
  <2>1. w.ts = e + r + ts /\ w.epoch = e + r /\ w.last = ts BY <1>1, <1>2, <1>4, <1>5, <1>7
  <2>2. e + r + ts = t /\ t > e + l /\ e + r \in Nat BY <1>1, <1>2, <1>3, <1>5, <1>7
  <2>3. w.epoch + w.last = IF t > e + l THEN t ELSE e + l BY <2>1, <2>2
  <2>4. WidenedTo(w, e + l, t) BY <1>5, <2>1, <2>2, <2>3 DEF WidenedTo, r
  <2> QED BY <2>4 DEF w, ts, e, l, r
<1>8. CASE ts = t - e + r /\ ts - l > half /\ e >= r
  <2>1. w.ts = e - r + ts /\ w.epoch = e /\ w.last = l BY <1>1, <1>2, <1>4, <1>5, <1>8
  <2>2. e - r + ts = t /\ ~(t > e + l) BY <1>1, <1>2, <1>5, <1>8
  <2>3. w.epoch + w.last = IF t > e + l THEN t ELSE e + l BY <2>1, <2>2
  <2>4. WidenedTo(w, e + l, t) BY <1>2, <1>3, <2>1, <2>2, <2>3 DEF WidenedTo, r
  <2> QED BY <2>4 DEF w, ts, e, l, r
<1> QED BY <1>5, <1>6, <1>7, <1>8 DEF InTurnOf

\* FiniteSets and the module of the payload mean the same number.
LEMMA SrtCardinality == \A S : Srt!Cardinality(S) = Cardinality(S)
BY DEF Cardinality, Srt!Cardinality

\* The slots are two.
LEMMA SlotsAre ==
    ASSUME SrtTyped
    PROVE  /\ Srt!Even = 1 /\ Srt!Odd = 2 /\ Slots = {1, 2} /\ KeyPairs = [{1, 2} -> Nat]
           /\ Newest \in {1, 2} /\ Oldest = 3 - Newest /\ Oldest \in {1, 2}
           /\ mux.keys[1] \in Nat /\ mux.keys[2] \in Nat /\ dem.keys[1] \in Nat /\ dem.keys[2] \in Nat
BY DEF SrtTyped, SenderIs, ReceiverIs, Srt!Even, Srt!Odd, Slots, KeyPairs, Newest, Oldest

\* A stream begins at the start of its clock, with the key of the handshake.
LEMMA SrtInitStep ==
    ASSUME Srt!Init
    PROVE  SrtInvariant
<1>1. PICK secure \in BOOLEAN, foreign \in BOOLEAN, start \in SrtStarts :
        LET keys == IF secure THEN [Srt!NoKeys EXCEPT ![Srt!Even] = 1] ELSE Srt!NoKeys IN
        /\ mux = [secure |-> secure, refreshes |-> secure /\ foreign, start |-> start, now |-> start, wait |-> 0,
                  keys |-> keys, flag |-> IF secure THEN Srt!Even ELSE 0, made |-> 1, confirmed |-> TRUE]
        /\ dem = [secure |-> secure, keys |-> keys, tsSeen |-> FALSE, lastTs |-> 0, tsEpoch |-> 0]
        /\ wire = {} /\ given = <<>> /\ got = {}
  BY Zenon DEF Srt!Init
<1> DEFINE keys == IF secure THEN [Srt!NoKeys EXCEPT ![Srt!Even] = 1] ELSE Srt!NoKeys
<1>2. TsMod \in Nat \ {0} /\ start \in 0 .. TsMod - 1 /\ start \in Nat BY SrtConstants
<1>3. keys \in KeyPairs /\ keys = [f \in {1, 2} |-> IF secure /\ f = 1 THEN 1 ELSE 0]
  BY DEF Srt!NoKeys, Srt!Even, Srt!Odd, KeyPairs, Slots
<1> HIDE DEF keys
<1>4. /\ mux.secure = secure /\ mux.refreshes = (secure /\ foreign) /\ mux.start = start /\ mux.now = start
      /\ mux.keys = keys /\ mux.flag = (IF secure THEN 1 ELSE 0) /\ mux.made = 1 /\ mux.confirmed = TRUE
      /\ mux = [secure |-> mux.secure, refreshes |-> mux.refreshes, start |-> mux.start, now |-> mux.now,
                wait |-> mux.wait, keys |-> mux.keys, flag |-> mux.flag, made |-> mux.made,
                confirmed |-> mux.confirmed]
  BY <1>1 DEF keys, Srt!Even
<1>5. /\ dem.secure = secure /\ dem.keys = keys /\ dem.tsSeen = FALSE /\ dem.lastTs = 0 /\ dem.tsEpoch = 0
      /\ dem = [secure |-> dem.secure, keys |-> dem.keys, tsSeen |-> dem.tsSeen, lastTs |-> dem.lastTs,
                tsEpoch |-> dem.tsEpoch]
  BY <1>1 DEF keys
<1>6. wire = {} /\ given = <<>> /\ got = {} BY <1>1
<1>7. SrtTyped
  <2>1. mux.secure \in BOOLEAN /\ mux.confirmed \in BOOLEAN /\ mux.keys \in KeyPairs /\ mux.flag \in 0 .. 2
    <3>1. mux.secure \in BOOLEAN /\ mux.confirmed \in BOOLEAN BY <1>4, Zenon
    <3>2. mux.flag \in 0 .. 2 BY <1>4
    <3> QED BY <1>3, <1>4, <3>1, <3>2, Zenon
  <2>2. mux.made \in Nat \ {0} /\ mux.now \in Nat /\ mux.start \in 0 .. TsMod - 1 /\ mux.start <= mux.now
    BY <1>2, <1>4
  <2>3. SenderIs(mux) BY <1>4, <2>1, <2>2, Zenon DEF SenderIs
  <2>4. ReceiverIs(dem) BY <1>2, <1>3, <1>5 DEF ReceiverIs
  <2> QED BY <1>6, <2>3, <2>4 DEF SrtTyped
<1>8. ClockOk
  <2>1. Latest = start BY <1>4, <1>6 DEF Latest
  <2>2. 0 % TsMod = 0 BY <1>2
  <2>3. Datagrams("data") = {} /\ Len(given) = 0 BY <1>6 DEF Datagrams
  <2> QED BY <1>2, <1>4, <1>5, <1>6, <2>1, <2>2, <2>3 DEF ClockOk
<1>9. KeysOk
  <2>1. Datagrams("data") = {} /\ Datagrams("key") = {} BY <1>6 DEF Datagrams
  <2>2. secure => Newest = 1 /\ Oldest = 2 BY <1>3, <1>4 DEF Newest, Oldest, Srt!Even, Srt!Odd
  <2> QED BY <1>3, <1>4, <1>5, <1>6, <2>1, <2>2 DEF KeysOk, BothSecure, KeysHeld, KeysArriving
<1>10. TakenOnce
  <2>1. Srt!Taken = {} BY <1>6 DEF Srt!Taken
  <2> QED BY <1>6, <2>1, FS_EmptySet DEF TakenOnce
<1> QED BY <1>7, <1>8, <1>9, <1>10 DEF SrtInvariant

\* Time passes: less can still arrive.
LEMMA WaitStep ==
    ASSUME SrtInvariant, NEW step \in SrtSteps, Srt!Wait(step)
    PROVE  SrtInvariant'
<1>1. /\ mux.now + step + MaxLate - Srt!Heard < Srt!Half /\ (got # {} \/ mux.now + step < TsMod)
      /\ mux' = [mux EXCEPT !.now = @ + step, !.wait = 1]
      /\ wire' = wire /\ dem' = dem /\ given' = given /\ got' = got
  BY DEF Srt!Wait, Srt!Half
<1>2. SrtTyped /\ ClockOk /\ KeysOk /\ TakenOnce BY DEF SrtInvariant
<1>3. step \in Nat /\ MaxLate \in Nat /\ TsMod \in Nat /\ Srt!Half \in Nat BY SrtConstants
<1>4. Srt!Heard = Latest /\ Latest \in Nat BY <1>2, HeardIs
<1>5. /\ mux.now \in Nat /\ mux.start \in Nat /\ mux.start <= mux.now /\ given \in Seq(Nat)
      /\ mux = [secure |-> mux.secure, refreshes |-> mux.refreshes, start |-> mux.start, now |-> mux.now,
                wait |-> mux.wait, keys |-> mux.keys, flag |-> mux.flag, made |-> mux.made,
                confirmed |-> mux.confirmed]
  BY <1>2, <1>3 DEF SrtTyped, SenderIs, ReceiverIs
<1>6. /\ mux' = [secure |-> mux.secure, refreshes |-> mux.refreshes, start |-> mux.start, now |-> mux.now + step,
                 wait |-> 1, keys |-> mux.keys, flag |-> mux.flag, made |-> mux.made, confirmed |-> mux.confirmed]
      /\ mux'.now = mux.now + step
      /\ mux'.secure = mux.secure /\ mux'.refreshes = mux.refreshes /\ mux'.start = mux.start
      /\ mux'.keys = mux.keys /\ mux'.flag = mux.flag /\ mux'.made = mux.made /\ mux'.confirmed = mux.confirmed
  BY <1>1, <1>5
<1>7. SrtTyped'
  <2>1. SenderIs(mux')
    <3>1. mux'.now \in Nat /\ mux.start <= mux'.now BY <1>3, <1>5, <1>6
    <3> QED BY <1>2, <1>6, <3>1 DEF SrtTyped, SenderIs
  <2> QED BY <1>1, <1>2, <2>1 DEF SrtTyped
<1>8. ClockOk'
  <2>1. Latest' = Latest BY <1>1, <1>6 DEF Latest
  <2>2. mux'.now + MaxLate - Latest < Srt!Half
    <3> DEFINE l == Latest
    <3> HIDE DEF l
    <3>1. mux.now + step + MaxLate - l < Srt!Half /\ l \in Nat BY <1>1, <1>4 DEF l
    <3>2. mux'.now + MaxLate - l < Srt!Half BY <1>3, <1>5, <1>6, <3>1
    <3> QED BY <3>2 DEF l
  <2>3. \A i \in 1 .. Len(given) : mux.start <= given[i] /\ given[i] <= mux'.now
    <3>1. \A i \in 1 .. Len(given) : given[i] \in Nat BY <1>5
    <3>2. \A i \in 1 .. Len(given) : mux.start <= given[i] /\ given[i] <= mux.now BY <1>2 DEF ClockOk
    <3> QED BY <1>3, <1>5, <1>6, <3>1, <3>2
  <2>4. Datagrams("data")' = Datagrams("data") /\ Srt!Half' = Srt!Half BY <1>1 DEF Datagrams, Srt!Half
  <2> QED BY <1>1, <1>2, <1>6, <2>1, <2>2, <2>3, <2>4 DEF ClockOk
<1>9. KeysOk'
  <2>1. Datagrams("data")' = Datagrams("data") /\ Datagrams("key")' = Datagrams("key") BY <1>1 DEF Datagrams
  <2>2. Newest' = Newest /\ Oldest' = Oldest BY <1>6 DEF Newest, Oldest, Srt!Even, Srt!Odd
  <2>3. ASSUME NEW d \in Datagrams("data"), mux'.now - d.at <= MaxLate PROVE Srt!Arrives(d)
    <3>1. d.at = given[d.n] /\ d.n \in 1 .. Len(given) BY <1>2 DEF ClockOk
    <3>2. d.at \in Nat BY <1>5, <3>1
    <3> QED BY <1>3, <1>5, <1>6, <2>3, <3>2 DEF Srt!Arrives
  <2>4. \A d : Srt!Arrives(d)' <=> mux'.now - d'.at <= MaxLate BY DEF Srt!Arrives
  <2> QED BY <1>1, <1>2, <1>6, <2>1, <2>2, <2>3 DEF KeysOk, BothSecure, KeysHeld, KeysArriving, Srt!Arrives
<1>10. TakenOnce' BY <1>1, <1>2 DEF TakenOnce, Srt!Taken
<1> QED BY <1>7, <1>8, <1>9, <1>10 DEF SrtInvariant

\* What the sender and the receiver hold, field by field.
LEMMA SenderHas ==
    ASSUME SrtTyped
    PROVE  /\ mux = [secure |-> mux.secure, refreshes |-> mux.refreshes, start |-> mux.start, now |-> mux.now,
                     wait |-> mux.wait, keys |-> mux.keys, flag |-> mux.flag, made |-> mux.made,
                     confirmed |-> mux.confirmed]
           /\ mux.keys \in KeyPairs /\ mux.flag \in 0 .. 2 /\ mux.made \in Nat \ {0}
           /\ mux.now \in Nat /\ mux.start \in Nat /\ mux.start <= mux.now /\ given \in Seq(Nat)
BY SrtConstants DEF SrtTyped, SenderIs

\* So does the receiver.
LEMMA ReceiverHas ==
    ASSUME SrtTyped
    PROVE  /\ dem = [secure |-> dem.secure, keys |-> dem.keys, tsSeen |-> dem.tsSeen, lastTs |-> dem.lastTs,
                     tsEpoch |-> dem.tsEpoch]
           /\ dem.keys \in KeyPairs /\ dem.lastTs \in 0 .. TsMod - 1 /\ dem.tsEpoch \in Nat
BY DEF SrtTyped, ReceiverIs

\* A packet is written with the time and the key of the moment.
LEMMA WriteStep ==
    ASSUME SrtInvariant, Srt!Write
    PROVE  SrtInvariant'
<1> DEFINE new == [kind |-> "data", n |-> Len(given) + 1, ts |-> mux.now % TsMod, flag |-> mux.flag,
                   key |-> IF mux.flag = 0 THEN 0 ELSE mux.keys[mux.flag], at |-> mux.now]
<1>1. /\ wire' = wire \cup {new} /\ given' = Append(given, mux.now) /\ mux' = [mux EXCEPT !.wait = 0]
      /\ dem' = dem /\ got' = got
  BY DEF Srt!Write
<1>2. SrtTyped /\ ClockOk /\ KeysOk /\ TakenOnce BY DEF SrtInvariant
<1>3. /\ new.kind = "data" /\ new.n = Len(given) + 1 /\ new.ts = mux.now % TsMod /\ new.flag = mux.flag
      /\ new.key = (IF mux.flag = 0 THEN 0 ELSE mux.keys[mux.flag]) /\ new.at = mux.now
      /\ new = [kind |-> "data", n |-> new.n, ts |-> new.ts, flag |-> new.flag, key |-> new.key, at |-> new.at]
  OBVIOUS
<1> HIDE DEF new
<1>4. /\ mux' = [secure |-> mux.secure, refreshes |-> mux.refreshes, start |-> mux.start, now |-> mux.now,
                 wait |-> 0, keys |-> mux.keys, flag |-> mux.flag, made |-> mux.made, confirmed |-> mux.confirmed]
      /\ mux'.now = mux.now
      /\ mux'.secure = mux.secure /\ mux'.refreshes = mux.refreshes /\ mux'.start = mux.start
      /\ mux'.keys = mux.keys /\ mux'.flag = mux.flag /\ mux'.made = mux.made /\ mux'.confirmed = mux.confirmed
  BY <1>1, <1>2, SenderHas
<1>5. mux.now \in Nat /\ mux.start <= mux.now /\ given \in Seq(Nat) /\ Len(given) \in Nat BY <1>2, SenderHas
<1>6. /\ given' \in Seq(Nat) /\ Len(given') = Len(given) + 1 /\ given'[Len(given) + 1] = mux.now
      /\ \A i \in 1 .. Len(given) : given'[i] = given[i]
  BY <1>1, <1>5
<1>7. /\ Datagrams("data")' = Datagrams("data") \cup {new} /\ Datagrams("key")' = Datagrams("key")
      /\ Latest' = Latest /\ Newest' = Newest /\ Oldest' = Oldest /\ Srt!Half' = Srt!Half
      /\ \A d : Srt!Arrives(d)' <=> mux.now - d'.at <= MaxLate
  BY <1>1, <1>3, <1>4 DEF Datagrams, Latest, Newest, Oldest, Srt!Even, Srt!Odd, Srt!Half, Srt!Arrives
<1>8. SrtTyped'
  <2>1. SenderIs(mux') BY <1>2, <1>4 DEF SrtTyped, SenderIs
  <2>2. DatagramIs(new) BY <1>3 DEF DatagramIs
  <2>3. \A d \in wire' : DatagramIs(d) BY <1>1, <1>2, <2>2 DEF SrtTyped
  <2> QED BY <1>1, <1>2, <1>6, <2>1, <2>3 DEF SrtTyped
<1>9. ClockOk'
  <2>1. \A i \in 1 .. Len(given') : mux.start <= given'[i] /\ given'[i] <= mux.now
    <3>1. \A i \in 1 .. Len(given) : mux.start <= given[i] /\ given[i] <= mux.now BY <1>2 DEF ClockOk
    <3>2. TAKE i \in 1 .. Len(given')
    <3>3. i \in 1 .. Len(given) \/ i = Len(given) + 1 BY <1>5, <1>6
    <3>4. mux.now <= mux.now BY <1>5
    <3> QED BY <1>5, <1>6, <3>1, <3>3, <3>4
  <2>2. \A d \in Datagrams("data") : d.n \in 1 .. Len(given') /\ d.at = given'[d.n] /\ d.ts = d.at % TsMod
    BY <1>2, <1>5, <1>6 DEF ClockOk
  <2>3. new.n \in 1 .. Len(given') /\ new.at = given'[new.n] /\ new.ts = new.at % TsMod BY <1>3, <1>5, <1>6
  <2>4. \A r \in got : r.n \in 1 .. Len(given) /\ r.n \in 1 .. Len(given') /\ given'[r.n] = given[r.n]
    BY <1>2, <1>5, <1>6 DEF ClockOk
  <2>5. \A d \in Datagrams("data")' : d.n \in 1 .. Len(given') /\ d.at = given'[d.n] /\ d.ts = d.at % TsMod
    BY <1>7, <2>2, <2>3
  <2>6. got # {} => /\ \E r \in got : given'[r.n] = Latest
                    /\ \A r \in got : given'[r.n] <= Latest
    BY <1>2, <2>4 DEF ClockOk
  <2>7. \A r \in got : r.n \in 1 .. Len(given') /\ r.ts = given'[r.n] BY <1>2, <2>4 DEF ClockOk
  <2> QED BY <1>1, <1>2, <1>4, <1>7, <2>1, <2>5, <2>6, <2>7 DEF ClockOk
<1>10. KeysOk'
  <2>1. new.flag \in 0 .. 2 /\ (new.flag # 0 <=> mux.secure) BY <1>2, <1>3, SenderHas DEF KeysOk, BothSecure
  <2>2. mux.secure => new.key = mux.keys[new.flag] BY <1>3, <2>1
  <2>3. mux.flag = Oldest => new.flag # Newest BY <1>2, <1>3, SlotsAre
  <2> QED BY <1>1, <1>2, <1>4, <1>7, <2>1, <2>2, <2>3 DEF KeysOk, BothSecure, KeysHeld, KeysArriving, Srt!Arrives
<1>11. TakenOnce' BY <1>1, <1>2 DEF TakenOnce, Srt!Taken
<1> QED BY <1>8, <1>9, <1>10, <1>11 DEF SrtInvariant

\* The next key is used once nothing is taken for it that is under another.
LEMMA SwitchKeyStep ==
    ASSUME SrtInvariant, Srt!SwitchKey
    PROVE  SrtInvariant'
<1>1. /\ mux.refreshes /\ mux.keys[Srt!Even + Srt!Odd - mux.flag] = mux.made /\ (mux.confirmed \/ mux.made = 2)
      /\ mux' = [mux EXCEPT !.flag = Srt!Even + Srt!Odd - mux.flag]
      /\ wire' = wire /\ dem' = dem /\ given' = given /\ got' = got
  BY DEF Srt!SwitchKey
<1>2. SrtTyped /\ ClockOk /\ KeysOk /\ TakenOnce BY DEF SrtInvariant
<1>3. Srt!Even = 1 /\ Srt!Odd = 2 BY <1>2, SlotsAre
<1>4. /\ mux' = [secure |-> mux.secure, refreshes |-> mux.refreshes, start |-> mux.start, now |-> mux.now,
                 wait |-> mux.wait, keys |-> mux.keys, flag |-> 3 - mux.flag, made |-> mux.made,
                 confirmed |-> mux.confirmed]
      /\ mux'.now = mux.now /\ mux'.flag = 3 - mux.flag
      /\ mux'.secure = mux.secure /\ mux'.refreshes = mux.refreshes /\ mux'.start = mux.start
      /\ mux'.keys = mux.keys /\ mux'.made = mux.made /\ mux'.confirmed = mux.confirmed
  <2>1. Srt!Even + Srt!Odd - mux.flag = 3 - mux.flag BY <1>2, <1>3, SenderHas
  <2>2. mux' = [mux EXCEPT !.flag = 3 - mux.flag] BY <1>1, <2>1
  <2> QED BY <1>2, <2>2, SenderHas
<1>5. mux.secure /\ mux.flag # 0 /\ mux.flag \in 0 .. 2 BY <1>1, <1>2, SenderHas DEF KeysOk, BothSecure
<1>6. mux'.flag \in 1 .. 2 BY <1>4, <1>5
<1>7. /\ Datagrams("data")' = Datagrams("data") /\ Datagrams("key")' = Datagrams("key")
      /\ Latest' = Latest /\ Newest' = Newest /\ Oldest' = Oldest /\ Srt!Half' = Srt!Half
      /\ \A d : Srt!Arrives(d)' <=> mux.now - d'.at <= MaxLate
  BY <1>1, <1>4 DEF Datagrams, Latest, Newest, Oldest, Srt!Even, Srt!Odd, Srt!Half, Srt!Arrives
<1>8. SrtTyped'
  <2>1. mux'.flag \in 0 .. 2 BY <1>6
  <2>2. SenderIs(mux') BY <1>2, <1>4, <2>1 DEF SrtTyped, SenderIs
  <2> QED BY <1>1, <1>2, <2>2 DEF SrtTyped
<1>9. ClockOk' BY <1>1, <1>2, <1>4, <1>7 DEF ClockOk
<1>10. KeysOk'
  <2>1. mux'.flag # 0 <=> mux.secure BY <1>5, <1>6
  <2>2. dem.keys[Newest] = mux.made \/ (~mux.confirmed /\ mux.made = 2 /\ dem.keys[Newest] = 0)
    BY <1>1, <1>2, <1>5 DEF KeysOk, KeysHeld
  <2>3. BothSecure' BY <1>1, <1>2, <1>4, <1>7, <2>1 DEF KeysOk, BothSecure
  <2>4. KeysHeld' BY <1>1, <1>2, <1>4, <1>5, <1>7, <2>2 DEF KeysOk, KeysHeld
  <2>5. KeysArriving' BY <1>2, <1>4, <1>7 DEF KeysOk, KeysArriving, Srt!Arrives
  <2> QED BY <1>1, <1>2, <2>3, <2>4, <2>5 DEF KeysOk
<1>11. TakenOnce' BY <1>1, <1>2 DEF TakenOnce, Srt!Taken
<1> QED BY <1>8, <1>9, <1>10, <1>11 DEF SrtInvariant

\* An announcement that is repeated says what it said.
LEMMA RepeatKeyStep ==
    ASSUME SrtInvariant, Srt!RepeatKey
    PROVE  SrtInvariant'
<1> DEFINE again(d) == IF d.kind = "key" THEN [d EXCEPT !.at = mux.now] ELSE d
<1>1. /\ wire' = {again(d) : d \in wire}
      /\ mux' = mux /\ dem' = dem /\ given' = given /\ got' = got
  BY DEF Srt!RepeatKey
<1>2. SrtTyped /\ ClockOk /\ KeysOk /\ TakenOnce BY DEF SrtInvariant
<1>3. ASSUME NEW d \in wire
      PROVE  \/ d.kind = "data" /\ again(d) = d
             \/ /\ d.kind = "key" /\ again(d) = [kind |-> "key", keys |-> d.keys, at |-> mux.now]
                /\ again(d).kind = "key" /\ again(d).keys = d.keys /\ again(d).at = mux.now
  <2>1. DatagramIs(d) BY <1>2 DEF SrtTyped
  <2>2. CASE d.kind = "data" BY <2>2
  <2>3. CASE d.kind = "key" /\ d = [kind |-> "key", keys |-> d.keys, at |-> d.at] BY <2>3
  <2> QED BY <2>1, <2>2, <2>3 DEF DatagramIs
<1> HIDE DEF again
<1>4. \A d \in wire : again(d).kind = d.kind BY <1>3
<1>5. Datagrams("data")' = Datagrams("data")
  <2>1. ASSUME NEW d \in Datagrams("data") PROVE d \in wire /\ again(d) = d /\ d.kind = "data"
    <3>1. d \in wire /\ d.kind = "data" BY DEF Datagrams
    <3>2. "data" # "key" OBVIOUS
    <3> QED BY <1>3, <3>1, <3>2
  <2>2. ASSUME NEW d \in Datagrams("data")' PROVE d \in Datagrams("data")
    <3>1. d \in wire' /\ d.kind = "data" BY DEF Datagrams
    <3>2. PICK x \in wire : d = again(x) BY <1>1, <3>1
    <3>3. x.kind = "data" BY <1>4, <3>1, <3>2
    <3>4. x \in Datagrams("data") BY <3>3 DEF Datagrams
    <3> QED BY <2>1, <3>2, <3>4
  <2>3. ASSUME NEW d \in Datagrams("data") PROVE d \in Datagrams("data")'
    <3>1. d \in wire' BY <1>1, <2>1
    <3> QED BY <2>1, <3>1 DEF Datagrams
  <2> QED BY <2>2, <2>3
<1>6. \A d \in Datagrams("key")' : \E x \in Datagrams("key") : d.keys = x.keys
  <2> SUFFICES ASSUME NEW d \in Datagrams("key")' PROVE \E x \in Datagrams("key") : d.keys = x.keys OBVIOUS
  <2>1. d \in wire' /\ d.kind = "key" BY DEF Datagrams
  <2>2. PICK x \in wire : d = again(x) BY <1>1, <2>1
  <2>3. x.kind = "key" BY <1>4, <2>1, <2>2
  <2>4. x \in Datagrams("key") BY <2>3 DEF Datagrams
  <2>5. "data" # "key" OBVIOUS
  <2>6. d.keys = x.keys BY <1>3, <2>2, <2>3, <2>5
  <2> QED BY <2>4, <2>6
<1>7. /\ Latest' = Latest /\ Newest' = Newest /\ Oldest' = Oldest /\ Srt!Half' = Srt!Half
      /\ \A d : Srt!Arrives(d)' <=> mux.now - d'.at <= MaxLate
  BY <1>1 DEF Latest, Newest, Oldest, Srt!Even, Srt!Odd, Srt!Half, Srt!Arrives
<1>8. SrtTyped'
  <2>1. ASSUME NEW d \in wire' PROVE DatagramIs(d)
    <3>1. PICK x \in wire : d = again(x) BY <1>1
    <3>2. CASE d = x BY <1>2, <3>2 DEF SrtTyped
    <3>3. CASE d = [kind |-> "key", keys |-> x.keys, at |-> mux.now] BY <3>3 DEF DatagramIs
    <3> QED BY <1>3, <3>1, <3>2, <3>3
  <2> QED BY <1>1, <1>2, <2>1 DEF SrtTyped
<1>9. ClockOk' BY <1>1, <1>2, <1>5, <1>7 DEF ClockOk
<1>10. KeysOk'
  <2>1. ~mux.secure => Datagrams("key")' = {} BY <1>2, <1>6 DEF KeysOk, BothSecure
  <2>2. mux.secure => \A d \in Datagrams("key")' :
           d.keys[Newest] = mux.made /\ d.keys[Oldest] \in {0, mux.keys[Oldest]}
    BY <1>2, <1>6 DEF KeysOk, KeysArriving
  <2> QED BY <1>1, <1>2, <1>5, <1>7, <2>1, <2>2 DEF KeysOk, BothSecure, KeysHeld, KeysArriving, Srt!Arrives
<1>11. TakenOnce' BY <1>1, <1>2 DEF TakenOnce, Srt!Taken
<1> QED BY <1>8, <1>9, <1>10, <1>11 DEF SrtInvariant

\* The keys after an announcement arrived: those of the sender.
LEMMA Announced ==
    ASSUME SrtTyped, KeysOk, NEW d \in Datagrams("key"), mux.secure
    PROVE  /\ Srt!ApplyKM(d.keys) \in KeyPairs
           /\ Srt!ApplyKM(d.keys)[Newest] = mux.made /\ Srt!ApplyKM(d.keys)[Oldest] = mux.keys[Oldest]
<1> DEFINE keys == Srt!ApplyKM(d.keys)
<1>1. keys = [f \in {1, 2} |-> IF d.keys[f] # 0 THEN d.keys[f] ELSE dem.keys[f]]
  BY SlotsAre DEF Srt!ApplyKM
<1>2. /\ d.keys[Newest] = mux.made /\ d.keys[Oldest] \in {0, mux.keys[Oldest]}
      /\ dem.keys[Oldest] = mux.keys[Oldest]
  BY DEF KeysOk, KeysHeld, KeysArriving
<1>3. Newest \in {1, 2} /\ Oldest \in {1, 2} /\ Oldest = 3 - Newest /\ mux.keys[Oldest] \in Nat BY SlotsAre
<1>4. mux.made \in Nat \ {0} BY SenderHas
<1> HIDE DEF keys
<1>5. keys[Newest] = mux.made /\ keys[Oldest] = mux.keys[Oldest] BY <1>1, <1>2, <1>3, <1>4
<1>6. \A f \in {1, 2} : f = Newest \/ f = Oldest BY <1>3
<1>7. \A f \in {1, 2} : keys[f] \in Nat BY <1>3, <1>4, <1>5, <1>6
<1>8. keys \in [{1, 2} -> Nat] BY <1>1, <1>7
<1> QED BY <1>5, <1>8, SlotsAre DEF keys

\* Announced keys are taken, and the sender may hear that they were.
LEMMA HandleKMStep ==
    ASSUME SrtInvariant, NEW reaches \in BOOLEAN, Srt!HandleKM(reaches)
    PROVE  SrtInvariant'
<1>1. PICK d \in wire : d.kind = "key" /\ dem.secure /\ dem' = [dem EXCEPT !.keys = Srt!ApplyKM(d.keys)]
  BY DEF Srt!HandleKM
<1>2. /\ mux' = [mux EXCEPT !.confirmed = mux.confirmed \/ reaches]
      /\ wire' = wire /\ given' = given /\ got' = got
  BY DEF Srt!HandleKM
<1>3. SrtTyped /\ ClockOk /\ KeysOk /\ TakenOnce BY DEF SrtInvariant
<1> DEFINE keys == Srt!ApplyKM(d.keys)
<1>4. mux.secure /\ dem.secure = mux.secure BY <1>1, <1>3 DEF KeysOk, BothSecure
<1>5. d \in Datagrams("key") BY <1>1 DEF Datagrams
<1>6. keys \in KeyPairs /\ keys[Newest] = mux.made /\ keys[Oldest] = mux.keys[Oldest]
  BY <1>3, <1>4, <1>5, Announced
<1>7. /\ dem' = [secure |-> dem.secure, keys |-> keys, tsSeen |-> dem.tsSeen, lastTs |-> dem.lastTs,
                 tsEpoch |-> dem.tsEpoch]
      /\ dem'.secure = dem.secure /\ dem'.keys = keys /\ dem'.tsSeen = dem.tsSeen /\ dem'.lastTs = dem.lastTs
      /\ dem'.tsEpoch = dem.tsEpoch
  <2> HIDE DEF keys
  <2>1. dem' = [dem EXCEPT !.keys = keys] BY <1>1 DEF keys
  <2> QED BY <1>3, <2>1, ReceiverHas
<1> HIDE DEF keys
<1>8. /\ mux' = [secure |-> mux.secure, refreshes |-> mux.refreshes, start |-> mux.start, now |-> mux.now,
                 wait |-> mux.wait, keys |-> mux.keys, flag |-> mux.flag, made |-> mux.made,
                 confirmed |-> mux.confirmed \/ reaches]
      /\ mux'.now = mux.now /\ mux'.flag = mux.flag
      /\ mux'.secure = mux.secure /\ mux'.refreshes = mux.refreshes /\ mux'.start = mux.start
      /\ mux'.keys = mux.keys /\ mux'.made = mux.made /\ mux'.confirmed = (mux.confirmed \/ reaches)
  BY <1>2, <1>3, SenderHas
<1>9. /\ Datagrams("data")' = Datagrams("data") /\ Datagrams("key")' = Datagrams("key")
      /\ Latest' = Latest /\ Newest' = Newest /\ Oldest' = Oldest /\ Srt!Half' = Srt!Half
      /\ \A x : Srt!Arrives(x)' <=> mux.now - x'.at <= MaxLate
  BY <1>2, <1>7, <1>8 DEF Datagrams, Latest, Newest, Oldest, Srt!Even, Srt!Odd, Srt!Half, Srt!Arrives
<1>10. SrtTyped'
  <2>1. mux'.confirmed \in BOOLEAN BY <1>3, <1>8, Zenon DEF SrtTyped, SenderIs
  <2>2. SenderIs(mux') BY <1>3, <1>8, <2>1 DEF SrtTyped, SenderIs
  <2>3. ReceiverIs(dem') BY <1>3, <1>6, <1>7 DEF SrtTyped, ReceiverIs
  <2> QED BY <1>2, <1>3, <2>2, <2>3 DEF SrtTyped
<1>11. ClockOk' BY <1>2, <1>3, <1>7, <1>8, <1>9 DEF ClockOk
<1>12. KeysOk'
  <2>1. BothSecure' BY <1>3, <1>7, <1>8, <1>9 DEF KeysOk, BothSecure
  <2>2. KeysHeld' BY <1>3, <1>4, <1>6, <1>7, <1>8, <1>9 DEF KeysOk, KeysHeld
  <2>3. KeysArriving' BY <1>3, <1>8, <1>9 DEF KeysOk, KeysArriving, Srt!Arrives
  <2> QED BY <1>2, <1>3, <2>1, <2>2, <2>3 DEF KeysOk
<1>13. TakenOnce' BY <1>2, <1>3 DEF TakenOnce, Srt!Taken
<1> QED BY <1>10, <1>11, <1>12, <1>13 DEF SrtInvariant

\* A new key goes in the slot of the one nothing is under any more.
LEMMA MakeKeyStep ==
    ASSUME SrtInvariant, NEW both \in BOOLEAN, Srt!MakeKey(both)
    PROVE  SrtInvariant'
<1> DEFINE slot == 3 - mux.flag
           keys == [mux.keys EXCEPT ![slot] = mux.made + 1]
           new == [kind |-> "key", keys |-> IF both THEN keys ELSE [keys EXCEPT ![mux.flag] = 0], at |-> mux.now]
<1>1. SrtTyped /\ ClockOk /\ KeysOk /\ TakenOnce BY DEF SrtInvariant
<1>2. Srt!Even = 1 /\ Srt!Odd = 2 /\ mux.flag \in 0 .. 2 BY <1>1, SlotsAre, SenderHas
<1>3. Srt!Even + Srt!Odd - mux.flag = slot BY <1>2
<1>4. /\ mux.refreshes /\ mux.confirmed /\ mux.keys[mux.flag] = mux.made
      /\ \A d \in wire : d.kind = "data" /\ d.flag = slot => ~Srt!Arrives(d)
      /\ mux' = [mux EXCEPT !.made = mux.made + 1, !.keys = keys, !.confirmed = FALSE]
      /\ wire' = {d \in wire : d.kind # "key"} \cup {new}
      /\ dem' = dem /\ given' = given /\ got' = got
  <2> HIDE DEF slot
  <2> QED BY <1>3 DEF Srt!MakeKey
<1>5. mux.secure /\ mux.flag \in {1, 2} BY <1>1, <1>2, <1>4 DEF KeysOk, BothSecure
<1>6. mux.made \in Nat \ {0} /\ mux.keys \in [{1, 2} -> Nat] BY <1>1, SenderHas, SlotsAre
<1>7. Newest = mux.flag /\ Oldest = slot /\ slot \in {1, 2}
  <2>1. mux.keys[Oldest] < mux.made BY <1>1, <1>5 DEF KeysOk, KeysHeld
  <2>2. Newest \in {1, 2} /\ Oldest = 3 - Newest /\ Oldest \in {1, 2} BY <1>1, SlotsAre
  <2>3. mux.flag # Oldest BY <1>4, <1>6, <2>1, <2>2
  <2> QED BY <1>5, <2>2, <2>3
<1>8. /\ keys \in [{1, 2} -> Nat] /\ keys[slot] = mux.made + 1 /\ keys[mux.flag] = mux.made
      /\ \A f \in {1, 2} : f # slot => keys[f] = mux.keys[f]
  BY <1>4, <1>5, <1>6, <1>7
<1>9. /\ new = [kind |-> "key", keys |-> new.keys, at |-> new.at] /\ new.kind = "key"
      /\ new.keys[slot] = mux.made + 1 /\ new.keys[mux.flag] \in {0, mux.made}
  <2>1. mux.flag # slot BY <1>5
  <2>2. new.keys = IF both THEN keys ELSE [keys EXCEPT ![mux.flag] = 0] OBVIOUS
  <2> HIDE DEF keys, slot
  <2> QED BY <1>5, <1>7, <1>8, <2>1, <2>2
<1> HIDE DEF keys, new
<1>10. /\ mux' = [secure |-> mux.secure, refreshes |-> mux.refreshes, start |-> mux.start, now |-> mux.now,
                  wait |-> mux.wait, keys |-> keys, flag |-> mux.flag, made |-> mux.made + 1,
                  confirmed |-> FALSE]
       /\ mux'.now = mux.now /\ mux'.flag = mux.flag
       /\ mux'.secure = mux.secure /\ mux'.refreshes = mux.refreshes /\ mux'.start = mux.start
       /\ mux'.keys = keys /\ mux'.made = mux.made + 1 /\ mux'.confirmed = FALSE
  BY <1>1, <1>4, SenderHas
<1>11. Newest' = slot /\ Oldest' = mux.flag
  <2>1. keys[1] = mux.made + 1 <=> slot = 1 BY <1>5, <1>6, <1>8
  <2>2. Newest' = IF keys[1] = mux.made + 1 THEN 1 ELSE 2
    BY <1>10 DEF Newest, Srt!Even, Srt!Odd
  <2>3. Newest' = slot BY <1>7, <2>1, <2>2
  <2>4. Oldest' = 1 + 2 - Newest' BY DEF Oldest, Srt!Even, Srt!Odd
  <2> QED BY <1>5, <2>3, <2>4
<1> HIDE DEF slot
<1>12. Datagrams("data")' = Datagrams("data") /\ Datagrams("key")' = {new}
  <2>1. \A d \in wire : d.kind = "data" \/ d.kind = "key" BY <1>1 DEF SrtTyped, DatagramIs
  <2>2. "data" # "key" OBVIOUS
  <2> QED BY <1>4, <1>9, <2>1, <2>2 DEF Datagrams
<1>13. /\ Latest' = Latest /\ Srt!Half' = Srt!Half
       /\ \A x : Srt!Arrives(x)' <=> mux.now - x'.at <= MaxLate
  BY <1>4, <1>10 DEF Latest, Srt!Half, Srt!Arrives
<1>14. SrtTyped'
  <2>1. mux.made + 1 \in Nat \ {0} BY <1>6
  <2>2. keys \in KeyPairs BY <1>1, <1>8, SlotsAre
  <2>3. SenderIs(mux')
    <3>1. /\ mux.secure \in BOOLEAN /\ mux.flag \in 0 .. 2 /\ mux.now \in Nat
          /\ mux.start \in 0 .. TsMod - 1 /\ mux.start <= mux.now
      BY <1>1 DEF SrtTyped, SenderIs
    <3> QED BY <1>10, <2>1, <2>2, <3>1 DEF SenderIs
  <2>4. DatagramIs(new) BY <1>9 DEF DatagramIs
  <2>5. \A d \in wire' : DatagramIs(d) BY <1>1, <1>4, <2>4 DEF SrtTyped
  <2> QED BY <1>1, <1>4, <2>3, <2>5 DEF SrtTyped
<1>15. ClockOk' BY <1>1, <1>4, <1>10, <1>12, <1>13 DEF ClockOk
<1>16. KeysOk'
  <2>1. dem.keys[mux.flag] = mux.made /\ dem.keys[slot] = mux.keys[slot] /\ mux.keys[slot] < mux.made
    BY <1>1, <1>4, <1>5, <1>7 DEF KeysOk, KeysHeld
  <2>2. mux.made + 1 = 2 => dem.keys[slot] = 0 BY <1>6, <1>7, <2>1
  <2>3. \A d \in Datagrams("data") : d.flag = slot => ~Srt!Arrives(d) BY <1>4 DEF Datagrams
  <2>4. \A d \in Datagrams("data") : Srt!Arrives(d) => d.key = keys[d.flag]
    <3> SUFFICES ASSUME NEW d \in Datagrams("data"), Srt!Arrives(d) PROVE d.key = keys[d.flag] OBVIOUS
    <3>1. d.flag \in 0 .. 2 /\ d.flag # 0 /\ d.key = mux.keys[d.flag] BY <1>1, <1>5 DEF KeysOk, BothSecure, KeysArriving
    <3>2. d.flag \in {1, 2} /\ d.flag # slot BY <2>3, <3>1
    <3> QED BY <1>8, <3>1, <3>2
  <2>5. keys[slot] = mux.made + 1 /\ keys[mux.flag] = mux.made /\ mux.made < mux.made + 1 BY <1>6, <1>8
  <2>6. \A d \in Datagrams("key")' : d.keys[slot] = mux.made + 1 /\ d.keys[mux.flag] \in {0, keys[mux.flag]}
    BY <1>9, <1>12, <2>5
  <2>7. BothSecure' BY <1>1, <1>4, <1>5, <1>10, <1>12 DEF KeysOk, BothSecure
  <2>8. KeysHeld'
    BY <1>4, <1>10, <1>11, <1>12, <1>13, <2>1, <2>2, <2>3, <2>5 DEF KeysHeld, Srt!Arrives
  <2>9. KeysArriving' BY <1>10, <1>11, <1>12, <1>13, <2>4, <2>6 DEF KeysArriving, Srt!Arrives
  <2> QED BY <1>1, <1>4, <2>7, <2>8, <2>9 DEF KeysOk
<1>17. TakenOnce' BY <1>1, <1>4 DEF TakenOnce, Srt!Taken
<1> QED BY <1>14, <1>15, <1>16, <1>17 DEF SrtInvariant

\* A packet that arrives is within half a turn of the clock.
LEMMA NearLatest ==
    ASSUME SrtTyped, ClockOk, NEW d \in Datagrams("data"), Srt!Arrives(d)
    PROVE  /\ d.at \in Nat /\ d.at - Latest < Srt!Half /\ Latest - d.at < Srt!Half
           /\ got = {} => d.at < TsMod
<1> DEFINE l == Latest
           h == Srt!Half
           t == d.at
<1>1. l \in Nat /\ h \in Nat \ {0} /\ MaxLate \in Nat BY HeardIs, SrtConstants
<1>2. mux.now \in Nat /\ mux.start \in Nat /\ given \in Seq(Nat) BY SenderHas
<1>3. t = given[d.n] /\ d.n \in 1 .. Len(given) /\ mux.start <= t /\ t <= mux.now /\ mux.now - t <= MaxLate
  BY DEF ClockOk, Srt!Arrives
<1>4. t \in Nat BY <1>2, <1>3
<1>5. mux.start <= l /\ l <= mux.now
  <2>1. CASE got = {} BY <1>2, <2>1, SenderHas DEF Latest
  <2>2. CASE got # {}
    <3>1. PICK r \in got : given[r.n] = Latest BY <2>2 DEF ClockOk
    <3>2. r.n \in 1 .. Len(given) BY <3>1 DEF ClockOk
    <3> QED BY <3>1, <3>2 DEF ClockOk
  <2> QED BY <2>1, <2>2
<1>6. mux.now = mux.start \/ mux.now + MaxLate - l < h BY DEF ClockOk
<1> HIDE DEF l, h, t
<1> DEFINE now == mux.now
           start == mux.start
<1>7. /\ t \in Nat /\ l \in Nat /\ h \in Nat \ {0} /\ now \in Nat /\ start \in Nat /\ MaxLate \in Nat
      /\ start <= t /\ t <= now /\ now - t <= MaxLate /\ start <= l /\ l <= now
      /\ now = start \/ now + MaxLate - l < h
  BY <1>1, <1>2, <1>3, <1>4, <1>5, <1>6
<1>8. t - l < h /\ l - t < h
  <2> HIDE DEF now, start
  <2>1. CASE now = start BY <1>7, <2>1
  <2>2. CASE now + MaxLate - l < h BY <1>7, <2>2
  <2> QED BY <1>7, <2>1, <2>2
<1>9. got = {} => mux.now < TsMod BY DEF ClockOk
<1>10. got = {} => t < TsMod BY <1>2, <1>3, <1>4, <1>9, SrtConstants
<1> QED BY <1>4, <1>8, <1>10 DEF l, h, t

\* What is not refused is under a key both have.
LEMMA Decrypts ==
    ASSUME SrtTyped, KeysOk, NEW d \in Datagrams("data"), Srt!Arrives(d), ~Srt!Refused(d)
    PROVE  d.flag = 0 \/ dem.keys[d.flag] = d.key
<1> SUFFICES ASSUME d.flag # 0 PROVE dem.keys[d.flag] = d.key OBVIOUS
<1>1. mux.secure /\ d.flag \in {1, 2} BY DEF KeysOk, BothSecure
<1>2. dem.keys[d.flag] # 0 BY DEF Srt!Refused
<1>3. d.key = mux.keys[d.flag] BY <1>1 DEF KeysOk, KeysArriving
<1>4. Newest \in {1, 2} /\ Oldest = 3 - Newest BY SlotsAre
<1>5. CASE d.flag = Oldest BY <1>1, <1>3, <1>5 DEF KeysOk, KeysHeld
<1>6. CASE d.flag = Newest
  <2>1. mux.keys[Newest] = mux.made BY <1>1 DEF KeysOk, KeysHeld
  <2>2. dem.keys[Newest] = mux.made BY <1>1, <1>2, <1>6 DEF KeysOk, KeysHeld
  <2> QED BY <1>3, <1>6, <2>1, <2>2
<1> QED BY <1>1, <1>4, <1>5, <1>6

\* A packet is put in rcvBuf at the time it was written.
LEMMA HandleDataStep ==
    ASSUME SrtInvariant, Srt!HandleData
    PROVE  SrtInvariant'
<1>1. PICK d \in wire : 
        /\ d.kind = "data" /\ Srt!Arrives(d) /\ d.n \notin Srt!Taken /\ ~Srt!Refused(d)
        /\ LET w == Srt!ExtendTs(d.ts)
           IN  /\ dem' = [dem EXCEPT !.tsSeen = TRUE, !.lastTs = w.last, !.tsEpoch = w.epoch]
               /\ got' = got \cup {[n |-> d.n, ts |-> w.ts, clear |-> d.flag = 0 \/ dem.keys[d.flag] = d.key]}
  BY DEF Srt!HandleData
<1>2. mux' = mux /\ wire' = wire /\ given' = given BY DEF Srt!HandleData
<1>3. SrtTyped /\ ClockOk /\ KeysOk /\ TakenOnce BY DEF SrtInvariant
<1> DEFINE w == Srt!ExtendTs(d.ts)
           new == [n |-> d.n, ts |-> w.ts, clear |-> d.flag = 0 \/ dem.keys[d.flag] = d.key]
<1>4. d \in Datagrams("data") BY <1>1 DEF Datagrams
<1>5. d.n \in 1 .. Len(given) /\ d.at = given[d.n] /\ d.ts = d.at % TsMod BY <1>3, <1>4 DEF ClockOk
<1>6. Latest \in Nat /\ TsMod \in Nat \ {0} BY <1>3, HeardIs, SrtConstants
<1>7. /\ d.at \in Nat /\ d.at - Latest < Srt!Half /\ Latest - d.at < Srt!Half
      /\ got = {} => d.at < TsMod
  BY <1>1, <1>3, <1>4, NearLatest
<1>8. WidenedTo(w, IF got = {} THEN d.at ELSE Latest, d.at)
  <2>1. CASE got = {}
    <3>1. dem.tsSeen = FALSE /\ dem.tsEpoch = 0 BY <1>3, <2>1 DEF ClockOk
    <3>2. d.at \in 0 .. TsMod - 1 /\ d.ts = d.at
      <4>1. d.at \in 0 .. TsMod - 1 BY <1>6, <1>7, <2>1
      <4>2. (0 * TsMod + d.at) % TsMod = d.at BY <1>6, <4>1, InTurn
      <4>3. 0 * TsMod + d.at = d.at BY <1>6, <1>7
      <4> QED BY <1>5, <4>1, <4>2, <4>3
    <3>3. w.ts = d.at /\ w.last = d.at /\ w.epoch = 0 BY <3>1, <3>2 DEF Srt!ExtendTs, Srt!Widened
    <3>4. 0 % TsMod = 0 BY <1>6
    <3> HIDE DEF w
    <3>5. WidenedTo(w, d.at, d.at) BY <1>7, <3>2, <3>3, <3>4 DEF WidenedTo
    <3> QED BY <2>1, <3>5
  <2>2. CASE got # {}
    <3>1. Latest = dem.tsEpoch + dem.lastTs BY <2>2 DEF Latest
    <3>2. dem.tsSeen = TRUE /\ dem.tsEpoch % TsMod = 0 BY <1>3, <2>2 DEF ClockOk
    <3>3. WidenedTo(Srt!ExtendTs(d.at % TsMod), dem.tsEpoch + dem.lastTs, d.at) BY <1>3, <1>7, <3>1, <3>2, Extends
    <3> QED BY <1>5, <2>2, <3>1, <3>3
  <2> QED BY <2>1, <2>2
<1>9. d.flag = 0 \/ dem.keys[d.flag] = d.key BY <1>1, <1>3, <1>4, Decrypts
<1>10. new.n = d.n /\ new.ts = w.ts /\ new.clear BY <1>9
<1>11. got' = got \cup {new} BY <1>1
<1> HIDE DEF w
<1>12. /\ dem' = [secure |-> dem.secure, keys |-> dem.keys, tsSeen |-> TRUE, lastTs |-> w.last, tsEpoch |-> w.epoch]
       /\ dem'.secure = dem.secure /\ dem'.keys = dem.keys /\ dem'.tsSeen = TRUE /\ dem'.lastTs = w.last
       /\ dem'.tsEpoch = w.epoch
  <2>1. dem' = [dem EXCEPT !.tsSeen = TRUE, !.lastTs = w.last, !.tsEpoch = w.epoch] BY <1>1 DEF w
  <2> QED BY <1>3, <2>1, ReceiverHas
<1> HIDE DEF new
<1>13. w.last \in 0 .. TsMod - 1 /\ w.epoch \in Nat /\ w.epoch % TsMod = 0 /\ w.ts = d.at BY <1>8 DEF WidenedTo
<1>14. /\ Datagrams("data")' = Datagrams("data") /\ Datagrams("key")' = Datagrams("key")
       /\ Newest' = Newest /\ Oldest' = Oldest /\ Srt!Half' = Srt!Half
       /\ \A x : Srt!Arrives(x)' <=> mux.now - x'.at <= MaxLate
  BY <1>2 DEF Datagrams, Newest, Oldest, Srt!Even, Srt!Odd, Srt!Half, Srt!Arrives
<1>15. Latest' = IF got = {} \/ d.at > Latest THEN d.at ELSE Latest
  <2>1. Latest' = w.epoch + w.last BY <1>11, <1>12 DEF Latest
  <2>2. w.epoch + w.last = IF got = {} \/ d.at > Latest THEN d.at ELSE Latest BY <1>8 DEF WidenedTo
  <2> QED BY <2>1, <2>2
<1>16. SrtTyped'
  <2>1. ReceiverIs(dem')
    <3>1. dem.keys \in KeyPairs BY <1>3, ReceiverHas
    <3> QED BY <1>12, <1>13, <3>1 DEF ReceiverIs
  <2> QED BY <1>2, <1>3, <2>1 DEF SrtTyped
<1>17. ClockOk'
  <2>1. \A r \in got' : r.n \in 1 .. Len(given) /\ r.ts = given[r.n]
    BY <1>3, <1>5, <1>10, <1>11, <1>13 DEF ClockOk
  <2>2. (\E r \in got' : given[r.n] = Latest') /\ \A r \in got' : given[r.n] <= Latest'
    <3> DEFINE l == Latest
               m == Latest'
    <3>1. given[new.n] = d.at BY <1>5, <1>10
    <3>2. got # {} => (\E r \in got : given[r.n] = l) /\ \A r \in got : given[r.n] <= l BY <1>3 DEF ClockOk
    <3>3. l \in Nat /\ d.at \in Nat /\ m = IF got = {} \/ d.at > l THEN d.at ELSE l BY <1>6, <1>7, <1>15
    <3>4. \A r \in got : given[r.n] \in Nat BY <1>3, SenderHas DEF ClockOk
    <3> HIDE DEF l, m
    <3>5. \E r \in got' : given[r.n] = m BY <1>11, <3>1, <3>2, <3>3
    <3>6. \A r \in got' : given[r.n] <= m BY <1>11, <3>1, <3>2, <3>3, <3>4
    <3> QED BY <3>5, <3>6 DEF m
  <2>3. mux.now = mux.start \/ mux.now + MaxLate - Latest' < Srt!Half
    <3> DEFINE l == Latest
               m == Latest'
               h == Srt!Half
    <3>1. mux.now = mux.start \/ mux.now + MaxLate - l < h BY <1>3 DEF ClockOk
    <3>2. /\ l \in Nat /\ d.at \in Nat /\ m = (IF got = {} \/ d.at > l THEN d.at ELSE l) /\ mux.now \in Nat
          /\ MaxLate \in Nat /\ h \in Nat /\ mux.start \in Nat
      BY <1>3, <1>6, <1>7, <1>15, SrtConstants, SenderHas
    <3>3. got = {} => l = mux.start BY DEF Latest
    <3>4. mux.start <= d.at BY <1>3, <1>5 DEF ClockOk
    <3> HIDE DEF l, m, h
    <3>5. mux.now = mux.start \/ mux.now + MaxLate - m < h BY <3>1, <3>2, <3>3, <3>4
    <3> QED BY <3>5 DEF m, h
  <2> QED BY <1>2, <1>3, <1>11, <1>12, <1>13, <1>14, <2>1, <2>2, <2>3 DEF ClockOk
<1>18. KeysOk'
  <2>1. BothSecure' BY <1>2, <1>3, <1>12, <1>14 DEF KeysOk, BothSecure
  <2>2. KeysHeld' BY <1>2, <1>3, <1>12, <1>14 DEF KeysOk, KeysHeld, Srt!Arrives
  <2>3. KeysArriving' BY <1>2, <1>3, <1>14 DEF KeysOk, KeysArriving, Srt!Arrives
  <2>4. \A r \in got' : r.clear BY <1>3, <1>10, <1>11 DEF KeysOk
  <2> QED BY <2>1, <2>2, <2>3, <2>4 DEF KeysOk
<1>19. TakenOnce'
  <2>1. Srt!Taken' = Srt!Taken \cup {d.n} BY <1>10, <1>11 DEF Srt!Taken
  <2>2. new \notin got BY <1>1, <1>10 DEF Srt!Taken
  <2>3. IsFiniteSet(got) /\ IsFiniteSet(Srt!Taken) /\ Cardinality(Srt!Taken) = Cardinality(got)
    BY <1>3 DEF TakenOnce
  <2>4. IsFiniteSet(got') /\ Cardinality(got') = Cardinality(got) + 1 BY <1>11, <2>2, <2>3, FS_AddElement
  <2>5. IsFiniteSet(Srt!Taken') /\ Cardinality(Srt!Taken') = Cardinality(Srt!Taken) + 1
    BY <1>1, <2>1, <2>3, FS_AddElement
  <2> QED BY <2>3, <2>4, <2>5 DEF TakenOnce
<1> QED BY <1>16, <1>17, <1>18, <1>19 DEF SrtInvariant

\* Every step of the payload of SRT keeps the invariant.
LEMMA SrtStep ==
    ASSUME SrtInvariant, [Srt!Next]_Srt!vars
    PROVE  SrtInvariant'
<1>1. ASSUME NEW step \in SrtSteps, Srt!Wait(step) PROVE SrtInvariant' BY <1>1, WaitStep
<1>2. CASE Srt!Write BY <1>2, WriteStep
<1>3. CASE Srt!RepeatKey BY <1>3, RepeatKeyStep
<1>4. CASE Srt!SwitchKey BY <1>4, SwitchKeyStep
<1>5. CASE Srt!HandleData BY <1>5, HandleDataStep
<1>6. ASSUME NEW b \in BOOLEAN, Srt!MakeKey(b) PROVE SrtInvariant' BY <1>6, MakeKeyStep
<1>7. ASSUME NEW b \in BOOLEAN, Srt!HandleKM(b) PROVE SrtInvariant' BY <1>7, HandleKMStep
<1>8. CASE UNCHANGED Srt!vars
  <2>1. mux' = mux /\ wire' = wire /\ dem' = dem /\ given' = given /\ got' = got BY <1>8 DEF Srt!vars
  <2>2. SrtTyped /\ ClockOk /\ KeysOk /\ TakenOnce BY DEF SrtInvariant
  <2>3. SrtTyped' BY <2>1, <2>2 DEF SrtTyped
  <2>4. Latest' = Latest /\ Newest' = Newest /\ Oldest' = Oldest /\ Datagrams("data")' = Datagrams("data")
        /\ Datagrams("key")' = Datagrams("key") /\ Srt!Half' = Srt!Half
        /\ \A x : Srt!Arrives(x)' <=> mux.now - x'.at <= MaxLate
    BY <2>1 DEF Latest, Newest, Oldest, Datagrams, Srt!Even, Srt!Odd, Srt!Half, Srt!Arrives
  <2>5. ClockOk' BY <2>1, <2>2, <2>4 DEF ClockOk
  <2>6. KeysOk' BY <2>1, <2>2, <2>4 DEF KeysOk, BothSecure, KeysHeld, KeysArriving, Srt!Arrives
  <2>7. TakenOnce' BY <2>1, <2>2 DEF TakenOnce, Srt!Taken
  <2> QED BY <2>3, <2>5, <2>6, <2>7 DEF SrtInvariant
<1> QED BY <1>1, <1>2, <1>3, <1>4, <1>5, <1>6, <1>7, <1>8 DEF Srt!Next

\* The clock that is widened is that of the latest packet, and the keys of the
\* two ends differ only where nothing that comes tells.
THEOREM PayloadInvariant == Spec => [](InSrt => SrtInvariant)
<1>1. Srt!Init => SrtInvariant BY SrtInitStep
<1>2. SrtInvariant /\ [Srt!Next]_Srt!vars => SrtInvariant' BY SrtStep
<1>3. Init /\ InSrt => Srt!Init BY DEF Init, InSrt
<1>4. InSrt /\ [Next]_vars => InSrt' BY PartStays DEF InSrt
<1>5. InSrt /\ [Next]_vars => [Srt!Next]_Srt!vars BY DEF Next, vars, Srt!vars, InSrt
<1>6. ~InSrt /\ [Next]_vars => ~InSrt' BY PartStays DEF InSrt
<1> QED BY <1>1, <1>2, <1>3, <1>4, <1>5, <1>6, PTL DEF Spec

\* An SRT packet is taken as it was written, at the time it was written: late
\* packets are widened to the turn of the clock they are of, and nothing is
\* decrypted with another key than its own (extendTs and handleData of conn.go,
\* applyKM of crypto.go).
THEOREM PayloadTakenAsWritten == Spec => [](InSrt => Srt!GivenAsTaken)
<1>1. SrtInvariant => Srt!GivenAsTaken BY DEF SrtInvariant, ClockOk, KeysOk, Srt!GivenAsTaken
<1> QED BY <1>1, PayloadInvariant, PTL

\* A connection has keys exactly if it is encrypted, the widened clock counts
\* whole turns, and no packet is put in rcvBuf twice.
THEOREM PayloadTypes == Spec => [](InSrt => Srt!TypeOK)
<1>1. SrtInvariant => Srt!TypeOK
  <2> SUFFICES ASSUME SrtTyped, ClockOk, KeysOk, TakenOnce PROVE Srt!TypeOK BY DEF SrtInvariant
  <2>1. mux.flag \in 0 .. 2 /\ mux.secure \in BOOLEAN /\ dem.lastTs \in 0 .. TsMod - 1
    BY DEF SrtTyped, SenderIs, ReceiverIs
  <2>2. mux.flag # 0 <=> mux.secure BY DEF KeysOk, BothSecure
  <2>3. (mux.flag # 0) = mux.secure BY <2>1, <2>2, Zenon
  <2>4. dem.tsEpoch % TsMod = 0 BY DEF ClockOk
  <2>5. Srt!Cardinality(Srt!Taken) = Srt!Cardinality(got) BY SrtCardinality DEF TakenOnce
  <2> QED BY <2>1, <2>3, <2>4, <2>5 DEF Srt!TypeOK
<1> QED BY <1>1, PayloadInvariant, PTL
==================================================================================
