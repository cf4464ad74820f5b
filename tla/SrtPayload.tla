------------------------------- MODULE SrtPayload -------------------------------
(***************************************************************************)
(* What an SRT data packet carries besides its number (go-srt, conn.go and *)
(* crypto.go): the time it was written, in 32 bits of microseconds, and a  *)
(* payload under one of two keys, which the sender refreshes in the        *)
(* stream.  SrtLink is about the numbers; here a packet is its place in    *)
(* the stream, and may arrive, again or for the first time, at any moment  *)
(* up to MaxLate after it was written.                                     *)
(*                                                                         *)
(* This package sends with the even key it began with.  A peer that makes  *)
(* new keys, as libsrt does, is not part of the repository; what it sends  *)
(* is what applyKM is written for.                                         *)
(***************************************************************************)
EXTENDS Integers, Sequences, FiniteSets

CONSTANTS
    TsMod,     \* 2^32
    Starts,    \* the clock when the stream begins, within its first turn
    Steps,     \* how long a sender may wait between two events
    MaxLate,   \* how late a datagram may arrive
    MaxData,   \* bound: packets written
    MaxKeys    \* bound: keys made

PayloadAssumption ==
    /\ TsMod \in Nat \ {0} /\ TsMod % 2 = 0 /\ {MaxLate, MaxData, MaxKeys} \subseteq Nat /\ Steps \subseteq Nat
    \* Nobody waits so long that the wrap of the clock cannot be told.
    /\ \A step \in Steps : step + MaxLate < TsMod \div 2
    /\ Starts \subseteq 0..TsMod - 1

VARIABLES
    mux,   \* the sender: its clock, its keys
    wire,  \* the datagrams, data and key messages
    dem,   \* the receiving Conn: the keys of cryptoCtx and the widened clock
    given, \* what was written
    got    \* what was put in rcvBuf

vars == <<mux, wire, dem, given, got>>

Even == 1
Odd  == 2
NoKeys == [flag \in {Even, Odd} |-> 0]

\* newCryptoCtx and marshalKM: the even key comes with the handshake.
Init ==
    /\ \E secure \in BOOLEAN, foreign \in BOOLEAN, start \in Starts :
          LET keys == IF secure THEN [NoKeys EXCEPT ![Even] = 1] ELSE NoKeys
          IN  /\ mux = [secure |-> secure, refreshes |-> secure /\ foreign, start |-> start, now |-> start, wait |-> 0, keys |-> keys,
                        flag |-> IF secure THEN Even ELSE 0, made |-> 1, confirmed |-> TRUE]
              /\ dem = [secure |-> secure, keys |-> keys, tsSeen |-> FALSE, lastTs |-> 0, tsEpoch |-> 0]
    /\ wire = {} /\ given = <<>> /\ got = {}

--------------------------------------------------------------------------------
(* The sender                                                              *)

\* The time of the last packet the receiver has.
Heard == LET times == {mux.start} \cup {given[r.n] : r \in got} IN CHOOSE t \in times : \A u \in times : u <= t

\* Time passes while nothing is written, but never half a turn of the clock, 36
\* minutes, without a packet that arrives, and never over the wrap before the
\* first does: extendTs takes the first one it sees for one of the first turn.
Wait(step) ==
    /\ mux.wait = 0 /\ Len(given) < MaxData
    /\ mux.now + step + MaxLate - Heard < TsMod \div 2 /\ (got # {} \/ mux.now + step < TsMod)
    /\ mux' = [mux EXCEPT !.now = @ + step, !.wait = 1]
    /\ UNCHANGED <<wire, dem, given, got>>

\* Write: the timestamp is now32.
Write ==
    /\ Len(given) < MaxData
    /\ wire' = wire \cup {[kind |-> "data", n |-> Len(given) + 1, ts |-> mux.now % TsMod, flag |-> mux.flag,
                           key |-> IF mux.flag = 0 THEN 0 ELSE mux.keys[mux.flag], at |-> mux.now]}
    /\ given' = Append(given, mux.now)
    /\ mux' = [mux EXCEPT !.wait = 0]
    /\ UNCHANGED <<dem, got>>

Arrives(d) == mux.now - d.at <= MaxLate

\* A peer makes a key for the slot it does not use, once nothing under the one
\* it held can still arrive, and announces it, alone or with the one in use.
MakeKey(both) ==
    /\ mux.refreshes /\ mux.made < MaxKeys /\ mux.confirmed /\ mux.keys[mux.flag] = mux.made
    /\ LET slot == Even + Odd - mux.flag
           keys == [mux.keys EXCEPT ![slot] = mux.made + 1]
       IN  /\ \A d \in wire : d.kind = "data" /\ d.flag = slot => ~Arrives(d)
           /\ mux' = [mux EXCEPT !.made = @ + 1, !.keys = keys, !.confirmed = FALSE]
           /\ wire' = {d \in wire : d.kind # "key"} \cup
                      {[kind |-> "key", keys |-> IF both THEN keys ELSE [keys EXCEPT ![mux.flag] = 0], at |-> mux.now]}
    /\ UNCHANGED <<dem, given, got>>

\* It says so again as long as it is not confirmed.
RepeatKey ==
    /\ ~mux.confirmed
    /\ wire' = {IF d.kind = "key" THEN [d EXCEPT !.at = mux.now] ELSE d : d \in wire}
    /\ UNCHANGED <<mux, dem, given, got>>

\* It begins to use the new key; before the receiver has confirmed it only if
\* there was none in its slot, for nothing tells a wrong key from a right one.
SwitchKey ==
    /\ mux.refreshes /\ mux.keys[Even + Odd - mux.flag] = mux.made
    /\ mux.confirmed \/ mux.made = 2
    /\ mux' = [mux EXCEPT !.flag = Even + Odd - @]
    /\ UNCHANGED <<wire, dem, given, got>>

--------------------------------------------------------------------------------
(* The receiver                                                            *)

Half == TsMod \div 2
\* extendTs: [ts, last, epoch], the widened timestamp and the clock after it
Widened(ts, last, epoch) == [ts |-> ts, last |-> last, epoch |-> epoch]
\* Mutant: a packet from before the wrap is one from after it.
ExtendTsLate(ts) ==
    LET e == dem.tsEpoch IN
    IF ~dem.tsSeen THEN Widened(ts, ts, e)
    ELSE IF ts < dem.lastTs /\ dem.lastTs - ts > Half THEN Widened(e + TsMod + ts, ts, e + TsMod)
    ELSE IF ts > dem.lastTs THEN Widened(e + ts, ts, e) ELSE Widened(e + ts, dem.lastTs, e)
ExtendTs(ts) ==
    LET e == dem.tsEpoch IN
    IF ~dem.tsSeen THEN Widened(ts, ts, e)
    ELSE IF ts < dem.lastTs /\ dem.lastTs - ts > Half THEN Widened(e + TsMod + ts, ts, e + TsMod)
    ELSE IF ts > dem.lastTs /\ ts - dem.lastTs > Half
         THEN Widened(IF e > 0 THEN e - TsMod + ts ELSE e + ts, dem.lastTs, e)
    ELSE Widened(e + ts, IF ts > dem.lastTs THEN ts ELSE dem.lastTs, e)

Taken == {r.n : r \in got}
\* handleData refuses a clear packet on an encrypted connection and the other way
\* round, and one under a key it does not have.
Refused(d) == dem.secure # (d.flag # 0) \/ (d.flag # 0 /\ dem.keys[d.flag] = 0)

\* handleData of a packet that is not there yet; what is wrongly decrypted has
\* another key's number for a payload.
HandleData ==
    /\ \E d \in {x \in wire : x.kind = "data"} :
          /\ Arrives(d) /\ d.n \notin Taken /\ ~Refused(d)
          /\ LET w == ExtendTs(d.ts)
             IN  /\ dem' = [dem EXCEPT !.tsSeen = TRUE, !.lastTs = w.last, !.tsEpoch = w.epoch]
                 /\ got' = got \cup {[n |-> d.n, ts |-> w.ts, clear |-> d.flag = 0 \/ dem.keys[d.flag] = d.key]}
    /\ UNCHANGED <<mux, wire, given>>

\* Mutant: a message with one key sets the even one.
ApplyKMEven(keys) ==
    IF keys[Even] # 0 /\ keys[Odd] # 0 THEN keys
    ELSE [dem.keys EXCEPT ![Even] = IF keys[Even] # 0 THEN keys[Even] ELSE keys[Odd]]
\* applyKM, with setKey
ApplyKM(keys) == [flag \in {Even, Odd} |-> IF keys[flag] # 0 THEN keys[flag] ELSE dem.keys[flag]]

\* handlePacket of a key message, and the peer that gets the confirmation; which
\* may be lost.
HandleKM(reaches) ==
    /\ \E d \in {x \in wire : x.kind = "key"} :
          /\ Arrives(d) /\ dem.secure
          /\ dem' = [dem EXCEPT !.keys = ApplyKM(d.keys)]
    /\ mux' = [mux EXCEPT !.confirmed = @ \/ reaches]
    /\ UNCHANGED <<wire, given, got>>

Next ==
    \/ \E step \in Steps : Wait(step)
    \/ Write \/ RepeatKey \/ SwitchKey \/ HandleData
    \/ \E b \in BOOLEAN : MakeKey(b) \/ HandleKM(b)

Spec == Init /\ [][Next]_vars

--------------------------------------------------------------------------------
TypeOK ==
    /\ mux.flag \in 0..2 /\ (mux.flag # 0) = mux.secure
    /\ dem.lastTs \in 0..TsMod - 1 /\ dem.tsEpoch % TsMod = 0
    /\ Cardinality(Taken) = Cardinality(got)

\* What is taken is what was written, at the time it was written, whatever came
\* late, and whichever key a packet overtook or was overtaken by.
GivenAsTaken == \A r \in got : r.clear /\ r.ts = given[r.n]
================================================================================
