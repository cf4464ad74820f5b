------------------------------ MODULE SrtConnIO ------------------------------
(***************************************************************************)
(* The goroutines that meet on one Conn of go-srt/conn.go: Reads and       *)
(* Writes of the application, Closes, the handler of arriving packets and  *)
(* the run loop.  What runs under Conn.mu is one action; what a goroutine  *)
(* does between letting the mutex go and taking it again is a step of its  *)
(* own: the gap in which wake-ups get lost.                                *)
(*                                                                         *)
(* Data are counted: ready is the sequence of the unread lengths of the    *)
(* messages, and the send buffer a number of packets.  What the peer       *)
(* sends, when it acknowledges and how old packets are, is SrtLink's       *)
(* business and arbitrary here.                                            *)
(***************************************************************************)
EXTENDS Integers, Sequences

CONSTANTS
    Readers, Writers, Closers,  \* goroutines in Read, Write, Close
    MaxReady,       \* maxReadyQueue
    MsgLen,         \* bound: the longest message, in units of a Read's buffer
    SendBufferSize, \* SendBufferSize, in packets
    MaxChunks,      \* bound: packets one Write is split into
    Deadlines       \* FALSE: no deadline is ever set

ASSUME IOAssumption ==
    /\ MaxReady \in Nat \ {0} /\ MsgLen \in Nat \ {0}
    /\ SendBufferSize \in Nat \ {0} /\ MaxChunks \in Nat \ {0}
    /\ Deadlines \in BOOLEAN

VARIABLES
    ready,      \* ready
    token,      \* readyNotify holds its one token
    used,       \* packets in sndBuf
    delayed,    \* the oldest of them has waited MaxSendDelay
    closing, closed, closeErr,  \* done is closed when closed is set
    readDeadline, writeDeadline,
    rpc,        \* Read: "idle", "loop", "pass", "arm" or "wait"
    rdl,        \* the deadline a Read copied
    rfired,     \* its timer has fired
    wpc,        \* Write: "idle", "loop" or "wait"
    left,       \* packets a Write still has to place
    woken,      \* the sendWake a Write waits on has been closed
    wfired,     \* its timer has fired
    cpc,        \* Close: "idle", "linger" or "done"
    shutdowns,  \* shutdown packets sent
    released    \* times onClose was started

readVars  == <<rpc, rdl, rfired>>
writeVars == <<wpc, left, woken, wfired>>
closeVars == <<closing, closed, closeErr, cpc, shutdowns, released>>
vars == <<ready, token, used, delayed, readDeadline, writeDeadline,
          readVars, writeVars, closeVars>>

Deadline == {"none", "future", "past"}
CloseErr == {"nil", "closed", "shutdown", "idle"}

(* newConn *)
Init ==
    /\ ready = <<>> /\ token = FALSE /\ used = 0 /\ delayed = FALSE
    /\ closing = FALSE /\ closed = FALSE /\ closeErr = "nil"
    /\ readDeadline = "none" /\ writeDeadline = "none"
    /\ rpc = [r \in Readers |-> "idle"] /\ rdl = [r \in Readers |-> "none"]
    /\ rfired = [r \in Readers |-> FALSE]
    /\ wpc = [w \in Writers |-> "idle"] /\ left = [w \in Writers |-> 0]
    /\ woken = [w \in Writers |-> FALSE] /\ wfired = [w \in Writers |-> FALSE]
    /\ cpc = [c \in Closers |-> "idle"] /\ shutdowns = 0 /\ released = 0

-------------------------------------------------------------------------------
(* Read *)
ReadCall(r) ==
    /\ rpc[r] = "idle"
    /\ rpc' = [rpc EXCEPT ![r] = "loop"]
    /\ UNCHANGED <<ready, token, used, delayed, readDeadline, writeDeadline, rdl, rfired,
                   writeVars, closeVars>>

\* The message at the front, or n units of it when it is longer.
Consume(n) ==
    IF n < Head(ready) THEN [ready EXCEPT ![1] = @ - n] ELSE Tail(ready)

\* One look at the connection, under the mutex: Close was called; a message,
\* into a buffer of n units; closed; or nothing, and the deadline is copied.
ReadLoop(r, n) ==
    /\ rpc[r] = "loop"
    /\ \/ closing /\ rpc' = [rpc EXCEPT ![r] = "pass"] /\ UNCHANGED <<ready, rdl>>
       \/ /\ ~closing /\ ready # <<>>
          /\ ready' = Consume(n)
          /\ rpc' = [rpc EXCEPT ![r] = "idle"]
          /\ UNCHANGED rdl
       \/ /\ ~closing /\ ready = <<>> /\ closed
          /\ rpc' = [rpc EXCEPT ![r] = "idle"]
          /\ UNCHANGED <<ready, rdl>>
       \/ /\ ~closing /\ ready = <<>> /\ ~closed
          /\ rdl' = [rdl EXCEPT ![r] = readDeadline]
          /\ rpc' = [rpc EXCEPT ![r] = "arm"]
          /\ UNCHANGED ready
    /\ UNCHANGED <<token, used, delayed, readDeadline, writeDeadline, rfired, writeVars, closeVars>>

\* Mutant of ReadPass: the wake-up ends with the first Read.
ReadPassNot(r) ==
    /\ rpc[r] = "pass"
    /\ rpc' = [rpc EXCEPT ![r] = "idle"]
    /\ UNCHANGED <<ready, token, used, delayed, readDeadline, writeDeadline, rdl, rfired,
                   writeVars, closeVars>>

\* Having let the mutex go, a Read that Close ends passes the wake-up on.
ReadPass(r) ==
    /\ rpc[r] = "pass"
    /\ token' = TRUE
    /\ rpc' = [rpc EXCEPT ![r] = "idle"]
    /\ UNCHANGED <<ready, used, delayed, readDeadline, writeDeadline, rdl, rfired,
                   writeVars, closeVars>>

\* Without the mutex: a deadline past by now ends the call, one still to
\* come starts a timer.
ReadArm(r) ==
    /\ rpc[r] = "arm"
    /\ \/ rdl[r] # "none" /\ rpc' = [rpc EXCEPT ![r] = "idle"]
       \/ rdl[r] # "past" /\ rpc' = [rpc EXCEPT ![r] = "wait"]
    /\ rfired' = [rfired EXCEPT ![r] = FALSE]
    /\ UNCHANGED <<ready, token, used, delayed, readDeadline, writeDeadline, rdl,
                   writeVars, closeVars>>

\* The select: the token, done, or the timer, which ends the call.
ReadWake(r) ==
    /\ rpc[r] = "wait"
    /\ \/ token /\ token' = FALSE /\ rpc' = [rpc EXCEPT ![r] = "loop"]
       \/ closed /\ rpc' = [rpc EXCEPT ![r] = "loop"] /\ UNCHANGED token
       \/ rfired[r] /\ rpc' = [rpc EXCEPT ![r] = "idle"] /\ UNCHANGED token
    /\ UNCHANGED <<ready, used, delayed, readDeadline, writeDeadline, rdl, rfired,
                   writeVars, closeVars>>

-------------------------------------------------------------------------------
(* Write *)
\* Mutant of sendFull: off by one.
sendFullLate(u, d) == u > 0 /\ (u > SendBufferSize \/ d)

sendFull(u, d) == u > 0 /\ (u + 1 > SendBufferSize \/ d)

WriteCall(w, n) ==
    /\ wpc[w] = "idle"
    /\ wpc' = [wpc EXCEPT ![w] = "loop"]
    /\ left' = [left EXCEPT ![w] = n]
    /\ UNCHANGED <<ready, token, used, delayed, readDeadline, writeDeadline, readVars,
                   woken, wfired, closeVars>>

\* Mutant of WriteStops: after a wait the close flags are not looked at.
WriteStopsNever == closed

\* Write and waitSendRoom stop when the connection is closed or closing.
WriteStops == closing \/ closed

\* Under the mutex: as many packets as fit; when some are left, the call
\* ends at a deadline already past, or takes hold of sendWake and waits.
WriteLoop(w) ==
    /\ wpc[w] = "loop"
    /\ \/ /\ WriteStops
          /\ wpc' = [wpc EXCEPT ![w] = "idle"]
          /\ UNCHANGED <<used, left, woken, wfired>>
       \/ /\ ~WriteStops
          /\ \E k \in 0 .. left[w] :
               /\ \A i \in 0 .. (k - 1) : ~sendFull(used + i, delayed)
               /\ k < left[w] => sendFull(used + k, delayed)
               /\ used' = used + k
               /\ left' = [left EXCEPT ![w] = @ - k]
               /\ wpc' = [wpc EXCEPT ![w] =
                    IF k = left[w] \/ writeDeadline = "past" THEN "idle" ELSE "wait"]
          /\ woken' = [woken EXCEPT ![w] = FALSE]
          /\ wfired' = [wfired EXCEPT ![w] = FALSE]
    /\ UNCHANGED <<ready, token, delayed, readDeadline, writeDeadline, readVars, closeVars>>

\* The select: sendWake, done or the timer; each makes it look again.
WriteWake(w) ==
    /\ wpc[w] = "wait"
    /\ woken[w] \/ closed \/ wfired[w]
    /\ wpc' = [wpc EXCEPT ![w] = "loop"]
    /\ UNCHANGED <<ready, token, used, delayed, readDeadline, writeDeadline, readVars,
                   left, woken, wfired, closeVars>>

\* Mutant of wakeWriters: one Write is woken, as a token in a channel would.
wakeOneWriter ==
    \/ \E w \in Writers : wpc[w] = "wait" /\ woken' = [woken EXCEPT ![w] = TRUE]
    \/ (\A w \in Writers : wpc[w] # "wait") /\ UNCHANGED woken

\* wakeWriters: every Write that waits holds the channel this closes.
wakeWriters == woken' = [w \in Writers |-> woken[w] \/ wpc[w] = "wait"]

-------------------------------------------------------------------------------
(* Deadlines *)
\* Mutant of SetReadDeadline: a Read that waits is not woken.
SetReadDeadlineSilent(d) ==
    /\ Deadlines
    /\ readDeadline' = d
    /\ UNCHANGED <<ready, token, used, delayed, writeDeadline, readVars, writeVars, closeVars>>

SetReadDeadline(d) ==
    /\ Deadlines
    /\ readDeadline' = d
    /\ token' = TRUE
    /\ UNCHANGED <<ready, used, delayed, writeDeadline, readVars, writeVars, closeVars>>

SetWriteDeadline(d) ==
    /\ Deadlines
    /\ writeDeadline' = d
    /\ wakeWriters
    /\ UNCHANGED <<ready, token, used, delayed, readDeadline, readVars, wpc, left, wfired, closeVars>>

\* Time passes a deadline. The timer of a Read fires for the deadline it
\* copied, that of a Write for the one it last looked at, which is the
\* current one or it has been woken.
DeadlinePasses ==
    /\ \/ readDeadline = "future" /\ readDeadline' = "past" /\ UNCHANGED writeDeadline
       \/ writeDeadline = "future" /\ writeDeadline' = "past" /\ UNCHANGED readDeadline
    /\ UNCHANGED <<ready, token, used, delayed, readVars, writeVars, closeVars>>

ReadTimer(r) ==
    /\ rpc[r] = "wait" /\ rdl[r] = "future" /\ ~rfired[r]
    /\ rfired' = [rfired EXCEPT ![r] = TRUE]
    /\ UNCHANGED <<ready, token, used, delayed, readDeadline, writeDeadline, rpc, rdl,
                   writeVars, closeVars>>

WriteTimer(w) ==
    /\ wpc[w] = "wait" /\ writeDeadline = "past" /\ ~wfired[w]
    /\ wfired' = [wfired EXCEPT ![w] = TRUE]
    /\ UNCHANGED <<ready, token, used, delayed, readDeadline, writeDeadline, readVars,
                   wpc, left, woken, closeVars>>

-------------------------------------------------------------------------------
(* Packets and the run loop *)

\* Mutants of Deliver: the queue is not limited; no Read is woken.
DeliverUncapped(ms) ==
    /\ ~closing /\ ~closed
    /\ ready' = ready \o ms
    /\ token' = TRUE
    /\ UNCHANGED <<used, delayed, readDeadline, writeDeadline, readVars, writeVars, closeVars>>

DeliverSilent(ms) ==
    /\ ~closing /\ ~closed
    /\ Len(ready) + Len(ms) <= MaxReady
    /\ ready' = ready \o ms
    /\ UNCHANGED <<token, used, delayed, readDeadline, writeDeadline, readVars, writeVars,
                   closeVars>>

\* deliver, in handleData or tick: messages of the given lengths, those that
\* find room, join ready, and one token tells of them all.
Deliver(ms) ==
    /\ ~closing /\ ~closed
    /\ Len(ready) + Len(ms) <= MaxReady
    /\ ready' = ready \o ms
    /\ token' = TRUE
    /\ UNCHANGED <<used, delayed, readDeadline, writeDeadline, readVars, writeVars, closeVars>>

\* Mutant of ReleaseSent: Writes are not woken.
ReleaseSentSilent(n) ==
    /\ ~closed
    /\ used' = used - n
    /\ delayed' \in IF used' = 0 THEN {FALSE} ELSE {delayed, FALSE}
    /\ UNCHANGED <<ready, token, readDeadline, writeDeadline, readVars, writeVars, closeVars>>

\* releaseSent, for an ACK or for age.
ReleaseSent(n) ==
    /\ ~closed
    /\ used' = used - n
    /\ delayed' \in IF used' = 0 THEN {FALSE} ELSE {delayed, FALSE}
    /\ wakeWriters
    /\ UNCHANGED <<ready, token, readDeadline, writeDeadline, readVars, wpc, left, wfired, closeVars>>

\* The oldest packet reaches MaxSendDelay.
OldestAges ==
    /\ used > 0 /\ ~delayed
    /\ delayed' = TRUE
    /\ UNCHANGED <<ready, token, used, readDeadline, writeDeadline, readVars, writeVars, closeVars>>

closeLocked(err) ==
    /\ ~closed
    /\ closed' = TRUE /\ closeErr' = err
    /\ released' = released + 1

\* The peer's shutdown: flushReceived hands over what is buffered (nothing
\* once Close was called) and wakes a Read.
HandleShutdown(ms) ==
    /\ Len(ready) + Len(ms) <= MaxReady
    /\ closing => ms = <<>>
    /\ ready' = ready \o ms
    /\ token' = TRUE
    /\ closeLocked("shutdown")
    /\ UNCHANGED <<used, delayed, readDeadline, writeDeadline, readVars, writeVars,
                   closing, cpc, shutdowns>>

\* tick finds the peer silent for PeerIdleTimeout.
PeerIdle ==
    /\ closeLocked("idle")
    /\ UNCHANGED <<ready, token, used, delayed, readDeadline, writeDeadline, readVars, writeVars,
                   closing, cpc, shutdowns>>

-------------------------------------------------------------------------------
(* Close *)

\* Mutant of CloseStart: Reads are left to done, which closes after the linger.
CloseStartSilent(c) ==
    /\ closing' = TRUE
    /\ ready' = <<>>
    /\ wakeWriters
    /\ UNCHANGED token

\* The first Close drops what was not read and wakes Writes and a Read.
CloseStart(c) ==
    /\ closing' = TRUE
    /\ ready' = <<>>
    /\ token' = TRUE
    /\ wakeWriters

CloseCall(c) ==
    /\ cpc[c] = "idle"
    /\ cpc' = [cpc EXCEPT ![c] = "linger"]
    /\ \/ ~closing /\ CloseStart(c)
       \/ closing /\ UNCHANGED <<closing, ready, token, woken>>
    /\ UNCHANGED <<used, delayed, readDeadline, writeDeadline, readVars, wpc, left, wfired,
                   closed, closeErr, shutdowns, released>>

\* Mutant of CloseEnd: the close flag is not looked at again after the sleep.
CloseEndBlind(c) ==
    /\ cpc[c] = "linger"
    /\ cpc' = [cpc EXCEPT ![c] = "done"]
    /\ shutdowns' = shutdowns + 1
    /\ closed' = TRUE /\ closeErr' = "closed" /\ released' = released + 1
    /\ UNCHANGED <<ready, token, used, delayed, readDeadline, writeDeadline, readVars, writeVars,
                   closing>>

\* The linger ends, for whatever reason. Nothing is left to do if the
\* connection is closed; else the peer is told.
CloseEnd(c) ==
    /\ cpc[c] = "linger"
    /\ cpc' = [cpc EXCEPT ![c] = "done"]
    /\ \/ closed /\ UNCHANGED <<closed, closeErr, shutdowns, released>>
       \/ closeLocked("closed") /\ shutdowns' = shutdowns + 1
    /\ UNCHANGED <<ready, token, used, delayed, readDeadline, writeDeadline, readVars, writeVars,
                   closing>>

-------------------------------------------------------------------------------
Messages(k) == UNION {[1 .. n -> 1 .. MsgLen] : n \in 1 .. k}

Next ==
    \/ \E r \in Readers : \/ ReadCall(r) \/ ReadPass(r) \/ ReadArm(r) \/ ReadWake(r)
                          \/ \E n \in 1 .. MsgLen : ReadLoop(r, n)
    \/ \E w \in Writers : \/ WriteLoop(w) \/ WriteWake(w)
                          \/ \E n \in 1 .. MaxChunks : WriteCall(w, n)
    \/ \E c \in Closers : CloseCall(c) \/ CloseEnd(c)
    \/ \E d \in Deadline : SetReadDeadline(d) \/ SetWriteDeadline(d)
    \/ DeadlinePasses
    \/ \E r \in Readers : ReadTimer(r)
    \/ \E w \in Writers : WriteTimer(w)
    \/ \E ms \in Messages(MaxReady) : Deliver(ms)
    \/ \E n \in 1 .. used : ReleaseSent(n)
    \/ OldestAges
    \/ \E ms \in Messages(MaxReady) \cup {<<>>} : HandleShutdown(ms)
    \/ PeerIdle

Spec == Init /\ [][Next]_vars

(***************************************************************************)
(* Fairness.  A goroutine that can run does, a select that stays ready is  *)
(* taken (the token may go to another Read each time, so this is weak      *)
(* fairness), and a timer fires.  Nothing is assumed of the peer, of the   *)
(* application's next calls, or of the linger of Close, which may take as  *)
(* long as the latency.                                                    *)
(***************************************************************************)
Fairness ==
    /\ \A r \in Readers : /\ WF_vars(\E n \in 1 .. MsgLen : ReadLoop(r, n))
                          /\ WF_vars(ReadPass(r)) /\ WF_vars(ReadArm(r)) /\ WF_vars(ReadWake(r))
                          /\ WF_vars(ReadTimer(r))
    /\ \A w \in Writers : /\ WF_vars(WriteLoop(w)) /\ WF_vars(WriteWake(w))
                          /\ WF_vars(WriteTimer(w))

FairSpec == Spec /\ Fairness

-------------------------------------------------------------------------------
TypeOK ==
    /\ ready \in Seq(Nat) /\ Len(ready) <= MaxReady
    /\ token \in BOOLEAN /\ used \in Nat /\ delayed \in BOOLEAN
    /\ closing \in BOOLEAN /\ closed \in BOOLEAN /\ closeErr \in CloseErr
    /\ readDeadline \in Deadline /\ writeDeadline \in Deadline
    /\ rpc \in [Readers -> {"idle", "loop", "pass", "arm", "wait"}]
    /\ rdl \in [Readers -> Deadline] /\ rfired \in [Readers -> BOOLEAN]
    /\ wpc \in [Writers -> {"idle", "loop", "wait"}] /\ left \in [Writers -> Nat]
    /\ woken \in [Writers -> BOOLEAN] /\ wfired \in [Writers -> BOOLEAN]
    /\ cpc \in [Closers -> {"idle", "linger", "done"}]
    /\ shutdowns \in Nat /\ released \in Nat

\* No Write sleeps through its wake-up: one that waits on a channel not yet
\* closed has no room, and nobody has called Close (waitSendRoom lets the
\* mutex go only after it took hold of sendWake).
NoLostWriteWakeup ==
    \A w \in Writers : (wpc[w] = "wait" /\ ~woken[w]) => sendFull(used, delayed) /\ ~closing

\* No Read sleeps through Close: while any Read may wait, the wake-up is in
\* the channel or with a Read that will see the flag and pass it on (Read,
\* notify), or done is closed.
CloseReachesReads ==
    (closing /\ ~closed /\ \E r \in Readers : rpc[r] \in {"arm", "wait"})
        => token \/ \E r \in Readers : rpc[r] \in {"loop", "pass"}

\* However Closes, the peer's shutdown and the idle timeout interleave, the
\* connection is closed once: one shutdown packet at most and none to a peer
\* that is gone, onClose started once, and no Close returns before that.
ClosedOnce ==
    /\ released = (IF closed THEN 1 ELSE 0)
    /\ shutdowns = (IF closeErr = "closed" THEN 1 ELSE 0)
    /\ (\E c \in Closers : cpc[c] = "done") => closed

\* The send buffer is bounded by SendBufferSize however Writes interleave
\* (a packet always goes into an empty buffer).
SendBufferBounded == used <= SendBufferSize

\* From the moment Close is called nothing is sent, not even by a Write that
\* was waiting for room, and nothing read.
NothingAfterClose == [][closing => used' <= used /\ ready' = ready]_vars

\* A Read does not wait for ever next to a message (deliver, notify, Read).
NoReadLeftWaiting == \A r \in Readers : ~<>[](rpc[r] = "wait" /\ ready # <<>>)

\* A Write does not wait for ever when there is room.
NoWriteLeftWaiting ==
    \A w \in Writers : ~<>[](wpc[w] = "wait" /\ ~sendFull(used, delayed))

\* The claim that Conn implements net.Conn, whose SetReadDeadline applies to the
\* Reads that wait already: none waits for ever past a deadline that is left alone.
DeadlineEndsReads == \A r \in Readers : ~<>[](readDeadline = "past" /\ rpc[r] = "wait")
===============================================================================
