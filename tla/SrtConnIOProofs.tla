---------------------------- MODULE SrtConnIOProofs ----------------------------
(***************************************************************************)
(* Proofs about SrtConnIO, for any number of goroutines in Read, Write and *)
(* Close and any buffer and queue size.                                    *)
(***************************************************************************)
EXTENDS SrtConnIO, TLAPS

\* closeErr is set exactly when the connection closes (closeLocked).
ErrWithClose == ~closed => closeErr = "nil"

IOInv ==
    /\ TypeOK /\ NoLostWriteWakeup /\ CloseReachesReads
    /\ ClosedOnce /\ ErrWithClose /\ SendBufferBounded

\* Consume leaves a queue that is no longer than before (Read).
LEMMA ConsumeType ==
    ASSUME ready \in Seq(Nat), ready # <<>>, Len(ready) <= MaxReady, NEW n \in Nat
    PROVE  Consume(n) \in Seq(Nat) /\ Len(Consume(n)) <= MaxReady
<1>1. CASE n < Head(ready)
  <2>1. Head(ready) \in Nat /\ Head(ready) = ready[1] /\ Len(ready) \in Nat /\ Len(ready) >= 1 OBVIOUS
  <2>2. ready[1] - n \in Nat BY <1>1, <2>1
  <2>3. [ready EXCEPT ![1] = ready[1] - n] \in Seq(Nat)
        /\ Len([ready EXCEPT ![1] = ready[1] - n]) = Len(ready)
    BY <2>1, <2>2
  <2> QED BY <1>1, <2>3 DEF Consume
<1>2. CASE ~(n < Head(ready))
  BY <1>2, IOAssumption DEF Consume
<1> QED BY <1>1, <1>2

\* A fresh Conn satisfies the invariant.
LEMMA InitIO == Init => IOInv
<1> SUFFICES ASSUME Init PROVE IOInv
  OBVIOUS
<1>1. TypeOK
  <2>1. <<>> \in Seq(Nat) /\ Len(<<>>) = 0 OBVIOUS
  <2>2. /\ ready \in Seq(Nat) /\ Len(ready) <= MaxReady /\ used \in Nat
        /\ left \in [Writers -> Nat] /\ shutdowns \in Nat /\ released \in Nat
    BY <2>1, IOAssumption DEF Init
  <2>3. /\ token \in BOOLEAN /\ delayed \in BOOLEAN /\ closing \in BOOLEAN /\ closed \in BOOLEAN
        /\ rfired \in [Readers -> BOOLEAN] /\ woken \in [Writers -> BOOLEAN]
        /\ wfired \in [Writers -> BOOLEAN]
    BY Zenon DEF Init
  <2>4. /\ closeErr \in CloseErr /\ readDeadline \in Deadline /\ writeDeadline \in Deadline
        /\ rpc \in [Readers -> {"idle", "loop", "pass", "arm", "wait"}]
        /\ rdl \in [Readers -> Deadline] /\ wpc \in [Writers -> {"idle", "loop", "wait"}]
        /\ cpc \in [Closers -> {"idle", "linger", "done"}]
    BY DEF Init, Deadline, CloseErr
  <2> QED BY <2>2, <2>3, <2>4 DEF TypeOK
<1>2. NoLostWriteWakeup /\ CloseReachesReads BY DEF Init, NoLostWriteWakeup, CloseReachesReads
<1>3. ClosedOnce /\ ErrWithClose BY DEF Init, ClosedOnce, ErrWithClose
<1>4. SendBufferBounded BY IOAssumption DEF Init, SendBufferBounded
<1> QED BY <1>1, <1>2, <1>3, <1>4 DEF IOInv

\* A step of a Read changes neither the send buffer nor the close state.
LEMMA ReadStep ==
    ASSUME IOInv, NEW r \in Readers,
           ReadCall(r) \/ ReadPass(r) \/ ReadArm(r) \/ ReadWake(r) \/ ReadTimer(r)
           \/ \E n \in 1 .. MsgLen : ReadLoop(r, n)
    PROVE  IOInv'
<1> USE DEF readVars, writeVars, closeVars
<1>1. UNCHANGED <<used, delayed, writeVars, closeVars, readDeadline, writeDeadline>>
  BY DEF ReadCall, ReadPass, ReadArm, ReadWake, ReadTimer, ReadLoop
<1>2. TypeOK'
  <2>1. CASE \E n \in 1 .. MsgLen : ReadLoop(r, n)
    <3>1. PICK n \in 1 .. MsgLen : ReadLoop(r, n) BY <2>1
    <3>2. n \in Nat BY IOAssumption
    <3>3. ready' \in Seq(Nat) /\ Len(ready') <= MaxReady
      BY <3>1, <3>2, ConsumeType DEF ReadLoop, IOInv, TypeOK
    <3> QED BY <3>1, <3>3, <1>1 DEF ReadLoop, IOInv, TypeOK
  <2>2. CASE ReadCall(r) \/ ReadPass(r) \/ ReadArm(r) \/ ReadWake(r) \/ ReadTimer(r)
    BY <2>2, <1>1 DEF ReadCall, ReadPass, ReadArm, ReadWake, ReadTimer, IOInv, TypeOK
  <2> QED BY <2>1, <2>2
<1>3. NoLostWriteWakeup' BY <1>1 DEF IOInv, NoLostWriteWakeup, sendFull
<1>4. ClosedOnce' /\ ErrWithClose' /\ SendBufferBounded'
  BY <1>1 DEF IOInv, ClosedOnce, ErrWithClose, SendBufferBounded
<1>5. CloseReachesReads'
  <2> SUFFICES ASSUME closing, ~closed, NEW q \in Readers, rpc'[q] \in {"arm", "wait"}
               PROVE  token' \/ \E p \in Readers : rpc'[p] \in {"loop", "pass"}
    BY <1>1 DEF CloseReachesReads
  <2>0. rpc \in [Readers -> {"idle", "loop", "pass", "arm", "wait"}] BY DEF IOInv, TypeOK
  <2>1. CASE ReadCall(r) BY <2>0, <2>1 DEF ReadCall
  <2>2. CASE ReadPass(r) BY <2>2 DEF ReadPass
  <2>3. CASE ReadArm(r)
    <3>1. rpc[q] \in {"arm", "wait"} BY <2>0, <2>3 DEF ReadArm
    <3>2. token \/ \E p \in Readers : rpc[p] \in {"loop", "pass"} BY <3>1 DEF IOInv, CloseReachesReads
    <3> QED BY <2>0, <2>3, <3>2 DEF ReadArm
  <2>4. CASE ReadWake(r)
    <3>1. rpc[q] \in {"arm", "wait"} BY <2>0, <2>4 DEF ReadWake
    <3>2. token \/ \E p \in Readers : rpc[p] \in {"loop", "pass"} BY <3>1 DEF IOInv, CloseReachesReads
    <3> QED BY <2>0, <2>4, <3>2 DEF ReadWake
  <2>5. CASE ReadTimer(r)
    BY <2>5 DEF ReadTimer, IOInv, CloseReachesReads
  <2>6. CASE \E n \in 1 .. MsgLen : ReadLoop(r, n)
    <3>1. rpc' = [rpc EXCEPT ![r] = "pass"] BY <2>6 DEF ReadLoop
    <3> QED BY <2>0, <3>1
  <2> QED BY <2>1, <2>2, <2>3, <2>4, <2>5, <2>6
<1> QED BY <1>2, <1>3, <1>4, <1>5 DEF IOInv

\* One turn of the Write loop preserves the invariant: it either returns,
\* stores a packet in room it has just seen, or registers as a waiter.
LEMMA WriteLoopStep == ASSUME IOInv, NEW w \in Writers, WriteLoop(w) PROVE IOInv'
<1> USE DEF readVars, writeVars, closeVars
<1>1. UNCHANGED <<ready, token, delayed, readVars, closeVars, readDeadline, writeDeadline>>
  BY DEF WriteLoop
<1>2. CloseReachesReads' /\ ClosedOnce' /\ ErrWithClose'
  BY <1>1 DEF IOInv, CloseReachesReads, ClosedOnce, ErrWithClose
<1>3. /\ wpc \in [Writers -> {"idle", "loop", "wait"}] /\ left \in [Writers -> Nat]
      /\ woken \in [Writers -> BOOLEAN] /\ wfired \in [Writers -> BOOLEAN] /\ used \in Nat
      /\ wpc[w] = "loop" /\ used <= SendBufferSize /\ SendBufferSize \in Nat
  BY IOAssumption DEF IOInv, TypeOK, WriteLoop, SendBufferBounded
<1>4. CASE WriteStops /\ wpc' = [wpc EXCEPT ![w] = "idle"] /\ UNCHANGED <<used, left, woken, wfired>>
  <2>1. TypeOK' BY <1>1, <1>3, <1>4 DEF IOInv, TypeOK
  <2>2. NoLostWriteWakeup' BY <1>1, <1>3, <1>4 DEF IOInv, NoLostWriteWakeup
  <2>3. SendBufferBounded' BY <1>4 DEF IOInv, SendBufferBounded
  <2> QED BY <1>2, <2>1, <2>2, <2>3 DEF IOInv
<1>5. ASSUME ~WriteStops, NEW k \in 0 .. left[w],
             \A i \in 0 .. (k - 1) : ~sendFull(used + i, delayed),
             k < left[w] => sendFull(used + k, delayed),
             used' = used + k, left' = [left EXCEPT ![w] = @ - k],
             wpc' = [wpc EXCEPT ![w] =
                       IF k = left[w] \/ writeDeadline = "past" THEN "idle" ELSE "wait"],
             woken' = [woken EXCEPT ![w] = FALSE], wfired' = [wfired EXCEPT ![w] = FALSE]
      PROVE  IOInv'
  <2>1. left[w] \in Nat /\ k \in Nat BY <1>3
  <2>2. SendBufferBounded'
    <3>1. CASE k = 0 BY <1>3, <1>5, <3>1 DEF SendBufferBounded
    <3>2. CASE k > 0
      <4>1. k - 1 \in 0 .. (k - 1) BY <2>1, <3>2
      <4>2. ~sendFull(used + (k - 1), delayed) BY <1>5, <4>1
      <4> QED BY <1>3, <1>5, <2>1, <3>2, <4>2, IOAssumption DEF sendFull, SendBufferBounded
    <3> QED BY <2>1, <3>1, <3>2
  <2>3. TypeOK'
    <3>1. used' \in Nat /\ left[w] - k \in Nat BY <1>3, <1>5, <2>1
    <3> QED BY <1>1, <1>3, <1>5, <3>1 DEF IOInv, TypeOK
  <2>4. NoLostWriteWakeup'
    <3> SUFFICES ASSUME NEW v \in Writers, wpc'[v] = "wait", ~woken'[v]
                 PROVE  sendFull(used', delayed) /\ ~closing
      BY <1>1 DEF NoLostWriteWakeup
    <3>1. CASE v = w
      <4>1. k # left[w] BY <1>3, <1>5, <3>1
      <4>2. sendFull(used + k, delayed) BY <1>5, <2>1, <4>1
      <4> QED BY <1>5, <4>2 DEF WriteStops
    <3>2. CASE v # w
      <4>1. sendFull(used, delayed) /\ ~closing
        BY <1>3, <1>5, <3>2 DEF IOInv, NoLostWriteWakeup
      <4> QED BY <1>3, <1>5, <2>1, <4>1, IOAssumption DEF sendFull
    <3> QED BY <3>1, <3>2
  <2> QED BY <1>2, <2>2, <2>3, <2>4 DEF IOInv
<1> QED BY <1>4, <1>5 DEF WriteLoop

\* Every other step of a Write preserves the invariant.
LEMMA OtherWriteStep ==
    ASSUME IOInv, NEW w \in Writers,
           WriteWake(w) \/ WriteTimer(w) \/ \E n \in 1 .. MaxChunks : WriteCall(w, n)
    PROVE  IOInv'
<1> USE DEF readVars, writeVars, closeVars
<1>1. UNCHANGED <<ready, token, used, delayed, readVars, closeVars, readDeadline, writeDeadline, woken>>
  BY DEF WriteWake, WriteTimer, WriteCall
<1>2. CloseReachesReads' /\ ClosedOnce' /\ ErrWithClose' /\ SendBufferBounded'
  BY <1>1 DEF IOInv, CloseReachesReads, ClosedOnce, ErrWithClose, SendBufferBounded
<1>3. TypeOK'
  <2>1. CASE WriteWake(w) \/ WriteTimer(w) BY <1>1, <2>1 DEF WriteWake, WriteTimer, IOInv, TypeOK
  <2>2. CASE \E n \in 1 .. MaxChunks : WriteCall(w, n)
    <3>1. PICK n \in 1 .. MaxChunks : WriteCall(w, n) BY <2>2
    <3>2. n \in Nat BY IOAssumption
    <3> QED BY <1>1, <3>1, <3>2 DEF WriteCall, IOInv, TypeOK
  <2> QED BY <2>1, <2>2
<1>4. NoLostWriteWakeup'
  <2>1. wpc \in [Writers -> {"idle", "loop", "wait"}] BY DEF IOInv, TypeOK
  <2>2. wpc' = wpc \/ wpc' = [wpc EXCEPT ![w] = "loop"] BY DEF WriteWake, WriteTimer, WriteCall
  <2> QED BY <1>1, <2>1, <2>2 DEF IOInv, NoLostWriteWakeup
<1> QED BY <1>2, <1>3, <1>4 DEF IOInv

\* After wakeWriters no Write waits without having been woken.
LEMMA WakeAll ==
    ASSUME TypeOK, wakeWriters, wpc' = wpc
    PROVE  NoLostWriteWakeup' /\ woken' \in [Writers -> BOOLEAN]
BY DEF TypeOK, wakeWriters, NoLostWriteWakeup

\* Every step of the Conn preserves the invariant.
LEMMA NextIO == IOInv /\ [Next]_vars => IOInv'
<1> SUFFICES ASSUME IOInv, [Next]_vars PROVE IOInv'
  OBVIOUS
<1> USE DEF readVars, writeVars, closeVars
<1>1. TypeOK BY DEF IOInv
<1>2. CASE \E r \in Readers : \/ ReadCall(r) \/ ReadPass(r) \/ ReadArm(r) \/ ReadWake(r)
                              \/ \E n \in 1 .. MsgLen : ReadLoop(r, n)
  BY <1>2, ReadStep
<1>3. CASE \E r \in Readers : ReadTimer(r) BY <1>3, ReadStep
<1>4. CASE \E w \in Writers : \/ WriteLoop(w) \/ WriteWake(w)
                              \/ \E n \in 1 .. MaxChunks : WriteCall(w, n)
  BY <1>4, WriteLoopStep, OtherWriteStep
<1>5. CASE \E w \in Writers : WriteTimer(w) BY <1>5, OtherWriteStep
<1>6. ASSUME NEW c \in Closers, CloseCall(c) PROVE IOInv'
  <2>1. CASE ~closing /\ CloseStart(c)
    <3>1. wpc' = wpc BY <1>6 DEF CloseCall
    <3>2. NoLostWriteWakeup' /\ woken' \in [Writers -> BOOLEAN]
      BY <1>1, <2>1, <3>1, WakeAll DEF CloseStart
    <3>3. TypeOK' BY <1>6, <2>1, <3>2, IOAssumption DEF CloseCall, CloseStart, IOInv, TypeOK
    <3>4. CloseReachesReads' BY <2>1 DEF CloseStart, CloseReachesReads
    <3>5. ClosedOnce' /\ ErrWithClose' /\ SendBufferBounded'
      BY <1>6 DEF CloseCall, IOInv, TypeOK, ClosedOnce, ErrWithClose, SendBufferBounded
    <3> QED BY <3>2, <3>3, <3>4, <3>5 DEF IOInv
  <2>2. CASE closing /\ UNCHANGED <<closing, ready, token, woken>>
    <3>1. TypeOK' BY <1>6, <2>2 DEF CloseCall, IOInv, TypeOK
    <3>2. NoLostWriteWakeup' /\ CloseReachesReads'
      BY <1>6, <2>2 DEF CloseCall, IOInv, NoLostWriteWakeup, CloseReachesReads
    <3>3. ClosedOnce' /\ ErrWithClose' /\ SendBufferBounded'
      BY <1>6 DEF CloseCall, IOInv, TypeOK, ClosedOnce, ErrWithClose, SendBufferBounded
    <3> QED BY <3>1, <3>2, <3>3 DEF IOInv
  <2> QED BY <1>6, <2>1, <2>2 DEF CloseCall
<1>7. ASSUME NEW c \in Closers, CloseEnd(c) PROVE IOInv'
  <2>1. TypeOK'
    <3>1. /\ closed' \in BOOLEAN /\ closeErr' \in CloseErr /\ shutdowns' \in Nat /\ released' \in Nat
          /\ cpc' \in [Closers -> {"idle", "linger", "done"}]
      <4>1. closed' \in BOOLEAN BY <1>1, <1>7, Zenon DEF CloseEnd, closeLocked, TypeOK
      <4>2. shutdowns' \in Nat /\ released' \in Nat /\ closeErr' \in CloseErr
        BY <1>1, <1>7 DEF CloseEnd, closeLocked, TypeOK, CloseErr
      <4>3. cpc' \in [Closers -> {"idle", "linger", "done"}] BY <1>1, <1>7 DEF CloseEnd, TypeOK
      <4> QED BY <4>1, <4>2, <4>3
    <3>2. UNCHANGED <<ready, token, used, delayed, readDeadline, writeDeadline, readVars, writeVars,
                      closing>>
      BY <1>7 DEF CloseEnd
    <3> QED BY <1>1, <3>1, <3>2 DEF TypeOK
  <2>2. NoLostWriteWakeup' /\ CloseReachesReads' /\ SendBufferBounded'
    BY <1>7 DEF CloseEnd, closeLocked, IOInv, NoLostWriteWakeup, CloseReachesReads, SendBufferBounded
  <2>3. ClosedOnce' /\ ErrWithClose'
    BY <1>7 DEF CloseEnd, closeLocked, IOInv, TypeOK, ClosedOnce, ErrWithClose
  <2> QED BY <2>1, <2>2, <2>3 DEF IOInv
<1>8. ASSUME NEW d \in Deadline, SetReadDeadline(d) PROVE IOInv'
  BY <1>8 DEF SetReadDeadline, IOInv, TypeOK, NoLostWriteWakeup, CloseReachesReads, ClosedOnce,
     ErrWithClose, SendBufferBounded
<1>9. ASSUME NEW d \in Deadline, SetWriteDeadline(d) PROVE IOInv'
  <2>1. wpc' = wpc /\ wakeWriters BY <1>9 DEF SetWriteDeadline
  <2>2. NoLostWriteWakeup' /\ woken' \in [Writers -> BOOLEAN] BY <1>1, <2>1, WakeAll
  <2>3. TypeOK' BY <1>9, <2>2 DEF SetWriteDeadline, IOInv, TypeOK
  <2>4. CloseReachesReads' /\ ClosedOnce' /\ ErrWithClose' /\ SendBufferBounded'
    BY <1>9 DEF SetWriteDeadline, IOInv, CloseReachesReads, ClosedOnce, ErrWithClose, SendBufferBounded
  <2> QED BY <2>2, <2>3, <2>4 DEF IOInv
<1>10. CASE DeadlinePasses
  BY <1>10 DEF DeadlinePasses, IOInv, TypeOK, Deadline, NoLostWriteWakeup, CloseReachesReads,
     ClosedOnce, ErrWithClose, SendBufferBounded
<1>11. ASSUME NEW ms \in Messages(MaxReady), Deliver(ms) PROVE IOInv'
  <2>1. ms \in Seq(Nat)
    <3>1. PICK n \in 1 .. MaxReady : ms \in [1 .. n -> 1 .. MsgLen] BY DEF Messages
    <3>2. n \in Nat /\ \A i \in 1 .. MsgLen : i \in Nat BY IOAssumption
    <3> QED BY <3>1, <3>2
  <2>2. TypeOK' BY <1>11, <2>1, IOAssumption DEF Deliver, IOInv, TypeOK
  <2>3. NoLostWriteWakeup' /\ CloseReachesReads' /\ ClosedOnce' /\ ErrWithClose' /\ SendBufferBounded'
    BY <1>11 DEF Deliver, IOInv, NoLostWriteWakeup, CloseReachesReads, ClosedOnce, ErrWithClose,
       SendBufferBounded
  <2> QED BY <2>2, <2>3 DEF IOInv
<1>12. ASSUME NEW n \in 1 .. used, ReleaseSent(n) PROVE IOInv'
  <2>1. wpc' = wpc /\ wakeWriters BY <1>12 DEF ReleaseSent
  <2>2. NoLostWriteWakeup' /\ woken' \in [Writers -> BOOLEAN] BY <1>1, <2>1, WakeAll
  <2>3. used \in Nat /\ used' \in Nat /\ used' <= used /\ delayed' \in BOOLEAN
    <3>1. used \in Nat /\ delayed \in BOOLEAN BY <1>1 DEF TypeOK
    <3>2. used' = used - n /\ delayed' \in (IF used' = 0 THEN {FALSE} ELSE {delayed, FALSE})
      BY <1>12 DEF ReleaseSent
    <3>3. delayed' \in BOOLEAN BY <3>1, <3>2, Zenon
    <3> QED BY <3>1, <3>2, <3>3
  <2>4. TypeOK' BY <1>12, <2>2, <2>3 DEF ReleaseSent, IOInv, TypeOK
  <2>5. SendBufferBounded' BY <2>3, IOAssumption DEF IOInv, SendBufferBounded
  <2>6. CloseReachesReads' /\ ClosedOnce' /\ ErrWithClose'
    BY <1>12 DEF ReleaseSent, IOInv, CloseReachesReads, ClosedOnce, ErrWithClose
  <2> QED BY <2>2, <2>4, <2>5, <2>6 DEF IOInv
<1>13. CASE OldestAges
  <2>1. TypeOK' BY <1>13 DEF OldestAges, IOInv, TypeOK
  <2>2. NoLostWriteWakeup' BY <1>13 DEF OldestAges, IOInv, NoLostWriteWakeup, sendFull
  <2>3. CloseReachesReads' /\ ClosedOnce' /\ ErrWithClose' /\ SendBufferBounded'
    BY <1>13 DEF OldestAges, IOInv, CloseReachesReads, ClosedOnce, ErrWithClose, SendBufferBounded
  <2> QED BY <2>1, <2>2, <2>3 DEF IOInv
<1>14. ASSUME NEW ms \in Messages(MaxReady) \cup {<<>>}, HandleShutdown(ms) PROVE IOInv'
  <2>1. ms \in Seq(Nat)
    <3>1. CASE ms = <<>> BY <3>1
    <3>2. CASE ms \in Messages(MaxReady)
      <4>1. PICK n \in 1 .. MaxReady : ms \in [1 .. n -> 1 .. MsgLen] BY <3>2 DEF Messages
      <4>2. n \in Nat /\ \A i \in 1 .. MsgLen : i \in Nat BY IOAssumption
      <4> QED BY <4>1, <4>2
    <3> QED BY <3>1, <3>2
  <2>2. TypeOK' BY <1>14, <2>1, IOAssumption DEF HandleShutdown, closeLocked, IOInv, TypeOK, CloseErr
  <2>3. NoLostWriteWakeup' /\ CloseReachesReads' /\ SendBufferBounded'
    BY <1>14 DEF HandleShutdown, closeLocked, IOInv, NoLostWriteWakeup, CloseReachesReads,
       SendBufferBounded
  <2>4. ClosedOnce' /\ ErrWithClose'
    BY <1>14 DEF HandleShutdown, closeLocked, IOInv, TypeOK, ClosedOnce, ErrWithClose
  <2> QED BY <2>2, <2>3, <2>4 DEF IOInv
<1>15. CASE PeerIdle
  <2>1. TypeOK' BY <1>15 DEF PeerIdle, closeLocked, IOInv, TypeOK, CloseErr
  <2>2. NoLostWriteWakeup' /\ CloseReachesReads' /\ SendBufferBounded'
    BY <1>15 DEF PeerIdle, closeLocked, IOInv, NoLostWriteWakeup, CloseReachesReads, SendBufferBounded
  <2>3. ClosedOnce' /\ ErrWithClose'
    BY <1>15 DEF PeerIdle, closeLocked, IOInv, TypeOK, ClosedOnce, ErrWithClose
  <2> QED BY <2>1, <2>2, <2>3 DEF IOInv
<1>16. CASE UNCHANGED vars
  BY <1>16 DEF vars, IOInv, TypeOK, NoLostWriteWakeup, CloseReachesReads, ClosedOnce, ErrWithClose,
     SendBufferBounded
<1> QED
  BY <1>2, <1>3, <1>4, <1>5, <1>6, <1>7, <1>8, <1>9, <1>10, <1>11, <1>12, <1>13, <1>14, <1>15,
     <1>16 DEF Next

-------------------------------------------------------------------------------
\* The invariant of the goroutines on a Conn.
THEOREM IOInvariant == Spec => []IOInv
BY InitIO, NextIO, PTL DEF Spec

\* The types of the queue, the timers and every goroutine's place in its loop.
THEOREM TypesHold == Spec => []TypeOK
<1>1. IOInv => TypeOK BY DEF IOInv
<1> QED BY <1>1, IOInvariant, PTL

\* A Write that waits unwoken has no room and no Close to see (waitSendRoom,
\* wakeWriters).
THEOREM WritesWake == Spec => []NoLostWriteWakeup
<1>1. IOInv => NoLostWriteWakeup BY DEF IOInv
<1> QED BY <1>1, IOInvariant, PTL

\* The wake-up of Close reaches every Read, however many wait (Close, Read,
\* notify).
THEOREM ReadsWakeOnClose == Spec => []CloseReachesReads
<1>1. IOInv => CloseReachesReads BY DEF IOInv
<1> QED BY <1>1, IOInvariant, PTL

\* A connection is closed once, whoever closes it (Close, closeLocked).
THEOREM CloseOnce == Spec => []ClosedOnce
<1>1. IOInv => ClosedOnce BY DEF IOInv
<1> QED BY <1>1, IOInvariant, PTL

\* SendBufferSize bounds the send buffer (sendFull, Write).
THEOREM BufferBounded == Spec => []SendBufferBounded
<1>1. IOInv => SendBufferBounded BY DEF IOInv
<1> QED BY <1>1, IOInvariant, PTL

\* Once Close was called nothing is queued to send and nothing read (Write,
\* waitSendRoom, Read).
THEOREM SilentAfterClose == Spec => NothingAfterClose
<1>1. IOInv /\ [Next]_vars => [closing => used' <= used /\ ready' = ready]_vars
  <2> SUFFICES ASSUME IOInv, Next, closing PROVE used' <= used /\ ready' = ready
    BY DEF vars
  <2> USE DEF readVars, writeVars, closeVars
  <2>1. used \in Nat /\ ready \in Seq(Nat) BY DEF IOInv, TypeOK
  <2>2. CASE \E n \in 1 .. used : ReleaseSent(n) BY <2>1, <2>2 DEF ReleaseSent
  <2>3. CASE \E ms \in Messages(MaxReady) \cup {<<>>} : HandleShutdown(ms)
    BY <2>1, <2>3 DEF HandleShutdown
  <2>4. CASE \E ms \in Messages(MaxReady) : Deliver(ms) BY <2>4 DEF Deliver
  <2>5. CASE \E w \in Writers : WriteLoop(w)
    <3>1. used' = used /\ ready' = ready BY <2>5 DEF WriteLoop, WriteStops
    <3> QED BY <2>1, <3>1
  <2>6. CASE \E c \in Closers : CloseCall(c)
    <3>1. used' = used /\ ready' = ready BY <2>6 DEF CloseCall
    <3> QED BY <2>1, <3>1
  <2>7. CASE \E r \in Readers, n \in 1 .. MsgLen : ReadLoop(r, n)
    <3>1. used' = used /\ ready' = ready BY <2>7 DEF ReadLoop
    <3> QED BY <2>1, <3>1
  <2>8. CASE \/ \E r \in Readers : \/ ReadCall(r) \/ ReadPass(r) \/ ReadArm(r) \/ ReadWake(r)
                                   \/ ReadTimer(r)
             \/ \E w \in Writers : \/ WriteWake(w) \/ WriteTimer(w)
                                   \/ \E n \in 1 .. MaxChunks : WriteCall(w, n)
             \/ \E c \in Closers : CloseEnd(c)
             \/ \E d \in Deadline : SetReadDeadline(d) \/ SetWriteDeadline(d)
             \/ DeadlinePasses \/ OldestAges \/ PeerIdle
    <3>1. used' = used /\ ready' = ready
      BY <2>8 DEF ReadCall, ReadPass, ReadArm, ReadWake, ReadTimer, WriteWake, WriteTimer, WriteCall,
         CloseEnd, SetReadDeadline, SetWriteDeadline, DeadlinePasses, OldestAges, PeerIdle
    <3> QED BY <2>1, <3>1
  <2> QED BY <2>2, <2>3, <2>4, <2>5, <2>6, <2>7, <2>8 DEF Next
<1> QED BY <1>1, IOInvariant, PTL DEF Spec, NothingAfterClose
===============================================================================
