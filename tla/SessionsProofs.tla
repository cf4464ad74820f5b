----------------------------- MODULE SessionsProofs -----------------------------
(***************************************************************************)
(* A behaviour of Sessions is a behaviour of one of its parts, since a     *)
(* step of a part leaves the others where they are.  So what is proved of  *)
(* each part holds of all.                                                 *)
(*                                                                         *)
(* Two hypotheses stand for known faults.  An application that calls       *)
(* KeepAlive before the stream has started breaks RtspSession, hence       *)
(* AliveFrom = "start"; a writer of this package that is given a message   *)
(* without payload breaks the reader, hence Chunk!OwnHasPayload.  The runs *)
(* rtsp_keepalive and rtmp_chunk_empty show both.                          *)
(***************************************************************************)
EXTENDS Sessions, TLAPS

\* A behaviour stays in its part.
LEMMA PartStays ==
    ASSUME [Next]_vars
    PROVE  part' = part
  BY DEF Next, vars

\* A behaviour that begins with a writer and a reader of chunk streams is one of
\* RtmpChunk.
LEMMA ChunkPart == Spec /\ InChunk => Chunk!Spec /\ []InChunk
<1>1. (ChunkInit \/ RtmpInit \/ RtspInit \/ SrtInit) /\ InChunk => Chunk!Init
  BY DEF ChunkInit, RtmpInit, RtspInit, SrtInit, InChunk, InRtmp, InRtsp, InSrt
<1>2. InChunk /\ [Next]_vars => InChunk' BY PartStays DEF InChunk
<1>3. InChunk /\ [Next]_vars => [Chunk!Next]_Chunk!vars
  BY DEF Next, vars, bytes, chunks, InChunk, InRtmp, InRtsp, InSrt, Chunk!vars, Chunk!writerVars,
         Chunk!readerVars
<1> QED BY <1>1, <1>2, <1>3, PTL DEF Spec, Chunk!Spec

\* A behaviour that begins with an RTMP session is one.
LEMMA RtmpPart == Spec /\ InRtmp => Rtmp!Spec /\ []InRtmp
<1>1. (ChunkInit \/ RtmpInit \/ RtspInit \/ SrtInit) /\ InRtmp => Rtmp!Init
  BY DEF ChunkInit, RtmpInit, RtspInit, SrtInit, InChunk, InRtmp, InRtsp, InSrt
<1>2. InRtmp /\ [Next]_vars => InRtmp' BY PartStays DEF InRtmp
<1>3. InRtmp /\ [Next]_vars => [Rtmp!Next]_Rtmp!vars
  BY DEF Next, vars, bytes, rtmp, InChunk, InRtmp, InRtsp, InSrt, Rtmp!vars, Rtmp!inputs,
         Rtmp!shake, Rtmp!chunks, Rtmp!flow, Rtmp!ends, Rtmp!session
<1> QED BY <1>1, <1>2, <1>3, PTL DEF Spec, Rtmp!Spec

\* So is one that begins with an RTSP session.
LEMMA RtspPart == Spec /\ InRtsp => Rtsp!Spec /\ []InRtsp
<1>1. (ChunkInit \/ RtmpInit \/ RtspInit \/ SrtInit) /\ InRtsp => Rtsp!Init
  BY DEF ChunkInit, RtmpInit, RtspInit, SrtInit, InChunk, InRtmp, InRtsp, InSrt
<1>2. InRtsp /\ [Next]_vars => InRtsp' BY PartStays DEF InRtsp
<1>3. InRtsp /\ [Next]_vars => [Rtsp!Next]_Rtsp!vars
  BY DEF Next, vars, rtsp, InChunk, InRtmp, InRtsp, InSrt, Rtsp!vars
<1> QED BY <1>1, <1>2, <1>3, PTL DEF Spec, Rtsp!Spec

\* And one that begins with callers and a listener.
LEMMA SrtPart == Spec /\ InSrt => Srt!Spec /\ []InSrt
<1>1. (ChunkInit \/ RtmpInit \/ RtspInit \/ SrtInit) /\ InSrt => Srt!Init
  BY DEF ChunkInit, RtmpInit, RtspInit, SrtInit, InChunk, InRtmp, InRtsp, InSrt
<1>2. InSrt /\ [Next]_vars => InSrt' BY PartStays DEF InSrt
<1>3. InSrt /\ [Next]_vars => [Srt!Next]_Srt!vars
  BY DEF Next, vars, srt, InChunk, InRtmp, InRtsp, InSrt, Srt!vars
<1> QED BY <1>1, <1>2, <1>3, PTL DEF Spec, Srt!Spec

\* Each end reads what the other wrote for it, in RTMP and in RTSP sessions.
THEOREM EndsReadAsWritten ==
    ASSUME AliveFrom = "start"
    PROVE  Spec => []ReadAsWritten
<1>1. Rtmp!Spec => []Rtmp!ReadAsWritten BY SessionsAssumption, Rtmp!ReadsAsWritten
<1>2. Rtsp!Spec => []Rtsp!MediaRouted BY SessionsAssumption, Rtsp!PacketsRouted
<1>3. ~InRtmp /\ [Next]_vars => ~InRtmp' BY PartStays DEF InRtmp
<1>4. ~InRtsp /\ [Next]_vars => ~InRtsp' BY PartStays DEF InRtsp
<1>5. ReadAsWritten <=> (InRtmp => Rtmp!ReadAsWritten) /\ (InRtsp => Rtsp!MediaRouted) BY DEF ReadAsWritten
<1>6. Spec => [](InRtmp => Rtmp!ReadAsWritten) BY <1>1, <1>3, RtmpPart, PTL DEF Spec
<1>7. Spec => [](InRtsp => Rtsp!MediaRouted) BY <1>2, <1>4, RtspPart, PTL DEF Spec
<1> QED BY <1>5, <1>6, <1>7, PTL

\* Whoever has started was accepted, by OnPublish or OnPlay, by the answer to
\* PLAY or RECORD, or by the listener; both sides mean the same stream.
THEOREM SidesAgree ==
    ASSUME AliveFrom = "start"
    PROVE  Spec => []StartAgreed
<1>1. Rtmp!Spec => []Rtmp!StartAgreed BY SessionsAssumption, Rtmp!StartIsAgreed
<1>2. Rtsp!Spec => []Rtsp!StartAgreed BY SessionsAssumption, Rtsp!StartIsAgreed
<1>3. Srt!Spec => []Srt!Agreement BY SessionsAssumption, Srt!EndsAgree
<1>4. ~InRtmp /\ [Next]_vars => ~InRtmp' BY PartStays DEF InRtmp
<1>5. ~InRtsp /\ [Next]_vars => ~InRtsp' BY PartStays DEF InRtsp
<1>6. ~InSrt /\ [Next]_vars => ~InSrt' BY PartStays DEF InSrt
<1>7. Spec => [](InRtmp => Rtmp!StartAgreed) BY <1>1, <1>4, RtmpPart, PTL DEF Spec
<1>8. Spec => [](InRtsp => Rtsp!StartAgreed) BY <1>2, <1>5, RtspPart, PTL DEF Spec
<1>9. Spec => [](InSrt => Srt!Agreement) BY <1>3, <1>6, SrtPart, PTL DEF Spec
<1>10. StartAgreed <=> /\ InRtmp => Rtmp!StartAgreed
                       /\ InRtsp => Rtsp!StartAgreed
                       /\ InSrt => Srt!Agreement
  BY DEF StartAgreed
<1> QED BY <1>7, <1>8, <1>9, <1>10, PTL

\* A side of an RTMP session that announced a window is told of what it sent
\* (sendAckIfNeeded).
THEOREM AcknowledgementsKeepUp == Spec => []AcksKeepUp
<1>1. Rtmp!Spec => []Rtmp!AcksKeepUp BY SessionsAssumption, Rtmp!AcksKeepUpAlways
<1>2. ~InRtmp /\ [Next]_vars => ~InRtmp' BY PartStays DEF InRtmp
<1>3. AcksKeepUp <=> (InRtmp => Rtmp!AcksKeepUp) BY DEF AcksKeepUp
<1> QED BY <1>1, <1>2, <1>3, RtmpPart, PTL DEF Spec

\* The variables of each part keep their types.
THEOREM TypesCorrect ==
    ASSUME AliveFrom = "start", Chunk!OwnHasPayload
    PROVE  Spec => []TypeOK
<1>1. Chunk!Spec => []Chunk!TypeOK BY SessionsAssumption, Chunk!TypesCorrect
<1>2. Rtmp!Spec => []Rtmp!TypeOK BY SessionsAssumption, Rtmp!TypesCorrect
<1>3. Rtsp!Spec => []Rtsp!TypeOK BY SessionsAssumption, Rtsp!TypesCorrect
<1>4. Srt!Spec => []Srt!TypeOK BY SessionsAssumption, Srt!TypesCorrect
<1>5. ~InChunk /\ [Next]_vars => ~InChunk' BY PartStays DEF InChunk
<1>6. ~InRtmp /\ [Next]_vars => ~InRtmp' BY PartStays DEF InRtmp
<1>7. ~InRtsp /\ [Next]_vars => ~InRtsp' BY PartStays DEF InRtsp
<1>8. ~InSrt /\ [Next]_vars => ~InSrt' BY PartStays DEF InSrt
<1>9. Spec => [](InChunk => Chunk!TypeOK) BY <1>1, <1>5, ChunkPart, PTL DEF Spec
<1>10. Spec => [](InRtmp => Rtmp!TypeOK) BY <1>2, <1>6, RtmpPart, PTL DEF Spec
<1>11. Spec => [](InRtsp => Rtsp!TypeOK) BY <1>3, <1>7, RtspPart, PTL DEF Spec
<1>12. Spec => [](InSrt => Srt!TypeOK) BY <1>4, <1>8, SrtPart, PTL DEF Spec
<1>13. TypeOK <=> /\ InChunk => Chunk!TypeOK
                  /\ InRtmp => Rtmp!TypeOK
                  /\ InRtsp => Rtsp!TypeOK
                  /\ InSrt => Srt!TypeOK
  BY DEF TypeOK
<1> QED BY <1>9, <1>10, <1>11, <1>12, <1>13, PTL

\* Once the input is parsed every message is out, however the input was cut
\* (readRtmpMessage).
THEOREM EverythingIsOut ==
    ASSUME Chunk!OwnHasPayload
    PROVE  Spec => []NothingHeldBack
<1>1. Chunk!Spec => []Chunk!NothingHeldBack BY SessionsAssumption, Chunk!NothingIsHeldBack
<1>2. ~InChunk /\ [Next]_vars => ~InChunk' BY PartStays DEF InChunk
<1>3. NothingHeldBack <=> (InChunk => Chunk!NothingHeldBack) BY DEF NothingHeldBack
<1> QED BY <1>1, <1>2, <1>3, ChunkPart, PTL DEF Spec

\* The reader keeps no more chunk streams and payload than maxChunkStreams and
\* maxBufferedMsgLen allow, and counts the payload exactly.
THEOREM LimitsAreKept ==
    ASSUME Chunk!OwnHasPayload
    PROVE  Spec => []LimitsHold
<1>1. Chunk!Spec => []Chunk!LimitsHold BY SessionsAssumption, Chunk!LimitsAreKept
<1>2. ~InChunk /\ [Next]_vars => ~InChunk' BY PartStays DEF InChunk
<1>3. LimitsHold <=> (InChunk => Chunk!LimitsHold) BY DEF LimitsHold
<1> QED BY <1>1, <1>2, <1>3, ChunkPart, PTL DEF Spec

\* The chunk streams of a connection are lanes: each delivers the messages
\* written on it, in order, whatever goes on on the others.
THEOREM RefinesLanes ==
    ASSUME Chunk!OwnHasPayload
    PROVE  Spec => ImplementsLanes
<1>1. Chunk!Spec => Chunk!Lane!Spec BY SessionsAssumption, Chunk!RefinesLanes
<1>2. InChunk /\ Chunk!Lane!Init => Lane!Init
  BY DEF InChunk, Lane!Init, Chunk!Lane!Init
<1>3. InChunk /\ InChunk' /\ [Chunk!Lane!Next]_Chunk!Lane!vars => [Lane!Next]_Lane!vars
  BY DEF InChunk, Lane!Next, Lane!Take, Lane!Give, Lane!vars,
         Chunk!Lane!Next, Chunk!Lane!Take, Chunk!Lane!Give, Chunk!Lane!vars
<1>4. ~InChunk => Lane!Init
  BY DEF Lane!Init, NoMessages
<1>5. ~InChunk /\ ~InChunk' => UNCHANGED Lane!vars
  BY DEF Lane!vars
<1>6. ~InChunk /\ [Next]_vars => ~InChunk' BY PartStays DEF InChunk
<1>7. Spec /\ InChunk => Lane!Spec
  BY <1>1, <1>2, <1>3, ChunkPart, PTL DEF Lane!Spec, Chunk!Lane!Spec
<1>8. Spec /\ ~InChunk => Lane!Spec
  BY <1>4, <1>5, <1>6, PTL DEF Spec, Lane!Spec
<1> QED BY <1>7, <1>8, PTL DEF ImplementsLanes
================================================================================
