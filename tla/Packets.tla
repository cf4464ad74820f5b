---------------------------------- MODULE Packets ---------------------------------
(***************************************************************************)
(* Media in packets that are lost, late or repeated: MPEG-TS, MPEG-PS, RTP *)
(* with the receiver's RTCP counts, and the payload of SRT.  These do not  *)
(* interact; a behaviour is one of them (part).                            *)
(***************************************************************************)
EXTENDS Integers, Sequences

CONSTANTS
    \* TsStream and PsStream
    Clock, MaxStreams, MaxFrames, MaxLost,
    \* TsStream
    PacketSize, CcMod, TsPesMax, TsTimeMod, Period, TsUnits, TsStarts, TsSteps, Delays, MaxTwice,
    \* PsStream
    PsPesMax, Lead, PsTimeMod, PsUnits, PsStarts, PsSteps, Delay,
    \* RtpStream
    SeqRange, MinSequential, MaxDropout, MaxMisorder, Mtu, HeadLen, FirstSeqs, RtpUnits,
    RtpFrames, MaxFaults, MaxReports,
    \* SrtPayload
    TsMod, SrtStarts, SrtSteps, MaxLate, MaxData, MaxKeys

VARIABLES part, mux, wire, dem, given, got
vars == <<part, mux, wire, dem, given, got>>

Ts == INSTANCE TsStream WITH
    PesMax <- TsPesMax, TimeMod <- TsTimeMod, Units <- TsUnits, Starts <- TsStarts, Steps <- TsSteps
Ps == INSTANCE PsStream WITH
    PesMax <- PsPesMax, TimeMod <- PsTimeMod, Units <- PsUnits, Starts <- PsStarts, Steps <- PsSteps
Rtp == INSTANCE RtpStream WITH Units <- RtpUnits, MaxFrames <- RtpFrames
Srt == INSTANCE SrtPayload WITH Starts <- SrtStarts, Steps <- SrtSteps

ASSUME PacketsAssumption ==
    Ts!TsAssumption /\ Ps!PsAssumption /\ Rtp!RtpAssumption /\ Srt!PayloadAssumption

Init == \/ part = "ts" /\ Ts!Init
        \/ part = "ps" /\ Ps!Init
        \/ part = "rtp" /\ Rtp!Init
        \/ part = "srt" /\ Srt!Init
Next == /\ UNCHANGED part
        /\ \/ part = "ts" /\ Ts!Next
           \/ part = "ps" /\ Ps!Next
           \/ part = "rtp" /\ Rtp!Next
           \/ part = "srt" /\ Srt!Next
Spec == Init /\ [][Next]_vars

\* The type invariants of the four modules.
TypeOK == /\ part = "ts" => Ts!TypeOK
          /\ part = "ps" => Ps!TypeOK
          /\ part = "rtp" => Rtp!TypeOK
          /\ part = "srt" => Srt!TypeOK

\* What no packet of was lost is given whole, once, in order and at its time
\* (TSDemuxer.Input, PSDemuxer.Input, the UnPack methods of go-rtsp/rtp,
\* extendTs and xorPayload of go-srt).
GivenAsTaken == /\ part = "ts" => Ts!GivenAsTaken
                /\ part = "ps" => Ps!GivenAsTaken
                /\ part = "rtp" => Rtp!GivenAsTaken
                /\ part = "srt" => Srt!GivenAsTaken

\* No unit that is given as whole holds bytes of two, whatever was lost or
\* repeated (the continuity counter of ts-demuxer.go, the sequence numbers of RTP).
NeverSpliced == /\ part = "ts" => Ts!NeverSpliced
                /\ part = "ps" => Ps!NeverSpliced
                /\ part = "rtp" => Rtp!NeverSpliced

\* A packet that is lost costs the frames it carried and at most their neighbours:
\* the demuxers find the next start by themselves.  One that the program stream's
\* demuxer cannot read may also cost the packet behind it.
LossIsLocal == /\ part = "ts" => Ts!LossIsLocal
               /\ part = "ps" => Ps!LossIsLocal
               /\ part = "rtp" => Rtp!LossIsLocal

\* The muxers and packers keep the rules of their format: lengths, counters,
\* clocks, markers, limits (ts-muxer.go, ps-muxer.go, the Pack methods).
WellFormed == /\ part = "ts" => Ts!WellFormed
              /\ part = "ps" => Ps!WellFormed
              /\ part = "rtp" => Rtp!WellFormed

\* A receiver report tells what was lost since the last one and in all
\* (rtcp-context.go, ReceivedRtp and GenerateRR).
ReportsHonest == part = "rtp" => Rtp!ReportsHonest

\* A NAL unit that lacks a fragment is flagged (rtp-h264.go, FU-A).
FragmentsFlagged == part = "rtp" => Rtp!FragmentsFlagged
================================================================================
