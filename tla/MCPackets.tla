-------------------------------- MODULE MCPackets -------------------------------
(* Instances of the packet formats for TLC. *)
EXTENDS Packets

U(t, len, first) == [t |-> t, len |-> len, first |-> first]
Au(cid, nals) == [cid |-> cid, nals |-> nals]

\* Audio that leaves one byte of its second packet; video with a delimiter of its own, and video of two slices that
\* fills its packet once a delimiter and a clock are put in front.
MCTsUnits ==
    {Au("aac", <<U("raw", 340, TRUE)>>),
     Au("h265", <<U("aud", 7, TRUE), U("slice", 170, TRUE)>>),
     Au("h264", <<U("sps", 10, TRUE), U("idr", 121, TRUE), U("idr", 20, FALSE)>>)}

\* One NAL unit and several, video and audio that fill a PES packet, that take
\* one more byte, and that take two packets.
MCPsUnits ==
    {Au("aac", <<U("raw", 87, TRUE)>>),
     Au("h264", <<U("sps", 10, TRUE), U("idr", 20, TRUE)>>),
     Au("h264", <<U("aud", 6, TRUE), U("idr", 80, TRUE), U("idr", 20, FALSE)>>),
     Au("h265", <<U("slice", 80, TRUE)>>)}

\* Parameter sets that share a packet or wait for one, a NAL unit that fills its
\* packet, and ones of two and of three fragments.
MCRtpUnits ==
    {Au("h264", <<U("sps", 8, TRUE), U("idr", 24, TRUE)>>),
     Au("h264", <<U("sps", 8, TRUE), U("pps", 6, TRUE), U("idr", 12, TRUE)>>),
     Au("h264", <<U("pps", 6, TRUE), U("slice", 42, TRUE)>>),
     Au("h265", <<U("slice", 25, TRUE), U("slice", 12, FALSE)>>),
     Au("h265", <<U("idr", 38, TRUE), U("suffix", 8, FALSE)>>),
     Au("aac", <<U("raw", 17, TRUE)>>), Au("ts", <<U("raw", 50, TRUE)>>)}
    \cup {Au("g711", <<U("raw", len, TRUE)>>) : len \in {20, 21}}
================================================================================
