-------------------------------- MODULE MCFiles --------------------------------
(* Instances of the file formats for TLC.  A behaviour picks one of them. *)
EXTENDS Integers, Sequences, TLC

VARIABLES part, mux, wire, dem, given, got,
          streams, started, finished, pending, failed, failAt, writes, file, written,
          rd, inHead, cached, derr, out, lostPages
movie == <<mux, wire, given, got>>
song  == <<streams, started, finished, pending, failed, failAt, writes, file, written,
           rd, inHead, cached, derr, out, lostPages>>
vars  == <<part, movie, song, dem>>

U(t, len, first) == [t |-> t, len |-> len, first |-> first, v |-> 0]
Set(t, v) == [t |-> t, len |-> 9, first |-> TRUE, v |-> v]
Au(cid, nals, delays) == [cid |-> cid, nals |-> nals, delays |-> delays]

Mp4Units ==
    {Au("h264", <<U("sps", 20, TRUE), U("pps", 10, TRUE), U("idr", 900, TRUE)>>, {80}),
     Au("h264", <<U("idr", 500, TRUE), U("idr", 400, FALSE)>>, {0}),
     Au("h264", <<U("slice", 900, TRUE)>>, {80, -40}),
     Au("aac", <<U("raw", 407, TRUE), U("raw", 407, TRUE)>>, {0})}

Mp4 == INSTANCE Mp4File WITH
    U32 <- 2500, ExtraLen <- 10, Modes <- {"plain", "frag", "dash"}, FragDuration <- 30, SidxReserve <- 2,
    FrameTime <- 20, Units <- Mp4Units, TrackSets <- {<<"h264", "aac">>, <<"aac">>}, Steps <- {40},
    SeekTimes <- {60, 100}, MaxWrites <- 4, MaxFlushes <- 1
ASSUME Mp4!Mp4Assumption

FlvUnits ==
    {Au("h264", <<Set("sps", 1), Set("pps", 1), U("idr", 20, TRUE)>>, {0}),
     Au("h264", <<Set("sps", 2), Set("pps", 1), U("idr", 20, TRUE)>>, {0}),
     Au("h264", <<U("slice", 9, TRUE)>>, {7, -8}),
     Au("h265", <<Set("vps", 1), Set("sps", 1), Set("pps", 1), U("sei", 6, TRUE), U("idr", 20, TRUE)>>, {0}),
     Au("h265", <<Set("sps", 2), U("idr", 9, TRUE)>>, {3}), Au("h265", <<U("idr", 9, TRUE)>>, {3}),
     Au("h265", <<U("slice", 9, TRUE), U("sei", 6, TRUE)>>, {0}),
     Au("aac", <<U("raw", 12, TRUE), U("raw", 11, TRUE)>>, {0}),
     Au("g711", <<U("raw", 20, TRUE)>>, {0})}
Tag(kind, cid, size) ==
    [kind |-> kind, cid |-> cid, seq |-> FALSE, size |-> size, at |-> [low |-> 0, high |-> 0], cts |-> 0, nals |-> <<>>,
     sets |-> [t \in {"vps", "sps", "pps"} |-> 0]]
FlvForeign ==
    {Tag("script", "onMetaData", 30), Tag("video", "vp6", 12), Tag("video", "h264", 9), Tag("video", "vp6", 0),
     Tag("video", "vp9", 3)}

Flv == INSTANCE FlvFile WITH
    M24 <- 16, M8 <- 4, Units <- FlvUnits, Foreign <- FlvForeign, Steps <- {5}, Starts <- {55}, Pieces <- {13},
    MaxWrites <- 3, MaxForeign <- 1
ASSUME Flv!FlvAssumption

MkvAu(cid, nals, delays) == Au(cid, nals, delays) @@ [paddings |-> {0}]
Sample == U("raw", 1, TRUE)
MkvUnits ==
    {MkvAu("h264", <<Set("sps", 1), Set("pps", 1), U("idr", 119, TRUE)>>, {40}),
     MkvAu("h264", <<Set("sps", 2), U("idr", 10, TRUE)>>, {80}),
     MkvAu("h264", <<U("slice", 60, TRUE)>>, {0, 40, 80}),
     MkvAu("aac", <<U("raw", 27, TRUE), U("raw", 307, TRUE)>>, {0}),
     Au("opus", <<U("raw", 20, TRUE)>>, {0}) @@ [paddings |-> {0, 5}],
     MkvAu("vp8", <<U("idr", 50, TRUE)>>, {0}),
     MkvAu("g711", <<Sample, Sample, Sample>>, {0})}
Mkv == INSTANCE MkvFile WITH
    Units <- MkvUnits, TrackSets <- {<<"h264", "aac">>, <<"vp8", "opus">>, <<"g711">>},
    Steps <- [h264 |-> {40}, vp8 |-> {120}, aac |-> {40, 150}, opus |-> {20}, g711 |-> {3, 4, 9}],
    RelMax <- 60, ClusterDuration <- 100, MaxClusterBytes <- 400, MaxPending <- 3, FrameTime <- 20, PcmBlock <- 4,
    Window <- 3, OffsetWait <- 5, MaxWrites <- 4,
    Styles <- {[unknown |-> TRUE, group |-> FALSE, lacing |-> "xiph"], [unknown |-> FALSE, group |-> TRUE, lacing |-> "ebml"],
               [unknown |-> TRUE, group |-> TRUE, lacing |-> "fixed"]}
ASSUME Mkv!MkvAssumption

Ogg == INSTANCE Ogg WITH
    SegMax <- 2, PageSegs <- 3, TargetBytes <- 4, TargetSamples <- 6, PendingMax <- 2, PreSkip <- 1,
    Lens <- {1, 4, 13}, Dur <- 2, Starts <- {0, 3}, Paddings <- {1},
    MaxStreams <- 2, MaxPackets <- 3, MaxLost <- 1, MaxCut <- 1, FailAts <- {3, 99}
ASSUME Ogg!OggAssumption

\* Counts that wrap at every step of an encoder that looks two pictures ahead;
\* parameter sets in part, between others, and not at all.
Coded(cid, types, type, front, tail, slices, extra, rate) ==
    [cid |-> cid, types |-> types, pocType |-> type, front |-> front, tail |-> tail, slices |-> slices,
     extra |-> extra, rate |-> rate]
Audio(cid) == Coded(cid, {}, 0, <<>>, <<>>, 0, FALSE, 0)
EsStreams ==
    {Coded("h264", {"idr", "ref", "nonref"}, 0, <<"sei", "sps">>, <<"fill">>, 1, TRUE, 0),
     Coded("h264", {"idr", "ref", "nonref"}, 1, <<"aud", "sps", "pps">>, <<>>, 1, FALSE, 30),
     Coded("h264", {"idr", "ref"}, 2, <<>>, <<>>, 2, TRUE, 0),
     Coded("h265", {"cra", "rasl", "ref", "eos"}, 0, <<"vps", "sps", "pps">>, <<"suffix">>, 1, FALSE, 0),
     Coded("h265", {"idr", "ref", "nonref"}, 0, <<"sei">>, <<>>, 2, TRUE, 0), Audio("aac"), Audio("mp3")}
Piece(kind, samples) == [kind |-> kind, samples |-> samples]
EsPieces ==
    [aac |-> {Piece("frame", 7), Piece("frame", 14), Piece("junk", 0), Piece("torn", 7)},
     mp3 |-> {Piece("frame", 7), Piece("id3", 0), Piece("info", 7), Piece("tag", 0)}]
Es == INSTANCE EsStream WITH
    Lookahead <- 2, MaxLsb <- 4, MaxFrameNum <- 2, RefOffsets <- <<2, 1>>, NonRef <- -1, Streams <- EsStreams, Reach <- 2,
    Pieces <- EsPieces, Rate <- 11, MaxFrames <- 4
ASSUME Es!EsAssumption

\* An odd number of bytes, samples of one byte and of three, a file past its limit.
Wav == INSTANCE WavFile WITH
    U32 <- 70, Formats <- {[pcm |-> FALSE, align |-> 1], [pcm |-> TRUE, align |-> 3]}, Rate <- 3, FrameBytes <- 4,
    Lens <- {0, 5, 6}, TailLen <- 10, MaxWrites <- 3
ASSUME Wav!WavAssumption

\* Fields that end within a byte, on its end and past two of them, too large for their bits.
Bits == INSTANCE BitStream WITH
    W <- 3, Word <- 5, Sizes <- {0, 2}, Widths <- {1, 4}, Values <- {0, 21}, MaxPuts <- 2, MaxReads <- 3
ASSUME Bits!BitAssumption

\* Sets that replace others of their id and raise or lower what the record says of them.
HSet(kind, id, tier, level, flags, layers, minseg) ==
    [kind |-> kind, id |-> id, tier |-> tier, level |-> level, profile |-> 1, flags |-> flags, layers |-> layers,
     nested |-> 1, chroma |-> 1, depth |-> level, minseg |-> minseg]
HPps(id, sync, tiles) == [kind |-> "pps", id |-> id, sync |-> sync, tiles |-> tiles]
HSets == {HSet("vps", 0, 0, 2, {1, 2}, 1, 0), HSet("sps", 0, 0, 2, {1, 2}, 1, 3), HSet("sps", 0, 1, 1, {1}, 2, 0),
          HSet("sps", 1, 0, 3, {2}, 1, 2), HSet("sps", 1, 0, 1, {1}, 1, 2), HPps(0, TRUE, FALSE), HPps(0, FALSE, TRUE)}
AvcSets == {[spss |-> [i \in 1..n |-> <<"sps", i>>], ppss |-> [i \in 1..m |-> <<"pps", i>>]] : n \in 0..4, m \in 0..2}
Params == INSTANCE ParamRecords WITH
    Sets <- HSets, AvcSets <- AvcSets, Flags <- {1, 2}, M12 <- 4, M5 <- 4, MaxSets <- 4, MaxDecodes <- 2
ASSUME Params!ParamAssumption

NoMovie == mux = 0 /\ wire = 0 /\ given = 0 /\ got = 0
NoSong ==
    /\ streams = 0 /\ started = 0 /\ finished = 0 /\ pending = 0 /\ failed = 0 /\ failAt = 0 /\ writes = 0
    /\ file = 0 /\ written = 0 /\ rd = 0 /\ inHead = 0 /\ cached = 0 /\ derr = 0 /\ out = 0 /\ lostPages = 0
Init == \/ /\ \/ part = "mp4" /\ Mp4!Init
              \/ part = "mkv" /\ Mkv!Init
              \/ part = "flv" /\ Flv!Init
              \/ part = "es" /\ Es!Init
              \/ part = "wav" /\ Wav!Init
              \/ part = "bits" /\ Bits!Init
              \/ part = "params" /\ Params!Init
           /\ NoSong
        \/ part = "ogg" /\ Ogg!Init /\ NoMovie
Next == /\ UNCHANGED part
        /\ \/ /\ \/ part = "mp4" /\ Mp4!Next
                 \/ part = "flv" /\ Flv!Next
                 \/ part = "mkv" /\ Mkv!Next
                 \/ part = "es" /\ Es!Next
                 \/ part = "wav" /\ Wav!Next
                 \/ part = "bits" /\ Bits!Next
                 \/ part = "params" /\ Params!Next
              /\ UNCHANGED song
           \/ part = "ogg" /\ Ogg!Next /\ UNCHANGED movie
Spec == Init /\ [][Next]_vars
\* The FLV part alone
FlvSpec == part = "flv" /\ Flv!Init /\ NoSong /\ [][Next]_vars

\* The type invariants of the modules.
TypeOK ==
    /\ part = "mp4" => Mp4!TypeOK
    /\ part = "flv" => Flv!TypeOK
    /\ part = "mkv" => Mkv!TypeOK
    /\ part = "es" => Es!TypeOK
    /\ part = "wav" => Wav!TypeOK
    /\ part = "bits" => Bits!TypeOK
    /\ part = "params" => Params!TypeOK
    /\ part = "ogg" => Ogg!TypeOK

\* What was written is read, once, in order and at its time, however the file is
\* cut into buffers, and the times that no one wrote, of Matroska's decoding and of
\* elementary streams, are found again (Write of the muxers; ReadPacket, Input,
\* ReadFrame, dts.go and order.go).
GivenAsTaken ==
    /\ part = "mp4" => Mp4!GivenAsTaken
    /\ part = "flv" => Flv!GivenAsTaken
    /\ part = "mkv" => Mkv!GivenAsTaken /\ Mkv!DecodeTimes
    /\ part = "es" => Es!GivenAsTaken
    /\ part = "wav" => Wav!GivenAsTaken
    /\ part = "bits" => Bits!GivenAsTaken
    /\ part = "params" => Params!GivenAsTaken
    /\ part = "ogg" => Ogg!GivenAsTaken

\* An index points at what it names: sidx, mfra and mehd of MP4, SeekHead, Cues
\* and Duration of Matroska, numbers and granule positions of Ogg pages,
\* the sizes of WAVE, the lengths that a bit writer fills in,
\* the head of a configuration record.
IndexHonest ==
    /\ part = "mp4" => Mp4!IndexHonest
    /\ part = "mkv" => Mkv!IndexHonest
    /\ part = "wav" => Wav!IndexHonest
    /\ part = "bits" => Bits!IndexHonest
    /\ part = "params" => Params!IndexHonest
    /\ part = "ogg" => Ogg!PagesInOrder

\* A file without its end, or without a page, gives what is whole in it and
\* nothing that is joined from pieces.
CutKeepsWhole ==
    /\ part = "mp4" => Mp4!CutKeepsWhole
    /\ part = "mkv" => Mkv!CutKeepsWhole
    /\ part = "ogg" => Ogg!NeverSpliced

\* Whoever begins at a key frame, or where SeekTime leads in a plain MP4 file, has
\* the parameter sets in front of it.  Where sets change, these are of FLV those of the
\* sequence header and those that changed with the key frame (KeysCurrent has the
\* others), and of Matroska those of the CodecPrivate.
KeysDecodable ==
    /\ part = "mp4" => Mp4!SeekDecodablePlain
    /\ part = "flv" => Flv!KeysDecodable
    /\ part = "mkv" => Mkv!KeysDecodable
    /\ part = "es" => Es!KeysDecodable

\* What the AVCMuxer leaves out of a key frame as unchanged the AVCTagDemuxer puts in
\* front of it (flv-muxer_test.go:48, flv-demuxer_test.go:91): a key frame read from an
\* FLV file has the parameter sets it was written under.
KeysCurrent == part = "flv" => Flv!KeysCurrent
================================================================================
