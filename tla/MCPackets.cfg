SPECIFICATION Spec
CONSTANTS
    Clock = 90  MaxStreams = 2  MaxFrames = 3  MaxLost = 2
    PacketSize = 188  CcMod = 3  TsPesMax = 350  TsTimeMod = 27062  Period = 400
    TsUnits <- MCTsUnits  TsStarts = {0}  TsSteps = {210}  Delays = {40}  MaxTwice = 1
    \* A clock that wraps after 110 ms.
    PsPesMax = 100  Lead = 3600  PsTimeMod = 9962
    PsUnits <- MCPsUnits  PsStarts = {0}  PsSteps = {60}  Delay = 40
    SeqRange = 16  MinSequential = 2  MaxDropout = 3  MaxMisorder = 2  Mtu = 32  HeadLen = 12
    FirstSeqs = {13}  RtpUnits <- MCRtpUnits  RtpFrames = 2  MaxFaults = 2  MaxReports = 2
    \* A stream that begins shortly before the clock of its sender wraps, and whose
    \* keys are refreshed twice.
    TsMod = 16  SrtStarts = {11}  SrtSteps = {1, 4}  MaxLate = 1  MaxData = 3  MaxKeys = 3
INVARIANTS
    TypeOK
    GivenAsTaken
    NeverSpliced
    LossIsLocal
    WellFormed
    ReportsHonest
CHECK_DEADLOCK FALSE
