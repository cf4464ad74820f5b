SPECIFICATION Spec
CONSTANTS
    Csids = {6}
    Wide = {}
    Types = {8}
    Streams = {1}
    Lens = {0, 1}
    Stamps = {2, 4, 7}
    StampMod = 8
    ExtStamp = 3
    FixSize = 1
    Sizes = {2}
    Ctrl = 2
    SetSize = 1
    None = None
    Peers = {"own"}
    Empties = {"own"}
    MaxStreams = 64
    MaxBuffered = 100
    MaxMsgs = 2
    MaxWire = 12
INVARIANTS
    DeliveredAsWritten
CHECK_DEADLOCK FALSE
