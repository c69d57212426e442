SPECIFICATION FairSpec
CONSTANTS
    r1 = r1
    stamp = stamp
    payload = payload
    meta = meta
    SlotCount = 3
    StampWords <- MC_Stamp
    PayloadWords <- MC_Payload
    MetaWords <- MC_Meta
    Layouts <- MC_BothLayouts
    SearchWindow = 1
    Readers <- MC_OneReader
    Consumers <- MC_AllKinds
    FrameCap = 2
    MaxSeq = 4
    WriterMayDie = TRUE
INVARIANTS
    NoTornRead
    DrainLossIsOverrun
    TraceFoundUnlessOverrun
PROPERTY
    ImplementsLog
    CatchesUp
CHECK_DEADLOCK FALSE
