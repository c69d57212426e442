SPECIFICATION Spec
CONSTANTS
    r1 = r1
    stamp = stamp
    payload = payload
    meta = meta
    SlotCount = 3
    StampWords <- MC_Stamp
    PayloadWords <- MC_Payload
    MetaWords <- MC_None
    Layouts <- MC_Hinted
    SearchWindow = 1
    Readers <- MC_OneReader
    Consumers <- MC_HdfOnly
    FrameCap = 2
    MaxSeq = 4
    WriterMayDie = FALSE
INVARIANT
    HdfLossIsOverrun
CHECK_DEADLOCK FALSE
