SPECIFICATION FairSpec
CONSTANTS
    QueueMax = 2
    BatchMax = 2
    Requests = {r1, r2}
    Impatient = {r2}
    MaxPackets = 4
    MaxFailures = 1
CHECK_DEADLOCK FALSE
INVARIANTS
    TypeOK
    NothingLostWhileHealthy
    ThreadsAreOrderly
    SoleStopBooksWhatItTook
PROPERTIES
    KeepsLedger
    StopReturns
    QueueRecovers
