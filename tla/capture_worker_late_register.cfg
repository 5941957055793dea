SPECIFICATION Spec
CONSTANTS
    QueueMax = 1
    BatchMax = 1
    Requests = {r1}
    Impatient = {}
    MaxPackets = 3
    MaxFailures = 0
CHECK_DEADLOCK FALSE

INVARIANT
    EndedHasNoSniffer
