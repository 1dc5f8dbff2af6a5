\* Two displays with a chain each, flips the driver accepts and flips it
\* refuses: a queue with a refused flip does not hold up the other.
SPECIFICATION FairSpec
PROPERTY QueuesSettle
CONSTANTS
    d1 = d1
    d2 = d2
    q1 = q1
    q2 = q2
    bufA = bufA
    bufB = bufB
    bufC = bufC
    fb1 = fb1
    fb2 = fb2
    NoBuffer = NoBuffer
    Devices = {d1, d2}
    Syncs = {bufA, bufC, fb1, fb2}
    psQueueList <- TwoList
    DeviceOf <- TwoDevice
    BuffersOf <- TwoBuffers
    SystemBuffer <- TwoSystem
    NumSlots = 1
    QueueCap = 2
    MaxOps <- TwoOps
    ClipRects = {0, 1}
CHECK_DEADLOCK FALSE
