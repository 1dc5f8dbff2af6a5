\* One display, a chain of two buffers, every flip acceptable: all that is
\* issued completes, with recovery passes at any time.
SPECIFICATION FairSpec
PROPERTY EveryOpCompletes
CONSTANTS
    d1 = d1
    d2 = d2
    q1 = q1
    q2 = q2
    bufA = bufA
    bufB = bufB
    bufC = bufC
    fb1 = fb1
    fb2 = fb2
    NoBuffer = NoBuffer
    Devices = {d1}
    Syncs = {bufA, bufB, fb1}
    psQueueList <- OneList
    DeviceOf <- OneDevice
    BuffersOf <- OneBuffers
    SystemBuffer <- OneSystem
    NumSlots = 1
    QueueCap = 2
    MaxOps <- LiveOps
    ClipRects = {0}
CHECK_DEADLOCK FALSE
