\* One display, a chain of two buffers, flips with and without clip
\* rectangles, renders to all surfaces, recovery passes at any time.
SPECIFICATION Spec
CONSTANTS
    d1 = d1
    d2 = d2
    q1 = q1
    q2 = q2
    bufA = bufA
    bufB = bufB
    bufC = bufC
    fb1 = fb1
    fb2 = fb2
    NoBuffer = NoBuffer
    Devices = {d1}
    Syncs = {bufA, bufB, fb1}
    psQueueList <- OneList
    DeviceOf <- OneDevice
    BuffersOf <- OneBuffers
    SystemBuffer <- OneSystem
    NumSlots = 1
    QueueCap = 2
    MaxOps <- OneOps
    ClipRects = {0, 1}
INVARIANTS
    PendingIsHeld
    SurfaceExclusive
    NoCompletionLost
    OneWalker
PROPERTIES
    StartsInOrder
SYMMETRY Symmetry
CHECK_DEADLOCK FALSE
