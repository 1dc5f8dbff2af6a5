\* Four instances; the constants here are those of the one called "share":
\* two processes share memory, with a third mem info for a second mapping
\* or another allocation.  MCMemory gives the constants of the arenas.
SPECIFICATION MemorySpec
CONSTANTS
    Processes = {p1, p2}
    Ids = {1, 2, 3}
    Addresses = {A}
    Sizes = {1}
    DCBuffers = {}
    HeapShared = TRUE
    Sharing = TRUE
    SyncChoices = {TRUE}
    WrapChoices = {TRUE}
    Modulus = 4
    MaxRefs = 1
    MaxFaults = 0
    Nil = Nil
    Kernel = Kernel
    Display = Display
SYMMETRY Symmetry
INVARIANTS
    NothingDangles
    CountsExact
    
    NothingLeft
    TagsSound
    Answers
    KicksSound
PROPERTIES
    OthersKeepTheirs
    ImplementAbstract
CHECK_DEADLOCK FALSE
