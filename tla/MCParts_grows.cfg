\* Batches may begin as the assertion of ReallocHandleArray forbids.
SPECIFICATION PartsSpec
CONSTANTS
    Instances = {"handles"}
    short = short
    long = long
    huge = huge
    Commands = {short, long, huge}
    CmdWords <- Sizes
    QueueSize = 32
    MaxCmdSize = 12
    Blank = Blank
    NONE = NONE
    MemInfo = MemInfo
    SyncInfo = SyncInfo
    Buffer = Buffer
    Command = Command
    LosesFreeList = TRUE
PROPERTY GrowsFromEmpty
