\* The ring: eight words; commands of one and of three words, and one that is
\* too big.
SPECIFICATION PartsSpec
CONSTANTS
    Instances = {"ring", "handles", "kernel", "swap", "pb", "calls", "driver", "load", "queues", "resman", "example"}
    short = short
    long = long
    huge = huge
    Commands = {short, long, huge}
    CmdWords <- Sizes
    QueueSize = 32
    MaxCmdSize = 12
    Blank = Blank
    NONE = NONE
    MemInfo = MemInfo
    SyncInfo = SyncInfo
    Buffer = Buffer
    Command = Command
    LosesFreeList = FALSE
INVARIANTS
    CommandsIntact
    TablesSound
    ChainsSound
    BuffersSound
    HandlesName
PROPERTIES
    ImplementsFifo
    ImplementsMap
    OthersKeepTheirs
    AllOrNothing
