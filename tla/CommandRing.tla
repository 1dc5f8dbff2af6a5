----------------------------- MODULE CommandRing -----------------------------
(***************************************************************************)
(* The memory of one command queue (queue.c): a ring of QueueSize bytes    *)
(* with room behind it for the end of a command that starts just below     *)
(* the top, so that every command lies in one piece.                       *)
(*                                                                         *)
(* The bridge call that fills in a command and the thread that processes   *)
(* the queue share no lock: the client moves the write offset, the walker  *)
(* the read offset, and each reads the other's.  CommandFifo says what     *)
(* comes of it.                                                            *)
(***************************************************************************)
EXTENDS Integers, Sequences

CONSTANTS
    Commands,    \* what a caller can ask for
    CmdWords,    \* the size of each, in words of four bytes, header included
    QueueSize,   \* in bytes; a power of two (NearestPower2)
    MaxCmdSize,  \* PVRSRV_MAX_CMD_SIZE
    Blank        \* memory that was never written

ASSUME CommandsAssumption ==
    /\ Blank \notin Commands
    /\ CmdWords \in [Commands -> Nat \ {0}]
ASSUME SizesAssumption == QueueSize \in Nat \ {0} /\ MaxCmdSize \in Nat

VARIABLES
    readOffset,   \* ui32ReadOffset
    writeOffset,  \* ui32WriteOffset
    mem,          \* pvLinQueueKM, what was written at each address
    client,       \* the bridge call that fills in a command
    walker,       \* the processing of the first command
    taken,        \* what the last command processed was read as
    queued        \* history: the commands submitted and not processed, with
                  \* the place of each

vars == <<readOffset, writeOffset, mem, client, walker, taken, queued>>

-----------------------------------------------------------------------------
Size(c) == 4 * CmdWords[c]

AllocSize == QueueSize + MaxCmdSize

(* x & (ui32QueueSize - 1)                                                  *)
Wrap(x) == x % QueueSize

GetSpace == Wrap(readOffset - writeOffset + QueueSize - 1)

(* The k-th word of a command.                                              *)
Word(c, k) == [cmd |-> c, word |-> k]

Idle == [pc |-> "idle"]

Init ==
    /\ readOffset = 0
    /\ writeOffset = 0
    /\ mem = [a \in 0 .. AllocSize - 1 |-> Word(Blank, 0)]
    /\ client = Idle
    /\ walker = Idle
    /\ taken = <<>>
    /\ queued = <<>>

-----------------------------------------------------------------------------
(* The client                                                               *)

(* Mutant of GetQueueSpaceKM: the header is not counted.                    *)
GetSpaceForData(c) ==
    /\ client = Idle
    /\ Size(c) <= MaxCmdSize
    /\ GetSpace > Size(c) - 4
    /\ client' = [pc |-> "write", cmd |-> c, word |-> 0]
    /\ UNCHANGED <<readOffset, writeOffset, mem, walker, taken, queued>>

(* A caller that is refused, or waits in vain, changes nothing.             *)
GetQueueSpaceKM(c) ==
    /\ client = Idle
    /\ Size(c) <= MaxCmdSize
    /\ GetSpace > Size(c)
    /\ client' = [pc |-> "write", cmd |-> c, word |-> 0]
    /\ UNCHANGED <<readOffset, writeOffset, mem, walker, taken, queued>>

(* PVRSRVInsertCommandKM and its caller fill in the command.                *)
InsertCommandKM ==
    /\ client.pc = "write"
    /\ client.word < CmdWords[client.cmd]
    /\ mem' = [mem EXCEPT ![writeOffset + 4 * client.word] = Word(client.cmd, client.word)]
    /\ client' = [client EXCEPT !.word = @ + 1]
    /\ UNCHANGED <<readOffset, writeOffset, walker, taken, queued>>

(* Mutant of SubmitCommandKM: the command is submitted before all of it is  *)
(* there.                                                                   *)
SubmitEarly ==
    /\ client.pc = "write"
    /\ client.word = 1
    /\ writeOffset' = Wrap(writeOffset + Size(client.cmd))
    /\ queued' = Append(queued, [cmd |-> client.cmd, at |-> writeOffset])
    /\ client' = Idle
    /\ UNCHANGED <<readOffset, mem, walker, taken>>

SubmitCommandKM ==
    /\ client.pc = "write"
    /\ client.word = CmdWords[client.cmd]
    /\ writeOffset' = Wrap(writeOffset + Size(client.cmd))
    /\ queued' = Append(queued, [cmd |-> client.cmd, at |-> writeOffset])
    /\ client' = Idle
    /\ UNCHANGED <<readOffset, mem, walker, taken>>

-----------------------------------------------------------------------------
(* The walker                                                               *)

(* The loop of PVRSRVProcessQueues finds a command.                         *)
ProcessQueues ==
    /\ walker = Idle
    /\ readOffset # writeOffset
    /\ walker' = [pc |-> "read", got |-> <<>>]
    /\ UNCHANGED <<readOffset, writeOffset, mem, client, taken, queued>>

(* Mutant of ProcessCommand: the read wraps at the top of the ring.         *)
ProcessWrapped ==
    /\ walker.pc = "read"
    /\ walker.got # <<>> => Len(walker.got) < CmdWords[walker.got[1].cmd]
    /\ walker' = [walker EXCEPT !.got = Append(@, mem[Wrap(readOffset + 4 * Len(walker.got))])]
    /\ UNCHANGED <<readOffset, writeOffset, mem, client, taken, queued>>

(* PVRSRVProcessCommand and the device's handler read it.                   *)
ProcessCommand ==
    /\ walker.pc = "read"
    /\ walker.got # <<>> => Len(walker.got) < CmdWords[walker.got[1].cmd]
    /\ walker' = [walker EXCEPT !.got = Append(@, mem[readOffset + 4 * Len(walker.got)])]
    /\ UNCHANGED <<readOffset, writeOffset, mem, client, taken, queued>>

(* Its dependencies are not met, or its slot is busy, or it is refused.     *)
LeaveQueue ==
    /\ walker.pc = "read"
    /\ walker.got # <<>>
    /\ walker' = Idle
    /\ UNCHANGED <<readOffset, writeOffset, mem, client, taken, queued>>

(* UPDATE_QUEUE_ROFF takes the size from the command, which is still there. *)
CommandProcessed ==
    /\ walker.pc = "read"
    /\ walker.got # <<>>
    /\ Len(walker.got) = CmdWords[walker.got[1].cmd]
    /\ readOffset' = Wrap(readOffset + Size(mem[readOffset].cmd))
    /\ taken' = walker.got
    /\ queued' = Tail(queued)
    /\ walker' = Idle
    /\ UNCHANGED <<writeOffset, mem, client>>

-----------------------------------------------------------------------------
Next ==
    \/ \E c \in Commands : GetQueueSpaceKM(c)
    \/ InsertCommandKM
    \/ SubmitCommandKM
    \/ ProcessQueues
    \/ ProcessCommand
    \/ LeaveQueue
    \/ CommandProcessed

Spec == Init /\ [][Next]_vars

-----------------------------------------------------------------------------
(* Properties                                                               *)

Cell == [cmd : Commands \cup {Blank}, word : Nat]

TypeOK ==
    /\ readOffset \in 0 .. QueueSize - 1
    /\ writeOffset \in 0 .. QueueSize - 1
    /\ mem \in [0 .. AllocSize - 1 -> Cell]
    /\ client \in [pc : {"idle"}] \cup [pc : {"write"}, cmd : Commands, word : Nat]
    /\ walker \in [pc : {"idle"}] \cup [pc : {"read"}, got : Seq(Cell)]
    /\ taken \in Seq(Cell)
    /\ queued \in Seq([cmd : Commands, at : 0 .. QueueSize - 1])

(* What a command looks like when all of it is read.                        *)
Contents(c) == [k \in 1 .. CmdWords[c] |-> Word(c, k - 1)]

(* No command that waits is written over, by however little, while a client *)
(* fills in the next one: not in the ring, nor behind its top.              *)
CommandsIntact ==
    \A i \in DOMAIN queued : \A k \in 0 .. CmdWords[queued[i].cmd] - 1 :
        mem[queued[i].at + 4 * k] = Word(queued[i].cmd, k)

(* Equal offsets mean that the queue is empty, never that it is full:       *)
(* PVRSRVDestroyCommandQueueKM frees the memory when it sees them equal.    *)
EqualMeansEmpty == readOffset = writeOffset <=> queued = <<>>

(* A client writes to memory that was allocated.                            *)
WithinBuffer == client.pc = "write" => writeOffset + Size(client.cmd) <= AllocSize

(* The walker sees whole commands in the order in which they were           *)
(* submitted.                                                               *)
Fifo == INSTANCE CommandFifo
        WITH Command <- {Contents(c) : c \in Commands},
             Nothing <- <<>>,
             fifo <- [i \in DOMAIN queued |-> Contents(queued[i].cmd)]

ImplementsFifo == Fifo!Spec

=============================================================================
