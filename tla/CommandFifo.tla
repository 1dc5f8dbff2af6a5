----------------------------- MODULE CommandFifo -----------------------------
(***************************************************************************)
(* What a command queue promises to the driver above it: commands go in    *)
(* whole, and come out whole, in the order they went in.                   *)
(***************************************************************************)
EXTENDS Sequences

CONSTANTS
    Command,  \* the contents a command can have
    Nothing   \* no command was processed yet

VARIABLES
    fifo,     \* commands submitted and not processed
    taken     \* the contents of the last command processed

vars == <<fifo, taken>>

Init == fifo = <<>> /\ taken = Nothing

Submit(c) == fifo' = Append(fifo, c) /\ UNCHANGED taken

Take == /\ fifo # <<>>
        /\ taken' = Head(fifo)
        /\ fifo' = Tail(fifo)

Next == Take \/ \E c \in Command : Submit(c)

Spec == Init /\ [][Next]_vars

=============================================================================
