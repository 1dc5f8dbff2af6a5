------------------------------- MODULE Kicks -------------------------------
(***************************************************************************)
(* What a client gives the SGX to do: kicks of a render context            *)
(* (sgxkick.c), transfers and 2D blits (sgxtransfer.c), and the requests   *)
(* that the microkernel forget a context (sgxutils.c).                     *)
(*                                                                         *)
(* The host counts every operation of a command on a surface as pending    *)
(* and tells the microkernel the counts it found, which the complete       *)
(* counts must reach before the command runs.  A command that cannot be    *)
(* given to the microkernel now (RETRY) is taken back.  A render counts    *)
(* what it writes with its first kick and completes it with its last; a    *)
(* transfer in parts completes everything with its last part.              *)
(*                                                                         *)
(* A cleanup request waits for a flag of the microkernel; the bridge's     *)
(* lock is held meanwhile.  The microkernel is external: Runs does what    *)
(* the build without hardware does in its place, and it answers a cleanup  *)
(* when the context has no more commands.                                  *)
(***************************************************************************)
EXTENDS Integers, Sequences, FiniteSets, SequencesExt

CONSTANTS
    Syncs,      \* PVRSRV_KERNEL_SYNC_INFOs
    Contexts,
    KickShapes, \* per context, the kicks, transfers and blits its client submits
    TransferShapes,
    BlitShapes,
    MaxIssued,  \* bound: commands
    MaxRefused, \* bound: commands refused
    MaxSpurned  \* bound: cleanup requests that time out

VARIABLES
    sync,       \* PVRSRV_SYNC_DATA: operations pending and complete
    commands,   \* per context, the commands that the microkernel has to run
    scene,      \* per context, what the open render or transfer has counted
    life,       \* of a context: "live", "cleaned" when the microkernel said so, "gone"
    cleanups,   \* the contexts whose cleanup the microkernel has to answer
    ui32CleanupStatus,  \* whether PVRSRV_USSE_EDM_CLEANUPCMD_COMPLETE is set
    request,    \* the SGXCleanupRequest that waits
    issued, refused, spurned,
    tainted,    \* history: surfaces on which an operation stays counted
    crossed,    \* history: a continued render used what others, or its end, complete
    spoilt      \* history: a completion nobody waits for is due or there

vars == <<sync, commands, scene, life, cleanups, ui32CleanupStatus, request,
          issued, refused, spurned, tainted, crossed, spoilt>>

Zero    == [rop |-> 0, wop |-> 0, roc |-> 0, woc |-> 0]
NoScene == [open |-> FALSE, ops |-> <<>>, needs |-> {}]
NoOne   == "none"

(* No context and no surface is called so.                                  *)
NamesOK == NoOne \notin Contexts \cup Syncs

(* Every context has been registered (SGXRegisterHWRenderContextKM and its  *)
(* like).                                                                   *)
Init ==
    /\ sync = [s \in Syncs |-> Zero]
    /\ commands = [c \in Contexts |-> <<>>] /\ scene = [c \in Contexts |-> NoScene]
    /\ life = [c \in Contexts |-> "live"]
    /\ cleanups = <<>> /\ ui32CleanupStatus = FALSE /\ request = NoOne
    /\ issued = 0 /\ refused = 0 /\ spurned = 0
    /\ tainted = {} /\ crossed = FALSE /\ spoilt = FALSE

-----------------------------------------------------------------------------
(* Operations <<"read", s>> and <<"write", s>>, in the order in which they  *)
(* are counted.                                                             *)

Reads(ss)  == [i \in DOMAIN ss |-> <<"read", ss[i]>>]
Writes(ss) == [i \in DOMAIN ss |-> <<"write", ss[i]>>]
One(op, s) == IF s = NoOne THEN <<>> ELSE << <<op, s>> >>
Times(op, ops) == Cardinality({i \in DOMAIN ops : ops[i] = op})
On(ops) == {ops[i][2] : i \in DOMAIN ops}

Counted(ops) == [s \in Syncs |-> [sync[s] EXCEPT !.rop = @ + Times(<<"read", s>>, ops),
                                                 !.wop = @ + Times(<<"write", s>>, ops)]]

Without(counters, ops) ==
    [s \in Syncs |-> [counters[s] EXCEPT !.rop = @ - Times(<<"read", s>>, ops),
                                         !.wop = @ - Times(<<"write", s>>, ops)]]

(* What an operation waits for when the counts are those after "before": a  *)
(* read for the writes, a write for the reads as well.                      *)
Need(op, before) ==
    LET counts == Counted(before)[op[2]]
    IN  [on |-> op[2], woc |-> counts.wop, roc |-> IF op[1] = "write" THEN counts.rop ELSE 0]

NeedsInTurn(ops) == {Need(ops[i], SubSeq(ops, 1, i - 1)) : i \in DOMAIN ops}

(* The surfaces of a transfer's list, each once.                            *)
Distinct(ss) == FoldLeft(LAMBDA kept, s : IF s \in ToSet(kept) THEN kept ELSE Append(kept, s),
                         <<>>, ss)

(* The operations counted and not complete.                                 *)
AllOps(c) == FoldLeft(LAMBDA ops, command : ops \o command.ops, scene[c].ops, commands[c])

-----------------------------------------------------------------------------
(* SGXScheduleCCBCommandKM takes the command, or answers RETRY, or fails    *)
(* otherwise: then nothing is taken back.  "own" is run with the command,   *)
(* "kept" with the last command of the render or transfer; both are counted *)
(* now.  "undone" is what RETRY takes back and "lost" what it leaves.       *)
Submits(c, first, last, own, kept, needs, keptNeeds, undone, lost) ==
    LET counted == own \o kept
        opened  == [open |-> TRUE, ops |-> scene[c].ops \o kept,
                    needs |-> scene[c].needs \cup keptNeeds]
    IN  /\ request = NoOne /\ life[c] = "live" /\ issued < MaxIssued
        /\ first = ~scene[c].open
        /\ issued' = issued + 1
        /\ \/ /\ sync' = Counted(counted)
              /\ scene' = [scene EXCEPT ![c] = IF last THEN NoScene ELSE opened]
              /\ commands' = [commands EXCEPT ![c] = Append(@,
                     [ops |-> own \o (IF last THEN opened.ops ELSE <<>>),
                      needs |-> needs \cup (IF last THEN opened.needs ELSE {})])]
              /\ crossed' = (crossed \/ (~first /\ \E need \in needs :
                     \/ need.on \in On(scene[c].ops)
                     \/ \E d \in Contexts \ {c} : need.on \in On(AllOps(d))))
              /\ UNCHANGED <<refused, tainted>>
           \/ /\ refused < MaxRefused /\ refused' = refused + 1
              /\ \/ /\ sync' = Without(Counted(counted), undone)
                    /\ tainted' = tainted \cup On(lost)
                 \/ /\ sync' = Counted(counted)
                    /\ tainted' = tainted \cup On(counted)
              /\ UNCHANGED <<scene, commands, crossed>>
        /\ UNCHANGED <<life, cleanups, ui32CleanupStatus, request, spurned, spoilt>>

(* SGXDoKickKM: the dependency of 3D on TA work is a write when the kick    *)
(* has it (bTADependency), which waits for the writes before it only; the   *)
(* transfers' synchronisation is read, and so are the sources; the          *)
(* destinations are counted by the first kick or resume.  RETRY takes back  *)
(* sources and destinations only.                                           *)

KickDependencies(k) == (IF k.dep THEN One("write", k.ta3d) ELSE <<>>)
                       \o One("read", k.ta) \o One("read", k.td)

(* Mutant of KickUndone: the destinations are not taken back.               *)
KickUndoneSources(k) == Reads(k.srcs)
KickUndone(k) == Reads(k.srcs) \o (IF k.first THEN Writes(k.dsts) ELSE <<>>)

SGXDoKickKM(c) ==
    \E k \in KickShapes[c] :
        LET own   == KickDependencies(k) \o Reads(k.srcs)
            kept  == IF k.first THEN Writes(k.dsts) ELSE <<>>
            all   == own \o kept
            needs == [i \in DOMAIN all |-> Need(all[i], SubSeq(all, 1, i - 1))]
            ta3d  == IF k.ta3d = NoOne THEN {}
                     ELSE {[on |-> k.ta3d, woc |-> sync[k.ta3d].wop, roc |-> 0]}
        IN  Submits(c, k.first, k.last, own, kept,
                    ta3d \cup {needs[i] : i \in {j \in DOMAIN own : own[j][1] = "read"}},
                    {needs[i] : i \in DOMAIN all \ DOMAIN own},
                    KickUndone(k), KickDependencies(k))

(* A surface listed twice counts once.                                      *)
TransferSurfaces(t) == Reads(Distinct(t.srcs)) \o Writes(Distinct(t.dsts))

(* Mutant of NeedsAtOnce: each surface is sampled when it is counted.       *)
NeedsAsCounted(ops, before) ==
    {Need(ops[i], before \o SubSeq(ops, 1, i - 1)) : i \in DOMAIN ops}

(* All surfaces are sampled before any is counted.                          *)
NeedsAtOnce(ops, before) == {Need(ops[i], before) : i \in DOMAIN ops}

(* SGXSubmitTransferKM: the synchronisation with TA and 3D is a write.  The *)
(* later parts of a transfer (KEEPPENDING) count no surface; all parts but  *)
(* the last complete nothing (NOSYNCUPDATE).                                *)
SGXSubmitTransferKM(c) ==
    \E t \in TransferShapes[c] :
        LET writes   == One("write", t.ta) \o One("write", t.td)
            surfaces == IF t.first THEN TransferSurfaces(t) ELSE <<>>
        IN  Submits(c, t.first, t.last, <<>>, writes \o surfaces,
                    NeedsInTurn(writes), NeedsAtOnce(surfaces, writes),
                    writes \o surfaces, <<>>)

(* SGXSubmit2DKM, on cores with 2D hardware.                                *)
SGXSubmit2DKM(c) ==
    \E b \in BlitShapes[c] :
        LET writes   == One("write", b.ta) \o One("write", b.td)
            surfaces == Reads(b.srcs) \o One("write", b.dst)
        IN  Submits(c, TRUE, TRUE, <<>>, writes \o surfaces,
                    NeedsInTurn(writes), NeedsAtOnce(surfaces, writes),
                    writes \o surfaces, <<>>)

-----------------------------------------------------------------------------
(* The microkernel runs the commands of a context in order, each when the   *)
(* counts it names are reached.                                             *)

Ready(command) ==
    \A need \in command.needs : /\ sync[need.on].woc >= need.woc
                                /\ sync[need.on].roc >= need.roc

Completes(ops) == [s \in Syncs |-> [sync[s] EXCEPT !.roc = @ + Times(<<"read", s>>, ops),
                                                   !.woc = @ + Times(<<"write", s>>, ops)]]

Runs(c) ==
    /\ commands[c] # <<>> /\ Ready(Head(commands[c]))
    /\ sync' = Completes(Head(commands[c]).ops)
    /\ commands' = [commands EXCEPT ![c] = Tail(@)]
    /\ UNCHANGED <<scene, life, cleanups, ui32CleanupStatus, request, issued, refused, spurned,
                   tainted, crossed, spoilt>>

CleansUp ==
    /\ cleanups # <<>> /\ commands[Head(cleanups)] = <<>>
    /\ cleanups' = Tail(cleanups) /\ ui32CleanupStatus' = TRUE
    /\ UNCHANGED <<sync, commands, scene, life, request, issued, refused, spurned,
                   tainted, crossed, spoilt>>

-----------------------------------------------------------------------------
(* SGXCleanupRequest for a context that its client gives up or leaves at    *)
(* its end.  The memory of the context may be freed once the call is over, *)
(* whatever it returns.                                                     *)

(* What an open render has counted stays counted.                           *)
Leaves(c, how) ==
    /\ life' = [life EXCEPT ![c] = how]
    /\ scene' = [scene EXCEPT ![c] = NoScene]
    /\ tainted' = tainted \cup On(scene[c].ops)

Requests(c) ==
    /\ request = NoOne /\ life[c] = "live"
    /\ \/ /\ request' = c /\ cleanups' = Append(cleanups, c)
          /\ spoilt' = (spoilt /\ (cleanups # <<>> \/ ui32CleanupStatus))
          /\ UNCHANGED <<life, scene, tainted, refused>>
       \/ /\ refused < MaxRefused /\ refused' = refused + 1
          /\ Leaves(c, "gone")
          /\ UNCHANGED <<request, cleanups, spoilt>>
    /\ UNCHANGED <<sync, commands, ui32CleanupStatus, issued, spurned, crossed>>

(* bForceCleanup: nothing is asked, only the flag is cleared.               *)
Forces(c) ==
    /\ request = NoOne /\ life[c] = "live"
    /\ ui32CleanupStatus' = FALSE
    /\ Leaves(c, "gone")
    /\ UNCHANGED <<sync, commands, cleanups, request, issued, refused, spurned, crossed, spoilt>>

(* SGXUnregisterHWRenderContextKM and its like; the end of a process always *)
(* asks.                                                                    *)
Unregister(c) == Requests(c) \/ Forces(c)

(* Mutant of AfterCleanup: the flag is left.                                *)
AfterCleanupSet == TRUE
(* psHostCtl->ui32CleanupStatus &= ~(PVRSRV_USSE_EDM_CLEANUPCMD_COMPLETE)   *)
AfterCleanup == FALSE

Answered ==
    /\ request # NoOne /\ ui32CleanupStatus
    /\ ui32CleanupStatus' = AfterCleanup
    /\ Leaves(request, IF spoilt THEN "gone" ELSE "cleaned")
    /\ request' = NoOne
    /\ UNCHANGED <<sync, commands, cleanups, issued, refused, spurned, crossed, spoilt>>

TimesOut ==
    /\ request # NoOne /\ spurned < MaxSpurned
    /\ spurned' = spurned + 1
    /\ spoilt' = TRUE
    /\ Leaves(request, "gone")
    /\ request' = NoOne
    /\ UNCHANGED <<sync, commands, cleanups, ui32CleanupStatus, issued, refused, crossed>>

-----------------------------------------------------------------------------
Next ==
    \/ \E c \in Contexts : \/ SGXDoKickKM(c) \/ SGXSubmitTransferKM(c) \/ SGXSubmit2DKM(c)
                                           \/ Runs(c) \/ Unregister(c)
    \/ CleansUp \/ Answered \/ TimesOut

Spec == Init /\ [][Next]_vars

-----------------------------------------------------------------------------
(* Properties.                                                              *)

(* The operations pending and not complete on a surface are those of the    *)
(* commands under way, unless a failed call or a render cut short left its  *)
(* own, or a refused kick its dependencies.                                 *)
CountsBalance ==
    \A s \in Syncs \ tainted :
        LET Due(op) == FoldSet(LAMBDA c, n : n + Times(<<op, s>>, AllOps(c)), 0, Contexts)
        IN  /\ sync[s].rop - sync[s].roc = Due("read")
            /\ sync[s].wop - sync[s].woc = Due("write")

(* Commands of different contexts never wait for one another in a circle:   *)
(* one of them can run, or waits for what an open render counted, unless    *)
(* counts were left or a later kick of a render, or part of a transfer,     *)
(* used a surface on which others had operations under way, which may wait  *)
(* for that render, or one that the render itself completes with its end.   *)
NoneWaitsForEver ==
    \/ tainted # {} \/ crossed
    \/ \A c \in Contexts : commands[c] = <<>>
    \/ \E c \in Contexts : commands[c] # <<>> /\ Ready(Head(commands[c]))
    \/ \E c \in Contexts : scene[c].open

(* A context whose cleanup was answered is not used by the microkernel any  *)
(* more, unless an earlier request was given up and its answer came late.   *)
CleanedIsUnused == \A c \in Contexts : life[c] = "cleaned" => commands[c] = <<>>

KicksSound == CountsBalance /\ NoneWaitsForEver /\ CleanedIsUnused
=============================================================================
