----------------------------- MODULE DisplayDriver -----------------------------
(***************************************************************************)
(* The frame-buffer driver of the ti335x (dc_ti335x_linux), from the load  *)
(* of its module to the unload: the devices it registers with PVR services *)
(* (deviceclass.c, queue.c), the swap chain of each, the swap handler on   *)
(* the work queue of the chain, and the blank events of the frame buffer.  *)
(* A flip is that of a buffer whose last flip is complete: the syncs of    *)
(* CommandQueue see to it.  The steps of the handler, of the destruction   *)
(* of a chain and of early suspend interleave.                             *)
(*                                                                         *)
(* What the code does not undo is noted in slips: "unblank", an unblank    *)
(* that fails after the notifier was registered; "garbage", no memory for  *)
(* command data, when services free pointers nobody has set; "node", no    *)
(* device ID, when a device node leaks; "late", a flip of a chain that is  *)
(* gone; "open", an unload while a device is open; "asleep", a chain       *)
(* destroyed in early suspend.                                             *)
(***************************************************************************)
EXTENDS Naturals, Sequences, FiniteSets

CONSTANTS
    FBs,          \* the frame buffers, 0 to n
    BufferCounts, \* how many buffers a frame buffer may have room for
    SettleCount,  \* OMAPLFB_VSYNC_SETTLE_COUNT
    MaxMade,      \* bound: the chains that are made
    MaxFlips,     \* bound: flips
    MaxEvents,    \* bound: the blank events when a device is opened
    MaxBlanks,    \* bound: blanks by others
    MaxSleeps     \* bound: early suspends

VARIABLES
    loader,      \* OMAPLFBInit: the step of the frame buffer it is at
    held,        \* what the driver holds for each device
    gapsDevInfo, \* the devices in the table
    registered,  \* what services hold of each device
    opens,       \* the devices services have open
    swapChain,   \* psSwapChain of each device, empty or one chain
    notifier,    \* "off", "on", or "loop": registered again while it was on
    screen,      \* what each frame buffer shows and the flags of its device
    swapWork,    \* the flips on the work queue of each chain
    swapper,     \* OMAPLFBSwapHandler of each device
    system,      \* early suspend, and what the bounds count
    slips        \* history

driverVars == <<loader, held, gapsDevInfo, registered, opens, swapChain, notifier,
                screen, swapWork, swapper, system, slips>>

Everything == {"info", "framebuffer", "lock"}
Chain(f)   == swapChain[f][1]
HasChain(f) == swapChain[f] # <<>>
Idle == [pc |-> "idle"]
Top  == CHOOSE f \in FBs : \A g \in FBs : f >= g

FBsOK == Top \in Nat /\ FBs = 0 .. Top /\ BufferCounts \subseteq Nat /\ SettleCount \in Nat

Init ==
    /\ loader = [pc |-> "probe", fb |-> Top]
    /\ held = [f \in FBs |-> {}] /\ registered = [f \in FBs |-> {}]
    /\ gapsDevInfo = {} /\ opens = {}
    /\ swapChain = [f \in FBs |-> <<>>]
    /\ notifier = [f \in FBs |-> "off"]
    /\ screen = [f \in FBs |-> [shown |-> 0, room |-> 0, dark |-> FALSE, sBlanked |-> FALSE,
                                sBlankEvents |-> 0, sFlush |-> FALSE, sEarlySuspend |-> FALSE,
                                settled |-> 0]]
    /\ swapWork = [f \in FBs |-> <<>>]
    /\ swapper = [f \in FBs |-> Idle]
    /\ system = [asleep |-> "no", made |-> 0, flips |-> 0, blanks |-> 0, sleeps |-> 0, last |-> 0]
    /\ slips = {}

(* Nothing runs on while the module goes, or once a notifier list loops.    *)
Running == loader.pc \notin {"leave", "gone"} /\ \A f \in FBs : notifier[f] # "loop"

-----------------------------------------------------------------------------
(* The module is loaded: OMAPLFBInit takes the frame buffers from the last  *)
(* to the first, and those of no use leave nothing behind.                  *)

NextFB(f) == loader' = IF f = 0 THEN [pc |-> "done", fb |-> 0]
                       ELSE [pc |-> "probe", fb |-> f - 1]

(* No memory, no frame buffer there, one of no size, or one that cannot be  *)
(* opened: what was taken is given back within.                             *)
InitFBDev(f) ==
    /\ loader = [pc |-> "probe", fb |-> f]
    /\ \/ NextFB(f) /\ UNCHANGED <<held, screen>>
       \/ /\ held' = [held EXCEPT ![f] = {"info", "framebuffer"}]
          /\ loader' = [loader EXCEPT !.pc = "device"]
          /\ \E n \in BufferCounts : screen' = [screen EXCEPT ![f].room = n]
    /\ UNCHANGED <<gapsDevInfo, registered, opens, swapChain, notifier, swapWork, swapper,
                   system, slips>>

RegisterDCDevice(f) ==
    /\ loader = [pc |-> "device", fb |-> f]
    /\ \/ /\ registered' = [registered EXCEPT ![f] = {"device"}]
          /\ loader' = [loader EXCEPT !.pc = "commands"]
          /\ UNCHANGED <<held, slips>>
       \/ /\ held' = [held EXCEPT ![f] = {}]
          /\ slips' \in {slips, slips \cup {"node"}}
          /\ NextFB(f) /\ UNCHANGED registered
    /\ UNCHANGED <<gapsDevInfo, opens, swapChain, notifier, screen, swapWork, swapper, system>>

(* Mutant of RegisterCmdProcList: a failure leaves the device registered.   *)
RegisterCmdProcListLeaves(f) ==
    /\ loader = [pc |-> "commands", fb |-> f]
    /\ \/ /\ registered' = [registered EXCEPT ![f] = @ \cup {"commands"}]
          /\ loader' = [loader EXCEPT !.pc = "ready"]
          /\ UNCHANGED <<held, slips>>
       \/ /\ held' = [held EXCEPT ![f] = {}]
          /\ slips' \in {slips, slips \cup {"garbage"}}
          /\ NextFB(f) /\ UNCHANGED registered
    /\ UNCHANGED <<gapsDevInfo, opens, swapChain, notifier, screen, swapWork, swapper, system>>

RegisterCmdProcList(f) ==
    /\ loader = [pc |-> "commands", fb |-> f]
    /\ \/ /\ registered' = [registered EXCEPT ![f] = @ \cup {"commands"}]
          /\ loader' = [loader EXCEPT !.pc = "ready"]
          /\ UNCHANGED <<held, slips>>
       \/ /\ registered' = [registered EXCEPT ![f] = {}]
          /\ held' = [held EXCEPT ![f] = {}]
          /\ slips' \in {slips, slips \cup {"garbage"}}
          /\ NextFB(f)
    /\ UNCHANGED <<gapsDevInfo, opens, swapChain, notifier, screen, swapWork, swapper, system>>

InitLocks(f) ==
    /\ loader = [pc |-> "ready", fb |-> f]
    /\ held' = [held EXCEPT ![f] = Everything]
    /\ gapsDevInfo' = gapsDevInfo \cup {f}
    /\ NextFB(f)
    /\ UNCHANGED <<registered, opens, swapChain, notifier, screen, swapWork, swapper, system, slips>>

(* The module is unloaded: OMAPLFBDeInit takes the devices from the first   *)
(* to the last.  One that is open stays registered, without its lock.       *)
DeInitDev(f) ==
    /\ loader = [pc |-> "leave", fb |-> f]
    /\ loader' = IF f = Top THEN [pc |-> "gone", fb |-> f] ELSE [pc |-> "leave", fb |-> f + 1]
    /\ IF f \in gapsDevInfo \cap opens
       THEN /\ held' = [held EXCEPT ![f] = @ \ {"lock"}]
            /\ registered' = [registered EXCEPT ![f] = {"device"}]
            /\ slips' = slips \cup {"open"}
            /\ UNCHANGED gapsDevInfo
       ELSE /\ held' = [held EXCEPT ![f] = {}]
            /\ registered' = [registered EXCEPT ![f] = {}]
            /\ gapsDevInfo' = gapsDevInfo \ {f}
            /\ UNCHANGED slips
    /\ UNCHANGED <<opens, swapChain, notifier, screen, swapWork, swapper, system>>

(* Nobody unloads the code of a swap handler under it.                      *)
OMAPLFBDeInit ==
    /\ loader.pc = "done" /\ \A f \in FBs : ~HasChain(f)
    /\ loader' = [pc |-> "leave", fb |-> 0]
    /\ UNCHANGED <<held, gapsDevInfo, registered, opens, swapChain, notifier, screen, swapWork,
                   swapper, system, slips>>

Gone == ~Running /\ loader.pc # "leave" /\ UNCHANGED driverVars

-----------------------------------------------------------------------------
(* Blanks.  The frame buffer tells its clients: the notifier of the device  *)
(* sets the flag and counts the event.                                      *)

OMAPLFBFrameBufferEvents(f, s, dark) ==
    IF notifier[f] = "on"
    THEN [s EXCEPT !.dark = dark, !.sBlanked = dark, !.sBlankEvents = @ + 1, !.settled = 0]
    ELSE [s EXCEPT !.dark = dark]

(* Somebody else, a console or a user of the frame buffer.                  *)
BlankedByOthers(f) ==
    /\ Running
    /\ LET dark == ~screen[f].dark
       IN  /\ dark => system.blanks < MaxBlanks
           /\ screen' = [screen EXCEPT ![f] = OMAPLFBFrameBufferEvents(f, @, dark)]
           /\ system' = [system EXCEPT !.blanks = @ + IF dark THEN 1 ELSE 0]
    /\ UNCHANGED <<loader, held, gapsDevInfo, registered, opens, swapChain, notifier, swapWork,
                   swapper, slips>>

(* The handlers of early suspend are registered as long as there is a chain *)
(* and take every device: the flags before the blanks, the unblanks before  *)
(* the flags.  No chain is made meanwhile.                                  *)
EarlySuspendStep(from, to, Changed(_)) ==
    /\ Running /\ system.asleep = from /\ (\E f \in FBs : HasChain(f))
    /\ system' = [system EXCEPT !.asleep = to, !.sleeps = @ + IF from = "no" THEN 1 ELSE 0]
    /\ screen' = [f \in FBs |-> IF f \in gapsDevInfo THEN Changed(f) ELSE screen[f]]
    /\ UNCHANGED <<loader, held, gapsDevInfo, registered, opens, swapChain, notifier, swapWork,
                   swapper, slips>>

Flagged(flag, f) == [screen[f] EXCEPT !.sEarlySuspend = flag]

OMAPLFBEarlySuspendHandler ==
    \/ /\ system.sleeps < MaxSleeps
       /\ EarlySuspendStep("no", "flagged", LAMBDA f : Flagged(TRUE, f))
    \/ EarlySuspendStep("flagged", "yes", LAMBDA f : OMAPLFBFrameBufferEvents(f, screen[f], TRUE))

OMAPLFBEarlyResumeHandler ==
    \/ EarlySuspendStep("yes", "waking", LAMBDA f : OMAPLFBFrameBufferEvents(f, screen[f], FALSE))
    \/ EarlySuspendStep("waking", "no", LAMBDA f : Flagged(FALSE, f))

(* The system wakes up after the last chain has gone, handlers and all.     *)
WakesUnheard ==
    /\ Running /\ system.asleep # "no" /\ \A f \in FBs : ~HasChain(f)
    /\ system' = [system EXCEPT !.asleep = "no"]
    /\ UNCHANGED <<loader, held, gapsDevInfo, registered, opens, swapChain, notifier, screen,
                   swapWork, swapper, slips>>

-----------------------------------------------------------------------------
(* The calls of services: devices and chains.                               *)

(* Mutant of OpenDCDevice: the table of devices is not searched.            *)
OpenDCDeviceAny(f) ==
    /\ Running /\ "device" \in registered[f] /\ f \notin opens /\ screen[f].sBlankEvents < MaxEvents
    /\ opens' = opens \cup {f}
    /\ screen' = [screen EXCEPT ![f] = OMAPLFBFrameBufferEvents(f, @, FALSE)]
    /\ UNCHANGED <<loader, held, gapsDevInfo, registered, swapChain, notifier, swapWork, swapper,
                   system, slips>>

(* An unblank that fails refuses the open, and nothing changes.             *)
OpenDCDevice(f) ==
    /\ Running /\ "device" \in registered[f] /\ f \notin opens /\ screen[f].sBlankEvents < MaxEvents
    /\ f \in gapsDevInfo
    /\ opens' = opens \cup {f}
    /\ screen' = [screen EXCEPT ![f] = OMAPLFBFrameBufferEvents(f, @, FALSE)]
    /\ UNCHANGED <<loader, held, gapsDevInfo, registered, swapChain, notifier, swapWork, swapper,
                   system, slips>>

CloseDCDevice(f) ==
    /\ Running /\ f \in opens
    /\ ~HasChain(f)   \* SwapChain has displays closed before their chains
    /\ opens' = opens \ {f}
    /\ UNCHANGED <<loader, held, gapsDevInfo, registered, swapChain, notifier, screen, swapWork,
                   swapper, system, slips>>

SetDCState(f) ==
    /\ Running /\ f \in opens
    /\ screen' = [screen EXCEPT ![f].sFlush = ~@]
    /\ UNCHANGED <<loader, held, gapsDevInfo, registered, opens, swapChain, notifier, swapWork,
                   swapper, system, slips>>

(* A second chain, too many buffers, attributes that are not the display's, *)
(* missing memory: nothing changes.  A chain has the last of the buffers.   *)
CanCreate(f) ==
    /\ Running /\ f \in opens /\ ~HasChain(f)
    /\ system.asleep = "no" /\ system.made < MaxMade

(* The notifier block is wiped and registered.  An unblank that fails does  *)
(* not unregister it; the next chain then wipes a block that is in use, and *)
(* the first event never ends.                                              *)
EnabledScreen(f) == [screen[f] EXCEPT !.sBlanked = FALSE, !.sBlankEvents = 0, !.settled = 0]

CreateDCSwapChain(f) ==
    /\ CanCreate(f) /\ notifier[f] = "off"
    /\ \E n \in 2 .. screen[f].room :
          swapChain' = [swapChain EXCEPT ![f] =
              <<[id |-> system.made + 1, skip |-> screen[f].room - n, count |-> n, closing |-> FALSE,
                 bNotVSynced |-> TRUE, iBlankEvents |-> 0]>>]
    /\ notifier' = [notifier EXCEPT ![f] = "on"]
    /\ screen' = [screen EXCEPT ![f] = [EnabledScreen(f) EXCEPT !.sBlankEvents = 1, !.dark = FALSE]]
    /\ system' = [system EXCEPT !.made = @ + 1]
    /\ UNCHANGED <<loader, held, gapsDevInfo, registered, opens, swapWork, swapper, slips>>

EnableFails(f) ==
    /\ CanCreate(f) /\ screen[f].room >= 2
    /\ screen' = [screen EXCEPT ![f] = EnabledScreen(f)]
    /\ \/ notifier[f] = "off" /\ UNCHANGED <<notifier, slips>>
       \/ /\ notifier' = [notifier EXCEPT ![f] = IF @ = "off" THEN "on" ELSE "loop"]
          /\ slips' = slips \cup {"unblank"}
    /\ UNCHANGED <<loader, held, gapsDevInfo, registered, opens, swapChain, swapWork, swapper, system>>

(* The destruction holds the lock of the chain while it waits for the work  *)
(* queue.                                                                   *)
DestroyDCSwapChain(f) ==
    /\ Running /\ f \in opens /\ HasChain(f) /\ ~Chain(f).closing
    /\ swapChain' = [swapChain EXCEPT ![f][1].closing = TRUE]
    /\ UNCHANGED <<loader, held, gapsDevInfo, registered, opens, notifier, screen, swapWork,
                   swapper, system, slips>>

(* Mutant of OMAPLFBDestroySwapQueue: the work that runs is not waited for. *)
DrainedQueue(f) == swapWork[f] = <<>>

OMAPLFBDestroySwapQueue(f) == swapWork[f] = <<>> /\ swapper[f] = Idle

SwapChainDestroyed(f) ==
    /\ Running /\ HasChain(f) /\ Chain(f).closing
    /\ OMAPLFBDestroySwapQueue(f)
    /\ swapChain' = [swapChain EXCEPT ![f] = <<>>]
    /\ notifier' = [notifier EXCEPT ![f] = "off"]
    /\ screen' = [screen EXCEPT ![f].shown = 0, ![f].sBlanked = FALSE]
    /\ slips' = slips \cup IF screen[f].sEarlySuspend THEN {"asleep"} ELSE {}
    /\ UNCHANGED <<loader, held, gapsDevInfo, registered, opens, swapWork, swapper, system>>

-----------------------------------------------------------------------------
(* The flips.                                                               *)

Outstanding(f) == {swapWork[f][i].buf : i \in DOMAIN swapWork[f]}
                  \cup IF swapper[f] = Idle THEN {} ELSE {swapper[f].buf}

(* The IDs that are compared are those of the chain of the device and of    *)
(* the one whose address the flip has: the same one when the memory of a    *)
(* chain that is gone has been given to the next.                           *)
SwapChainHasChanged(f, id, reused) == ~HasChain(f) \/ (Chain(f).id # id /\ ~reused)

(* A flip of a chain that has gone comes from a queue that was not empty in *)
(* time.  It is taken and never completed.                                  *)
ProcessFlip(f) ==
    /\ Running /\ f \in gapsDevInfo /\ (HasChain(f) => ~Chain(f).closing)
    /\ system.flips < MaxFlips
    /\ system' = [system EXCEPT !.flips = @ + 1]
    /\ \E id \in 1 .. system.made, reused \in BOOLEAN :
          IF SwapChainHasChanged(f, id, reused)
          THEN slips' = slips \cup {"late"} /\ UNCHANGED swapWork
          ELSE /\ \E b \in 0 .. Chain(f).count - 1 \ Outstanding(f), interval \in {0, 1} :
                     swapWork' = [swapWork EXCEPT ![f] = Append(@, [buf |-> b, interval |-> interval])]
               /\ slips' = slips \cup IF id = Chain(f).id THEN {} ELSE {"late"}
    /\ UNCHANGED <<loader, held, gapsDevInfo, registered, opens, swapChain, notifier, screen, swapper>>

(* OMAPLFBSwapHandler shows the buffer,                                     *)
OMAPLFBFlip(f) ==
    /\ Running /\ swapper[f] = Idle /\ swapWork[f] # <<>>
    /\ LET flip == Head(swapWork[f])
       IN  /\ screen' = [screen EXCEPT ![f].shown = Chain(f).skip + flip.buf]
           /\ swapper' = [swapper EXCEPT ![f] =
                 [pc |-> "check", buf |-> flip.buf, interval |-> flip.interval,
                  bPreviouslyNotVSynced |-> Chain(f).bNotVSynced, left |-> 0, events |-> 0]]
    /\ swapWork' = [swapWork EXCEPT ![f] = Tail(@)]
    /\ swapChain' = [swapChain EXCEPT ![f][1].bNotVSynced = TRUE]
    /\ UNCHANGED <<loader, held, gapsDevInfo, registered, opens, notifier, system, slips>>

DontWaitForVSync(f) == screen[f].sBlanked \/ screen[f].sFlush \/ screen[f].sEarlySuspend

(* Mutant of Settles: blanks since the last flip are not noticed.           *)
SettlesOnce(f, events) == swapper[f].bPreviouslyNotVSynced

Settles(f, events) == swapper[f].bPreviouslyNotVSynced \/ Chain(f).iBlankEvents # events

(* decides how many vsyncs to wait for, the first time and after blanks     *)
(* until the display has settled,                                           *)
Decides(f) ==
    /\ Running /\ swapper[f].pc = "check"
    /\ IF DontWaitForVSync(f)
       THEN swapper' = [swapper EXCEPT ![f].pc = "complete"] /\ UNCHANGED swapChain
       ELSE LET events == screen[f].sBlankEvents
                left == IF Settles(f, events) THEN SettleCount ELSE swapper[f].interval
            IN  /\ swapper' = [swapper EXCEPT ![f].left = left, ![f].events = events,
                                              ![f].pc = IF left > 0 THEN "wait" ELSE "complete"]
                /\ swapChain' = [swapChain EXCEPT ![f][1].bNotVSynced = FALSE,
                      ![f][1].iBlankEvents = IF Settles(f, events) THEN events ELSE @]
    /\ UNCHANGED <<loader, held, gapsDevInfo, registered, opens, notifier, screen, swapWork, system, slips>>

GivesUp(f) ==
    /\ swapper' = [swapper EXCEPT ![f].pc = "complete"]
    /\ swapChain' = [swapChain EXCEPT ![f][1].bNotVSynced = TRUE]

(* waits, unless there is no callback for it or, when it settles, no need,  *)
OMAPLFBWaitForVSync(f) ==
    /\ Running /\ swapper[f].pc = "wait"
    /\ \/ GivesUp(f)
       \/ /\ swapper[f].left > 1 => ~DontWaitForVSync(f)
          /\ swapper' = [swapper EXCEPT ![f].pc = "vsync"] /\ UNCHANGED swapChain
    /\ UNCHANGED <<loader, held, gapsDevInfo, registered, opens, notifier, screen, swapWork, system, slips>>

(* with a result that OMAPLFBWaitForVSync does not set.                     *)
VSync(f) ==
    /\ Running /\ swapper[f].pc = "vsync" /\ ~screen[f].dark
    /\ screen' = [screen EXCEPT ![f].settled = IF @ < SettleCount THEN @ + 1 ELSE @]
    /\ \/ GivesUp(f)
       \/ /\ swapper' = [swapper EXCEPT ![f].left = @ - 1,
                             ![f].pc = IF swapper[f].left = 1 THEN "complete" ELSE "wait"]
          /\ UNCHANGED swapChain
    /\ UNCHANGED <<loader, held, gapsDevInfo, registered, opens, notifier, swapWork, system, slips>>

CmdComplete(f) ==
    /\ Running /\ swapper[f].pc = "complete"
    /\ swapper' = [swapper EXCEPT ![f] = Idle]
    /\ UNCHANGED <<loader, held, gapsDevInfo, registered, opens, swapChain, notifier, screen,
                   swapWork, system, slips>>

Next ==
    \/ \E f \in FBs :
          \/ InitFBDev(f) \/ RegisterDCDevice(f) \/ RegisterCmdProcList(f) \/ InitLocks(f) \/ DeInitDev(f)
          \/ BlankedByOthers(f) \/ OpenDCDevice(f) \/ CloseDCDevice(f) \/ SetDCState(f)
          \/ CreateDCSwapChain(f) \/ EnableFails(f) \/ DestroyDCSwapChain(f) \/ SwapChainDestroyed(f)
          \/ ProcessFlip(f) \/ OMAPLFBFlip(f) \/ Decides(f) \/ OMAPLFBWaitForVSync(f) \/ VSync(f)
          \/ CmdComplete(f)
    \/ OMAPLFBEarlySuspendHandler \/ OMAPLFBEarlyResumeHandler \/ WakesUnheard
    \/ OMAPLFBDeInit \/ Gone

Spec == Init /\ [][Next]_driverVars

-----------------------------------------------------------------------------
(* Once its initialisation is over a device is there altogether or not at   *)
(* all, whichever of its registrations failed, and services open only what  *)
(* is there, lock and all.  An unload while it is open excepted.            *)
Probing(f) == loader.fb = f /\ loader.pc \in {"device", "commands", "ready"}
AllOrNothing ==
    \A f \in FBs : "open" \notin slips =>
        /\ f \in gapsDevInfo => held[f] = Everything /\ registered[f] = {"device", "commands"}
        /\ f \notin gapsDevInfo /\ ~Probing(f) => held[f] = {} /\ registered[f] = {}
        /\ f \in opens => f \in gapsDevInfo

(* While the swap handler runs or has work its device has a chain, and a    *)
(* display without one shows the system buffer and hears of no blanks: the  *)
(* destruction outwaits the handler and undoes what it did.                 *)
ChainOutlivesWork ==
    \A f \in FBs :
        /\ swapWork[f] # <<>> \/ swapper[f] # Idle => HasChain(f)
        /\ ~HasChain(f) => screen[f].shown = 0 /\ (notifier[f] = "off" \/ "unblank" \in slips)

(* A flip that the handler takes for synchronised comes after as many       *)
(* vsyncs as the display needs to settle, since the chain was made and      *)
(* since any blank it could know of.                                        *)
SettledBeforeTrusted ==
    \A f \in FBs : swapper[f].pc = "complete" =>
        \/ Chain(f).bNotVSynced \/ swapper[f].events # screen[f].sBlankEvents
        \/ screen[f].settled >= SettleCount

(* The flag of early suspend is set only while the system sleeps, except    *)
(* where a chain went in between.                                           *)
FlagHonest == \A f \in FBs : screen[f].sEarlySuspend => system.asleep # "no" \/ "asleep" \in slips

DriverSound == AllOrNothing /\ ChainOutlivesWork /\ SettledBeforeTrusted /\ FlagHonest

=============================================================================
