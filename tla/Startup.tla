------------------------------- MODULE Startup -------------------------------
(* The driver's load and unload: the module (module.c), the system layer of *)
(* a board (sysconfig.c), the services (pvrsrv.c) and the SGX device        *)
(* (sgxinit.c), each of which may fail at any of its steps, and what the    *)
(* system layer does to clocks and interrupt when power changes.            *)
(*                                                                          *)
(* One thread loads and unloads; an interrupt may come at any step while    *)
(* its handler is installed.                                                *)
EXTENDS Naturals

CONSTANT MaxLost    \* bound: requests of the core's power that fail

VARIABLES
    build,      \* PVR_LDM_MODULE, SUPPORT_ACTIVE_POWER_MANAGEMENT
    at,         \* the function to run, or where the driver rests
    alive,      \* what has been allocated, registered, mapped or installed
    enabled,    \* ui32SysSpecificData, and what the init server has done
    gpsSysData, \* whether it is set
    clocks,     \* sSGXClocksEnabled, and the core in the runtime power management
    device,     \* power state of the device
    files,      \* open files of the device
    failed      \* the steps that failed

vars == <<build, at, alive, enabled, gpsSysData, clocks, device, files, failed>>

Services  == {"resMan", "perProc", "handles", "eventObject", "eventList"}
Device    == {"node", "heapInfo", "resManContext", "devInfo", "kernelContext", "resetPD",
              "ccbInfo", "regs", "powerDevice", "timer"}
Module    == {"proc", "timers", "mm", "mmapCache"}

Init ==
    /\ build \in [ldm : BOOLEAN, activePM : BOOLEAN]
    /\ at = "CreateProcEntries"
    /\ alive = {} /\ enabled = {} /\ failed = {}
    /\ gpsSysData = FALSE /\ files = 0 /\ device = "off"
    /\ clocks = [on |-> FALSE, managed |-> FALSE, users |-> 0, powered |-> FALSE, lost |-> 0]

(* A step makes something and goes on, or fails and goes elsewhere.  One    *)
(* that needs what is not there runs into it.                               *)
Makes(here, things, next) == at = here /\ at' = next /\ alive' = alive \cup things /\ UNCHANGED failed
Fails(here, next)  == at = here /\ at' = next /\ failed' = failed \cup {here} /\ UNCHANGED alive
Lacks(here, needs) == at = here /\ ~(needs \subseteq alive) /\ at' = "oops" /\ UNCHANGED <<alive, failed>>
Rest == UNCHANGED <<enabled, gpsSysData, clocks, device, files>>

-----------------------------------------------------------------------------
(* The clocks of SGX.  A request of its power that fails has been counted.  *)
EnableSGXClocks ==
    LET counted == [clocks EXCEPT !.users = @ + 1] IN
    IF clocks.on THEN {clocks}
    ELSE IF ~build.ldm THEN {[clocks EXCEPT !.on = TRUE]}
    ELSE {c \in {[counted EXCEPT !.on = TRUE, !.powered = TRUE], [counted EXCEPT !.lost = @ + 1]} :
            /\ c.lost <= MaxLost
            /\ c.on => clocks.managed}

(* Without runtime power management nobody turns the core off.              *)
DisableSGXClocks(c) ==
    IF ~c.on THEN c
    ELSE IF ~build.ldm THEN [c EXCEPT !.on = FALSE]
    ELSE [c EXCEPT !.on = FALSE, !.users = @ - 1,
                   !.powered = @ /\ (c.users > 1 \/ ~c.managed)]

(* Without active power management the core runs as long as the system.     *)
EnableSystemClocksWrap == IF build.activePM THEN {[clocks EXCEPT !.on = FALSE]} ELSE EnableSGXClocks
DisableSystemClocks(c) == DisableSGXClocks(c)

-----------------------------------------------------------------------------
(* PVRCore_Init.  Without its cache the map of offsets fails later.         *)
CreateProcEntries == \/ Makes("CreateProcEntries", {"proc"}, "PVROSFuncInit")
                     \/ Fails("CreateProcEntries", "unloaded")
PVROSFuncInit == \/ Makes("PVROSFuncInit", {"timers"}, "LinuxMMInit")
                 \/ Fails("PVROSFuncInit", "PVRMMapCleanup")
LinuxMMInit == \/ Makes("LinuxMMInit", {"mm"}, "PVRMMapInit")
               \/ Fails("LinuxMMInit", "PVRMMapCleanup")
PVRMMapInit == LET next == IF build.ldm THEN "DriverRegister" ELSE "OSInitEnvData" IN
               Makes("PVRMMapInit", {"mmapCache"}, next) \/ Fails("PVRMMapInit", next)

(* The probe calls SysInitialise.                                           *)
DriverRegister == \/ Makes("DriverRegister", {"driver"}, "OSInitEnvData")
                  \/ Fails("DriverRegister", "PVRMMapCleanup")

RegisterCharDev ==
    LET next == IF build.ldm THEN "CreateDevice" ELSE "loaded" IN
    Makes("RegisterCharDev", {"chrdev"}, next) \/ Fails("RegisterCharDev", "SysDeinit")

(* Mutant of CreateDevice: the character device stays when it fails. *)
CreateDeviceKeeps ==
    Makes("CreateDevice", {"class", "device"}, "loaded") \/ Fails("CreateDevice", "SysDeinit")

CreateDevice ==
    \/ Makes("CreateDevice", {"class", "device"}, "loaded")
    \/ /\ at = "CreateDevice" /\ at' = "SysDeinit"
       /\ alive' = alive \ {"chrdev"} /\ failed' = failed \cup {"CreateDevice"}

(* The driver is unregistered, and removed from its device if it was bound. *)
SysDeinit ==
    /\ at = "SysDeinit"
    /\ at' = IF gpsSysData THEN "SysDeinitialise" ELSE "PVRMMapCleanup"
    /\ alive' = alive \ {"driver"}
    /\ UNCHANGED failed

PVRMMapCleanup ==
    /\ at = "PVRMMapCleanup" /\ at' = "LinuxMMCleanup"
    /\ alive' = alive \ {"mmapCache"}
    /\ UNCHANGED failed

LinuxMMCleanup ==
    /\ at = "LinuxMMCleanup"
    /\ at' = "unloaded"
    /\ alive' = alive \ Module
    /\ UNCHANGED failed

PVRCore_Cleanup ==
    /\ at = "loaded" /\ files = 0 /\ "suspended" \notin enabled
    /\ at' = "SysDeinit"
    /\ alive' = alive \ {"class", "device", "chrdev"}
    /\ UNCHANGED failed

ModuleStep ==
    /\ \/ CreateProcEntries \/ PVROSFuncInit \/ LinuxMMInit \/ PVRMMapInit \/ DriverRegister
       \/ RegisterCharDev \/ CreateDevice \/ SysDeinit \/ PVRMMapCleanup \/ LinuxMMCleanup
       \/ PVRCore_Cleanup
    /\ Rest /\ UNCHANGED build

(* Opening the device connects the process.                                 *)
PVRSRVOpen ==
    /\ \/ /\ {"perProc", "resMan", "handles"} \subseteq alive
          /\ at = "loaded" /\ files = 0 /\ files' = 1 /\ UNCHANGED <<at, alive, failed>>
       \/ Lacks("loaded", {"perProc", "resMan", "handles"}) /\ UNCHANGED files
    /\ UNCHANGED <<build, enabled, gpsSysData, clocks, device>>

PVRSRVRelease ==
    /\ at = "loaded" /\ files = 1 /\ files' = 0
    /\ UNCHANGED <<build, at, alive, enabled, gpsSysData, clocks, device, failed>>

-----------------------------------------------------------------------------
(* SysInitialise: a step that fails undoes what the flags say.              *)
Undo(here) == Fails(here, "SysDeinitialise")
Sets(flags) == enabled' = enabled \cup flags
Keep == UNCHANGED <<enabled, clocks>>

OSInitEnvData ==
    /\ \/ Makes("OSInitEnvData", {"envData"}, "ResManInit") /\ Sets({"ENVDATA"})
       \/ Undo("OSInitEnvData") /\ UNCHANGED enabled
    /\ gpsSysData' = TRUE /\ UNCHANGED clocks

(* PVRSRVInit undoes its own steps when one fails, and answers PVRSRV_OK    *)
(* when it was the event object.                                            *)
PVRSRVDeInit == alive' = alive \ Services
PVRSRVInitFails(here, next) ==
    at = here /\ at' = next /\ failed' = failed \cup {here} /\ PVRSRVDeInit

ResManInit == Makes("ResManInit", {"resMan"}, "PerProcessDataInit") \/ PVRSRVInitFails("ResManInit", "SysDeinitialise")
PerProcessDataInit == \/ Makes("PerProcessDataInit", {"perProc"}, "HandleInit")
                      \/ PVRSRVInitFails("PerProcessDataInit", "SysDeinitialise")
HandleInit == Makes("HandleInit", {"handles"}, "EventObject") \/ PVRSRVInitFails("HandleInit", "SysDeinitialise")
EventObject == Makes("EventObject", {"eventObject"}, "EventList") \/ PVRSRVInitFails("EventObject", "SysLocateDevices")

(* The list that was not created has no address: what is destroyed is       *)
(* whatever the object's memory says.                                       *)
EventList == \/ Makes("EventList", {"eventList"}, "SysLocateDevices")
             \/ PVRSRVInitFails("EventList", "SysLocateDevices") \/ PVRSRVInitFails("EventList", "oops")

PVRSRVInit == (ResManInit \/ PerProcessDataInit \/ HandleInit \/ EventObject \/ EventList)
              /\ Keep /\ UNCHANGED gpsSysData

SysLocateDevices ==
    /\ \/ Makes("SysLocateDevices", {}, "SysPMRuntimeRegister") /\ Sets({"LOCATEDEV"})
       \/ Undo("SysLocateDevices") /\ UNCHANGED enabled
    /\ UNCHANGED <<gpsSysData, clocks>>

SysPMRuntimeRegister ==
    /\ Makes("SysPMRuntimeRegister", {}, "PVRSRVRegisterDevice") /\ Sets({"PM_RUNTIME"})
    /\ clocks' = [clocks EXCEPT !.managed = build.ldm]
    /\ UNCHANGED gpsSysData

(* The device's node, then the description of its heaps.                    *)
PVRSRVRegisterDevice ==
    /\ Makes("PVRSRVRegisterDevice", {"node"}, "SGXRegisterDevice") \/ Undo("PVRSRVRegisterDevice")
    /\ Keep /\ UNCHANGED gpsSysData

SGXRegisterDevice ==
    /\ \/ Makes("SGXRegisterDevice", {"heapInfo"}, "SysClocks") /\ Sets({"REGDEV"})
       \/ /\ at = "SGXRegisterDevice" /\ at' = "SysDeinitialise"
          /\ alive' = alive \ {"node"} /\ failed' = failed \cup {"SGXRegisterDevice"}
          /\ UNCHANGED enabled
    /\ UNCHANGED <<gpsSysData, clocks>>

SysClocks ==
    /\ \E c \in EnableSystemClocksWrap :
         /\ clocks' = c
         /\ IF build.activePM \/ c.on
            THEN Makes("SysClocks", {"sysClock"}, "SGXClocks") /\ Sets({"SYSCLOCKS"})
            ELSE Undo("SysClocks") /\ UNCHANGED enabled
    /\ UNCHANGED gpsSysData

SGXClocks ==
    /\ IF ~build.activePM THEN Makes("SGXClocks", {}, "ResManConnect") /\ UNCHANGED clocks
       ELSE \E c \in EnableSGXClocks :
              /\ clocks' = c
              /\ IF c.on THEN Makes("SGXClocks", {}, "ResManConnect") ELSE Undo("SGXClocks")
    /\ UNCHANGED <<enabled, gpsSysData>>

(* PVRSRVInitialiseDevice and DevInitSGXPart1.                              *)
ResManConnect == \/ "resMan" \in alive /\ Makes("ResManConnect", {"resManContext"}, "DevInfo")
                 \/ Undo("ResManConnect") \/ Lacks("ResManConnect", {"resMan"})
DevInfo == Makes("DevInfo", {"devInfo"}, "KernelContext") \/ Undo("DevInfo")
KernelContext == Makes("KernelContext", {"kernelContext"}, "ResetPD") \/ Undo("KernelContext")
ResetPD == Makes("ResetPD", {"resetPD"}, "InitDone") \/ Undo("ResetPD")

PVRSRVInitialiseDevice == (ResManConnect \/ DevInfo \/ KernelContext \/ ResetPD) /\ Keep /\ UNCHANGED gpsSysData

InitDone ==
    /\ Makes("InitDone", {"socTimer"}, "RegisterCharDev") /\ Sets({"INITDEV"})
    /\ clocks' = IF build.activePM THEN DisableSGXClocks(clocks) ELSE clocks
    /\ UNCHANGED gpsSysData

SysInitialise ==
    /\ \/ OSInitEnvData \/ PVRSRVInit \/ SysLocateDevices \/ SysPMRuntimeRegister
       \/ PVRSRVRegisterDevice \/ SGXRegisterDevice \/ SysClocks \/ SGXClocks \/ PVRSRVInitialiseDevice \/ InitDone
    /\ UNCHANGED <<build, device, files>>

-----------------------------------------------------------------------------
(* The init server: DevInitSGXPart2KM, then SysFinalise.  It runs once.     *)
GiveUp(here) == Fails(here, "loaded")

InitServer == /\ at = "loaded" /\ files = 1 /\ "RAN" \notin enabled /\ "suspended" \notin enabled
              /\ at' = "InitDevInfo" /\ Sets({"RAN"}) /\ UNCHANGED <<alive, failed, clocks>>

InitDevInfo == Makes("InitDevInfo", {"ccbInfo"}, "MapRegs") \/ GiveUp("InitDevInfo")
MapRegs == Makes("MapRegs", {"regs"}, "RegisterPowerDevice") \/ GiveUp("MapRegs")
RegisterPowerDevice == Makes("RegisterPowerDevice", {"powerDevice"}, "FinaliseClocks") \/ GiveUp("RegisterPowerDevice")
DevInitSGXPart2 == (InitDevInfo \/ MapRegs \/ RegisterPowerDevice) /\ Keep

FinaliseClocks ==
    /\ \E c \in (IF build.activePM THEN EnableSGXClocks ELSE {clocks}) :
         /\ clocks' = c
         /\ IF c.on THEN Makes("FinaliseClocks", {}, "OSInstallMISR") ELSE GiveUp("FinaliseClocks")
    /\ UNCHANGED enabled

(* Mutant of OSInstallMISR: the interrupt is installed first. *)
OSInstallMISRLate ==
    /\ Makes("OSInstallMISR", {"lisr"}, "OSInstallDeviceLISR") /\ Sets({"LISR"})
    /\ UNCHANGED clocks

OSInstallMISR ==
    /\ \/ Makes("OSInstallMISR", {"misr"}, "OSInstallDeviceLISR") /\ Sets({"MISR"})
       \/ GiveUp("OSInstallMISR") /\ UNCHANGED enabled
    /\ UNCHANGED clocks

OSInstallDeviceLISR ==
    /\ \/ Makes("OSInstallDeviceLISR", {"lisr"}, "Finalised") /\ Sets({"LISR"})
       \/ GiveUp("OSInstallDeviceLISR") /\ UNCHANGED enabled
    /\ UNCHANGED clocks

(* Mutant of Finalised: the clocks are left on. *)
FinalisedOn == Makes("Finalised", {}, "SGXDevInitCompatCheck") /\ UNCHANGED <<enabled, clocks>>

(* The version string is read from the core; then it may sleep.             *)
Finalised ==
    /\ Makes("Finalised", {}, "SGXDevInitCompatCheck")
    /\ clocks' = IF build.activePM THEN DisableSGXClocks(clocks) ELSE clocks
    /\ UNCHANGED enabled

(* Powering the device up makes the lockup timer.                           *)
PowersUp ==
    \E c \in (IF build.activePM THEN EnableSGXClocks ELSE {clocks}) :
        /\ clocks' = c
        /\ IF c.on THEN device' = "on" /\ alive' = alive \cup {"timer"} ELSE UNCHANGED <<device, alive>>

(* The microkernel says what it is, which takes a command and thus power:   *)
(* it does not answer in time, is of another build, or agrees.              *)
SGXGetMiscInfoUkernel(ok) == PowersUp /\ (ok => device' = "on")

(* The init server succeeds only with a client and a microkernel of the     *)
(* driver's build; the core may remain powered when they are not.           *)
SGXDevInitCompatCheck ==
    /\ at = "SGXDevInitCompatCheck" /\ at' = "loaded"
    /\ \/ SGXGetMiscInfoUkernel(TRUE) /\ Sets({"SUCCESSFUL"}) /\ UNCHANGED failed
       \/ /\ SGXGetMiscInfoUkernel(FALSE) \/ UNCHANGED <<alive, clocks, device>>
          /\ failed' = failed \cup {"SGXDevInitCompatCheck"} /\ UNCHANGED enabled

SysFinalise ==
    /\ \/ /\ \/ InitServer \/ DevInitSGXPart2 \/ FinaliseClocks
             \/ OSInstallMISR \/ OSInstallDeviceLISR \/ Finalised
          /\ UNCHANGED device
       \/ SGXDevInitCompatCheck
    /\ UNCHANGED <<build, gpsSysData, files>>

-----------------------------------------------------------------------------
(* Power of the device (SysDevicePostPowerState, SysDevicePrePowerState):   *)
(* up for a call, which takes an init server that succeeded, and down when  *)
(* it is idle.                                                              *)
Usable == at = "loaded" /\ {"SUCCESSFUL", "SYSCLOCKS"} \subseteq enabled

SysDevicePostPowerState ==
    /\ Usable /\ device = "off"
    /\ PowersUp
    /\ UNCHANGED <<enabled, failed>>

SysDevicePrePowerState ==
    /\ at = "loaded" /\ device = "on" /\ device' = "off"
    /\ clocks' = IF build.activePM THEN DisableSGXClocks(clocks) ELSE clocks
    /\ UNCHANGED <<alive, enabled, failed>>

(* The system is suspended with its devices off (PowerKick): what is taken  *)
(* down is marked to come back.                                             *)
Thing  == [LISR |-> "lisr", SYSCLOCKS |-> "sysClock"]
Marked == [LISR |-> "PM_UNINSTALL_LISR", SYSCLOCKS |-> "PM_DISABLE_SYSCLOCKS"]
TakesDown(fs) == /\ alive' = alive \ {Thing[f] : f \in fs}
                 /\ enabled' = (enabled \ fs) \cup {Marked[f] : f \in fs} \cup {"suspended"}
BringsBack(fs) == /\ alive' = alive \cup {Thing[f] : f \in fs}
                  /\ enabled' = (enabled \ ({Marked[f] : f \in fs} \cup {"suspended"})) \cup fs

SysSystemPrePowerState ==
    /\ at = "loaded" /\ gpsSysData /\ build.ldm /\ device = "off" /\ "suspended" \notin enabled
    /\ TakesDown({f \in DOMAIN Thing : f \in enabled})
    /\ clocks' = IF "SYSCLOCKS" \in enabled THEN DisableSystemClocks(clocks) ELSE clocks
    /\ UNCHANGED <<device, failed>>

(* The interrupt does not come back without the clocks.                     *)
SysSystemPostPowerState ==
    LET down == {f \in DOMAIN Thing : Marked[f] \in enabled} IN
    /\ at = "loaded" /\ "suspended" \in enabled
    /\ \E c \in (IF "SYSCLOCKS" \in down THEN EnableSystemClocksWrap ELSE {clocks}) :
         /\ clocks' = c
         /\ IF "SYSCLOCKS" \notin down \/ build.activePM \/ c.on
            THEN BringsBack(down) \/ BringsBack(down \ {"LISR"})
            ELSE BringsBack({})
    /\ UNCHANGED <<device, failed>>

Power ==
    /\ \/ SysDevicePostPowerState \/ SysDevicePrePowerState
       \/ SysSystemPrePowerState \/ SysSystemPostPowerState
    /\ UNCHANGED <<build, at, gpsSysData, files>>

-----------------------------------------------------------------------------
(* SysDeinitialise undoes what the flags say and stops at the first error.  *)
(* It was called by a failing SysInitialise, which forgets the system data  *)
(* whatever it answers, and whose failure does not fail the load of a       *)
(* driver bound to a device; or by the unload.                              *)
Back == IF "driver" \in alive THEN "RegisterCharDev" ELSE "PVRMMapCleanup"

(* Mutant of UninstallDeviceLISR: the flag of the other handler is tested. *)
UninstallDeviceLISROther ==
    /\ at = "SysDeinitialise" /\ at' = "OSUninstallMISR"
    /\ alive' = alive \ ({"socTimer"} \cup {r \in {"lisr"} : "PM_UNINSTALL_LISR" \in enabled})
    /\ UNCHANGED <<enabled, gpsSysData, clocks, device, failed>>

UninstallDeviceLISR ==
    /\ at = "SysDeinitialise" /\ at' = "OSUninstallMISR"
    /\ alive' = alive \ ({"socTimer"} \cup {r \in {"lisr"} : "LISR" \in enabled})
    /\ UNCHANGED <<enabled, gpsSysData, clocks, device, failed>>

OSUninstallMISR ==
    /\ at = "OSUninstallMISR"
    /\ at' = IF "INITDEV" \in enabled THEN "PVRSRVDeinitialiseDevice" ELSE "SysRelease"
    /\ alive' = alive \ {r \in {"misr"} : "MISR" \in enabled}
    /\ UNCHANGED <<enabled, gpsSysData, clocks, device, failed>>

(* The core must run to be powered off; what remains of it is not looked at *)
(* again when that fails.                                                   *)
PVRSRVDeinitialiseDevice ==
    /\ at = "PVRSRVDeinitialiseDevice"
    /\ \E c \in (IF build.activePM THEN EnableSGXClocks ELSE {clocks}) :
         \/ /\ c.on \/ ~build.activePM
            /\ at' = "SysRelease" /\ alive' = alive \ Device
            /\ device' = "off"
            /\ clocks' = IF device = "on" /\ build.activePM THEN DisableSGXClocks(c) ELSE c
            /\ UNCHANGED failed
         \/ /\ device = "on" \/ (build.activePM /\ ~c.on)
            /\ at' = Back /\ failed' = failed \cup {"PVRSRVDeinitialiseDevice"} /\ clocks' = c
            /\ UNCHANGED <<alive, device>>
    /\ UNCHANGED <<enabled, gpsSysData>>

(* Mutant of SysRelease: the clocks are not disabled. *)
SysReleaseOn ==
    /\ at = "SysRelease"
    /\ alive' = alive \ (Services \cup {"envData", "sysClock"})
    /\ clocks' = [clocks EXCEPT !.managed = FALSE]
    /\ enabled' = {} /\ gpsSysData' = FALSE /\ at' = Back
    /\ UNCHANGED <<device, failed>>

(* The runtime power management goes before the clocks.                     *)
SysRelease ==
    /\ at = "SysRelease"
    /\ alive' = alive \ (Services \cup {r \in {"envData"} : "ENVDATA" \in enabled}
                                  \cup {r \in {"sysClock"} : "SYSCLOCKS" \in enabled})
    /\ LET unmanaged == [clocks EXCEPT !.managed = FALSE] IN
       clocks' = IF "PM_RUNTIME" \notin enabled THEN clocks
                ELSE IF "SYSCLOCKS" \notin enabled THEN unmanaged
                ELSE DisableSystemClocks(unmanaged)
    /\ enabled' = {} /\ gpsSysData' = FALSE /\ at' = Back
    /\ UNCHANGED <<device, failed>>

SysDeinitialise ==
    /\ \/ UninstallDeviceLISR \/ OSUninstallMISR \/ PVRSRVDeinitialiseDevice \/ SysRelease
    /\ UNCHANGED <<build, files>>

Next == \/ ModuleStep \/ PVRSRVOpen \/ PVRSRVRelease \/ SysInitialise \/ SysFinalise \/ Power
        \/ SysDeinitialise

Spec == Init /\ [][Next]_vars

-----------------------------------------------------------------------------
(* While its handler is installed an interrupt finds what it works on.      *)
InterruptReady ==
    "lisr" \in alive => gpsSysData /\ {"envData", "misr", "node", "devInfo", "regs"} \subseteq alive

(* What the module has made is gone when it is unloaded, whatever failed,   *)
(* and everything is, unless the device was registered and not set up, or   *)
(* could not be switched off.                                               *)
NothingLeft ==
    at = "unloaded" =>
        /\ alive \cap (Module \cup {"driver", "chrdev", "class", "device", "misr", "lisr", "socTimer"}) = {}
        /\ alive # {} => failed \cap {"SysClocks", "SGXClocks", "ResManConnect", "DevInfo", "KernelContext",
                                      "ResetPD", "PVRSRVDeinitialiseDevice"} # {}

(* The driver runs into something that is not there only when the event     *)
(* objects could not be made, or the device is opened although the probe    *)
(* failed.                                                                  *)
OopsOnly ==
    at = "oops" => \/ {"EventObject", "EventList"} \cap failed # {}
                   \/ build.ldm /\ ~gpsSysData

(* Each request of the core's power is taken back, but those that failed.   *)
ClocksBalanced ==
    at = "unloaded" /\ "PVRSRVDeinitialiseDevice" \notin failed => clocks.users = clocks.lost

(* A core that nobody uses has no power.                                    *)
IdleIsOff ==
    at = "loaded" /\ build.ldm /\ build.activePM /\ device = "off" /\ gpsSysData /\ clocks.lost = 0
      /\ failed \cap {"OSInstallMISR", "OSInstallDeviceLISR"} = {} => ~clocks.powered


LoadSound == InterruptReady /\ NothingLeft /\ OopsOnly /\ ClocksBalanced /\ IdleIsOff

=============================================================================
