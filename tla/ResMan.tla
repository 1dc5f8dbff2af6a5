--------------------------------- MODULE ResMan ---------------------------------
(***************************************************************************)
(* The resource manager (resman.c): what the contexts of the processes and *)
(* that of the device list, what becomes of it when a process ends, and    *)
(* the system memory of parameter buffers (mem.c), which its process takes *)
(* out of the manager again.  The bridge lock admits one call at a time,   *)
(* and no callback calls the manager: a free with its callback is a step.  *)
(***************************************************************************)
EXTENDS Naturals, Sequences, SequencesExt

CONSTANTS
    Processes,
    Kinds,     \* types of resources, of "mapping", "modsync", "memory", "shared"
    MaxItems   \* bound: resources in a behaviour

VARIABLES
    contexts,    \* those that exist
    psResItemList,
    kind,        \* ui32ResType of every resource there ever was
    alive,       \* the resources that are not freed
    unmanaged,   \* shared memory that is not, or no longer, listed
    sweep,       \* FreeResourceByCriteria: the context, the types to come, what was swept
    failed,      \* resources whose callbacks failed: they are given up
    lost         \* resources whose context was freed before them

resVars == <<contexts, psResItemList, kind, alive, unmanaged, sweep, failed, lost>>

NamesOK == /\ "device" \notin Processes
           /\ Kinds \subseteq {"mapping", "modsync", "memory", "shared"}

(* The device's context is connected when the device is initialised.        *)
Contexts  == Processes \cup {"device"}
NoSweep   == [of |-> "device", todo |-> <<>>, swept |-> {}, on |-> FALSE]
Listed(c) == ToSet(psResItemList[c])

Init ==
    /\ contexts = {"device"}
    /\ psResItemList = [c \in Contexts |-> <<>>]
    /\ kind = <<>> /\ alive = {} /\ unmanaged = {}
    /\ sweep = NoSweep /\ failed = {} /\ lost = {}

PVRSRVResManConnect(p) ==
    /\ ~sweep.on /\ "device" \in contexts /\ p \notin contexts
    /\ contexts' = contexts \cup {p}
    /\ UNCHANGED <<psResItemList, kind, alive, unmanaged, sweep, failed, lost>>

-----------------------------------------------------------------------------
(* A resource that cannot be listed is freed at once, but shared memory.    *)
ResManRegisterRes(p, k, allocated) ==
    /\ ~sweep.on /\ p \in contexts \cap Processes /\ Len(kind) < MaxItems
    /\ LET new == Len(kind) + 1
       IN  IF allocated
           THEN /\ psResItemList' = [psResItemList EXCEPT ![p] = <<new>> \o @]
                /\ alive' = alive \cup {new} /\ UNCHANGED unmanaged
           ELSE /\ k = "shared"
                /\ alive' = alive \cup {new} /\ unmanaged' = unmanaged \cup {new}
                /\ UNCHANGED psResItemList
    /\ kind' = Append(kind, k)
    /\ UNCHANGED <<contexts, sweep, failed, lost>>

Place(c, i) == CHOOSE n \in DOMAIN psResItemList[c] : psResItemList[c][n] = i
List_RESMAN_ITEM_Remove(i) ==
    [c \in Contexts |-> IF i \in Listed(c) THEN RemoveAt(psResItemList[c], Place(c, i))
                        ELSE psResItemList[c]]

(* Mutant of FreeResourceByPtr: the item stays in its list.                 *)
FreeListed(i, ok) ==
    /\ UNCHANGED psResItemList
    /\ IF ok THEN alive' = alive \ {i} /\ UNCHANGED failed
       ELSE failed' = failed \cup {i} /\ UNCHANGED alive

(* The item goes before its callback runs, whatever that returns.           *)
FreeResourceByPtr(i, ok) ==
    /\ psResItemList' = List_RESMAN_ITEM_Remove(i)
    /\ IF ok THEN alive' = alive \ {i} /\ UNCHANGED failed
       ELSE failed' = failed \cup {i} /\ UNCHANGED alive

ResManFreeResByPtr(p, i, ok) ==
    /\ ~sweep.on /\ i \in Listed(p) /\ p \in Processes
    /\ FreeResourceByPtr(i, ok)
    /\ UNCHANGED <<contexts, kind, unmanaged, sweep, lost>>

(* Mutant of ResManDissociateRes: an item that is moved stays where it was.  *)
DissociateKeeps(p, i) ==
    /\ ~sweep.on /\ p \in Processes /\ i \in Listed(p)
    /\ \/ /\ kind[i] = "memory"
          /\ psResItemList' = [psResItemList EXCEPT !["device"] = <<i>> \o @]
          /\ UNCHANGED unmanaged
       \/ /\ kind[i] = "shared"
          /\ psResItemList' = List_RESMAN_ITEM_Remove(i)
          /\ unmanaged' = unmanaged \cup {i}
    /\ UNCHANGED <<contexts, kind, alive, sweep, failed, lost>>

(* The memory the initialising process made for the device goes to the      *)
(* device's context, that of a parameter buffer out of the manager.         *)
ResManDissociateRes(p, i) ==
    /\ ~sweep.on /\ p \in Processes /\ i \in Listed(p)
    /\ \/ /\ kind[i] = "memory"
          /\ psResItemList' = [List_RESMAN_ITEM_Remove(i) EXCEPT !["device"] = <<i>> \o @]
          /\ UNCHANGED unmanaged
       \/ /\ kind[i] = "shared"
          /\ psResItemList' = List_RESMAN_ITEM_Remove(i)
          /\ unmanaged' = unmanaged \cup {i}
    /\ UNCHANGED <<contexts, kind, alive, sweep, failed, lost>>

(* What is not managed is freed by whoever uses it.                         *)
PVRSRVFreeSharedSysMemoryKM(i) ==
    /\ ~sweep.on /\ i \in unmanaged
    /\ alive' = alive \ {i} /\ unmanaged' = unmanaged \ {i}
    /\ UNCHANGED <<contexts, psResItemList, kind, sweep, failed, lost>>

-----------------------------------------------------------------------------
(* A process ends: its resources go type by type, the operations on sync    *)
(* objects the oldest first.                                                *)
Order == <<"mapping", "reverse", "modsync", "reverse", "memory", "shared">>

Starts(c, types) ==
    /\ ~sweep.on /\ c \in contexts
    /\ sweep' = [of |-> c, todo |-> types, swept |-> {}, on |-> TRUE]
    /\ UNCHANGED <<contexts, psResItemList, kind, alive, unmanaged, failed, lost>>

PVRSRVResManDisconnect(p) == p \in Processes /\ Starts(p, Order)

(* The driver is unloaded when no process is connected.  A failing callback *)
(* here ends the deinitialisation: the context stays.                       *)
PVRSRVDeinitialiseDevice == contexts = {"device"} /\ Starts("device", <<"memory">>)

(* Mutant of List_RESMAN_ITEM_Reverse: the list stays as it is.             *)
NoReverse ==
    /\ sweep.on /\ sweep.todo # <<>> /\ Head(sweep.todo) = "reverse"
    /\ sweep' = [sweep EXCEPT !.todo = Tail(@)]
    /\ UNCHANGED <<contexts, psResItemList, kind, alive, unmanaged, failed, lost>>

List_RESMAN_ITEM_Reverse ==
    /\ sweep.on /\ sweep.todo # <<>> /\ Head(sweep.todo) = "reverse"
    /\ psResItemList' = [psResItemList EXCEPT ![sweep.of] = Reverse(@)]
    /\ sweep' = [sweep EXCEPT !.todo = Tail(@)]
    /\ UNCHANGED <<contexts, kind, alive, unmanaged, failed, lost>>

(* The list is searched from its head each time, and no more for a type     *)
(* once a callback has failed.                                              *)
FreeResourceByCriteria(ok) ==
    /\ sweep.on /\ sweep.todo # <<>> /\ Head(sweep.todo) # "reverse"
    /\ LET list == psResItemList[sweep.of]
           Meets(n) == kind[list[n]] = Head(sweep.todo)
       IN  \/ /\ \A n \in DOMAIN list : ~Meets(n)
              /\ sweep' = [sweep EXCEPT !.todo = Tail(@)]
              /\ UNCHANGED <<psResItemList, alive, failed>>
           \/ \E n \in DOMAIN list :
                 /\ Meets(n) /\ \A m \in 1 .. n - 1 : ~Meets(m)
                 /\ FreeResourceByPtr(list[n], ok)
                 /\ sweep' = [sweep EXCEPT !.swept = @ \cup {list[n]},
                                           !.todo = IF ok THEN @ ELSE Tail(@)]
    /\ UNCHANGED <<contexts, kind, unmanaged, lost>>

(* Whatever the context still lists is lost with it.                        *)
ContextFreed ==
    /\ sweep.on /\ sweep.todo = <<>>
    /\ IF sweep.of = "device" /\ sweep.swept \cap failed # {}
       THEN UNCHANGED <<contexts, lost, psResItemList>>
       ELSE /\ contexts' = contexts \ {sweep.of}
            /\ lost' = lost \cup Listed(sweep.of)
            /\ psResItemList' = [psResItemList EXCEPT ![sweep.of] = <<>>]
    /\ sweep' = NoSweep
    /\ UNCHANGED <<kind, alive, unmanaged, failed>>

Over == contexts = {} /\ UNCHANGED resVars

Next ==
    \/ \E p \in Processes : PVRSRVResManConnect(p) \/ PVRSRVResManDisconnect(p)
    \/ \E p \in Processes, k \in Kinds, ok \in BOOLEAN : ResManRegisterRes(p, k, ok)
    \/ \E p \in Processes, i \in alive, ok \in BOOLEAN : ResManFreeResByPtr(p, i, ok)
    \/ \E p \in Processes, i \in alive : ResManDissociateRes(p, i)
    \/ \E i \in unmanaged : PVRSRVFreeSharedSysMemoryKM(i)
    \/ PVRSRVDeinitialiseDevice \/ List_RESMAN_ITEM_Reverse
    \/ \E ok \in BOOLEAN : FreeResourceByCriteria(ok)
    \/ ContextFreed \/ Over

Spec == Init /\ [][Next]_resVars

-----------------------------------------------------------------------------
(* Of every resource that is alive there is one who will free it: it is in  *)
(* one list, or somebody uses it unmanaged; or else a callback failed, its  *)
(* own or that of another of its type before it.  Operations on sync        *)
(* objects are swept in the order they were made in; and a resource that is *)
(* freed is in no list.                                                     *)
ResManSound ==
    /\ \A c \in Contexts : IsInjective(psResItemList[c]) /\ (c \notin contexts => psResItemList[c] = <<>>)
    /\ \A c, d \in Contexts : c # d => Listed(c) \cap Listed(d) = {}
    /\ (UNION {Listed(c) : c \in Contexts}) \cup unmanaged \cup failed \cup lost = alive
    /\ \A i \in lost : \E j \in failed : kind[j] = kind[i]
    /\ \A i \in sweep.swept, j \in Listed(sweep.of) : kind[i] = "modsync" /\ kind[j] = "modsync" => i < j

=============================================================================
