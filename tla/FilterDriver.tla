------------------------------ MODULE FilterDriver ------------------------------
(***************************************************************************)
(* The life of the driver of driver/win0doom-display.c: DriverEntry with   *)
(* its failure paths, a filter device per keyboard stack from AddDevice to *)
(* IRP_MN_REMOVE_DEVICE, the connection of the service callback, and       *)
(* Win0DoomUnload, each at the grain of the calls and assignments whose    *)
(* order matters.                                                          *)
(*                                                                         *)
(* Environment, by the rules drivers rely on: PnP builds and removes a     *)
(* stack one request at a time; the port driver below calls the callback   *)
(* it was connected with until it has handled the removal, which waits for *)
(* a callback under way; the I/O manager unloads a driver when no handle   *)
(* is open and nothing is attached above its devices, and lets neither     *)
(* come about while it does.                                               *)
(***************************************************************************)
EXTENDS Integers, FiniteSets

CONSTANTS
    Stacks,     \* the keyboard device stacks
    MaxHandles  \* bound: the handles open on the control device at once

ASSUME DriverAssumption == MaxHandles \in Nat

VARIABLES
    driver,             \* where DriverEntry or Unload is
    owned,              \* the kernel resources the driver holds
    remaining,          \* the devices the loop of Unload has still to visit
    g_ControlExtension, \* whether the pointer is set
    handles,            \* handles open on the control device
    stack,              \* stack[s]: where PnP has brought stack s
    above,              \* above[s]: whether kbdclass is attached above the filter
    connecting,         \* connecting[s]: where the handling of the connect request is
    Connected,          \* Connected[s]: the flag of the filter extension
    UpperConnectData,   \* UpperConnectData[s]: the callback saved in the extension
    connectData,        \* connectData[s]: the callback in the request of kbdclass
    lower,              \* lower[s]: the callback the port driver was connected with
    callback            \* callback[s]: where the service callback is

driverVars == <<driver, g_ControlExtension, handles, remaining>>
filterVars == <<Connected, UpperConnectData>>
connectVars == <<connecting, connectData, lower>>
vars == <<driverVars, owned, stack, above, connectVars, filterVars, callback>>

Filter(s) == <<"filter device", s>>
Attachment(s) == <<"attachment", s>>
ControlDevice == <<"control device">>
Mapping == <<"framebuffer mapping">>
Link == <<"symbolic link">>

NoService == "none"
ClassService == "class"     \* the callback of kbdclass
OwnService == "own"         \* Win0DoomKeyboardServiceCallback

-----------------------------------------------------------------------------
Init ==
    /\ driver = "unloaded"
    /\ owned = {}
    /\ remaining = {}
    /\ g_ControlExtension = FALSE
    /\ handles = 0
    /\ stack = [s \in Stacks |-> "absent"]
    /\ above = [s \in Stacks |-> FALSE]
    /\ connecting = [s \in Stacks |-> "idle"]
    /\ Connected = [s \in Stacks |-> FALSE]
    /\ UpperConnectData = [s \in Stacks |-> NoService]
    /\ connectData = [s \in Stacks |-> NoService]
    /\ lower = [s \in Stacks |-> NoService]
    /\ callback = [s \in Stacks |-> "idle"]

-----------------------------------------------------------------------------
(* DriverEntry.                                                            *)

EntryStep(from, to) ==
    /\ driver = from
    /\ driver' = to
    /\ UNCHANGED <<handles, remaining, stack, above, connectVars, filterVars, callback>>

CreateControl ==
    /\ EntryStep("unloaded", "created")
    /\ owned' = owned \cup {ControlDevice}
    /\ UNCHANGED g_ControlExtension

MapFrameBuffer ==
    /\ EntryStep("created", "mapped")
    /\ owned' = owned \cup {Mapping}
    /\ UNCHANGED g_ControlExtension

MapFails ==
    /\ EntryStep("created", "failed")
    /\ owned' = owned \ {ControlDevice}
    /\ UNCHANGED g_ControlExtension

CreateLink ==
    /\ EntryStep("mapped", "linked")
    /\ owned' = owned \cup {Link}
    /\ UNCHANGED g_ControlExtension

(* Mutant: the mapping is forgotten on the way out. *)
LinkFailsLeaking ==
    /\ EntryStep("mapped", "failed")
    /\ owned' = owned \ {ControlDevice}
    /\ UNCHANGED g_ControlExtension

LinkFails ==
    /\ EntryStep("mapped", "failed")
    /\ owned' = owned \ {Mapping, ControlDevice}
    /\ UNCHANGED g_ControlExtension

EntryDone ==
    /\ EntryStep("linked", "loaded")
    /\ g_ControlExtension' = TRUE
    /\ UNCHANGED owned

(* The I/O manager drops a driver whose DriverEntry failed; it may be loaded *)
(* again.                                                                    *)
Reload ==
    /\ EntryStep("failed", "unloaded")
    /\ UNCHANGED <<owned, g_ControlExtension>>

-----------------------------------------------------------------------------
(* Handles on the control device.                                          *)

OpenHandle ==
    /\ driver = "loaded"
    /\ handles < MaxHandles
    /\ handles' = handles + 1
    /\ UNCHANGED <<driver, g_ControlExtension, owned, remaining, stack, above,
                   connectVars, filterVars, callback>>

CloseHandle ==
    /\ handles > 0
    /\ handles' = handles - 1
    /\ UNCHANGED <<driver, g_ControlExtension, owned, remaining, stack, above,
                   connectVars, filterVars, callback>>

-----------------------------------------------------------------------------
(* Win0DoomAddDevice.                                                      *)

(* A new filter extension is zeroed. *)
CreateFilter(s) ==
    /\ driver = "loaded"
    /\ stack[s] = "absent"
    /\ stack' = [stack EXCEPT ![s] = "created"]
    /\ owned' = owned \cup {Filter(s)}
    /\ Connected' = [Connected EXCEPT ![s] = FALSE]
    /\ UpperConnectData' = [UpperConnectData EXCEPT ![s] = NoService]
    /\ UNCHANGED <<driverVars, above, connectVars, callback>>

Attach(s) ==
    /\ stack[s] = "created"
    /\ stack' = [stack EXCEPT ![s] = "added"]
    /\ owned' = owned \cup {Attachment(s)}
    /\ UNCHANGED <<driverVars, above, connectVars, filterVars, callback>>

(* Mutant: the filter device is not deleted when it could not be attached. *)
AttachFailsLeaking(s) ==
    /\ stack[s] = "created"
    /\ stack' = [stack EXCEPT ![s] = "absent"]
    /\ UNCHANGED <<driverVars, owned, above, connectVars, filterVars, callback>>

AttachFails(s) ==
    /\ stack[s] = "created"
    /\ stack' = [stack EXCEPT ![s] = "absent"]
    /\ owned' = owned \ {Filter(s)}
    /\ UNCHANGED <<driverVars, above, connectVars, filterVars, callback>>

(* kbdclass attaches above and prepares the connect request. *)
ClassAttaches(s) ==
    /\ driver = "loaded"
    /\ stack[s] = "added"
    /\ ~above[s]
    /\ above' = [above EXCEPT ![s] = TRUE]
    /\ connectData' = [connectData EXCEPT ![s] = ClassService]
    /\ UNCHANGED <<driverVars, owned, stack, connecting, lower, filterVars, callback>>

-----------------------------------------------------------------------------
(* IOCTL_INTERNAL_KEYBOARD_CONNECT in Win0DoomInternalDeviceControl.       *)

ConnectStep(s, from, to) ==
    /\ connecting[s] = from
    /\ connecting' = [connecting EXCEPT ![s] = to]
    /\ UNCHANGED <<driverVars, owned, stack, above, callback>>

(* Mutant: a second connection is not refused. *)
ConnectUnchecked(s) ==
    /\ stack[s] = "added" /\ above[s]
    /\ ConnectStep(s, "idle", "save")
    /\ UNCHANGED <<filterVars, connectData, lower>>

(* kbdclass connects, and may do so again with the same data if it failed.   *)
Connect(s) ==
    /\ stack[s] = "added" /\ above[s]
    /\ ~Connected[s]
    /\ ConnectStep(s, "idle", "save")
    /\ UNCHANGED <<filterVars, connectData, lower>>

(* STATUS_SHARING_VIOLATION, and STATUS_INVALID_PARAMETER for a request that  *)
(* is too short or names no callback: the request ends without an effect.     *)
ConnectRefused(s) ==
    /\ stack[s] = "added" /\ above[s]
    /\ ConnectStep(s, "idle", "idle")
    /\ UNCHANGED <<filterVars, connectData, lower>>

SaveUpper(s) ==
    /\ ConnectStep(s, "save", "substitute")
    /\ UpperConnectData' = [UpperConnectData EXCEPT ![s] = connectData[s]]
    /\ UNCHANGED <<Connected, connectData, lower>>

(* Mutant: the device is put into the request, and not the callback. *)
SubstituteDevice(s) ==
    /\ ConnectStep(s, "substitute", "forward")
    /\ Connected' = [Connected EXCEPT ![s] = TRUE]
    /\ UNCHANGED <<UpperConnectData, connectData, lower>>

Substitute(s) ==
    /\ ConnectStep(s, "substitute", "forward")
    /\ connectData' = [connectData EXCEPT ![s] = OwnService]
    /\ Connected' = [Connected EXCEPT ![s] = TRUE]
    /\ UNCHANGED <<UpperConnectData, lower>>

(* The port driver takes the callback, or fails the request.                 *)
ForwardConnect(s) ==
    /\ ConnectStep(s, "forward", "idle")
    /\ \/ lower' = [lower EXCEPT ![s] = connectData[s]]
       \/ UNCHANGED lower
    /\ UNCHANGED <<filterVars, connectData>>

-----------------------------------------------------------------------------
(* Win0DoomKeyboardServiceCallback.                                        *)

CallbackStep(s, from, to) ==
    /\ callback[s] = from
    /\ callback' = [callback EXCEPT ![s] = to]
    /\ UNCHANGED <<driverVars, owned, stack, above, connectVars, filterVars>>

(* The port driver calls with records: the pointer is read and tested. *)
Enter(s) ==
    /\ lower[s] = OwnService
    /\ CallbackStep(s, "idle", IF g_ControlExtension THEN "queue" ELSE "upper")

Queue(s) == CallbackStep(s, "queue", "upper")

(* Mutant: the callback that is saved is the driver's own. *)
CallUpperItself(s) == CallbackStep(s, "upper", "queue")

CallUpper(s) == CallbackStep(s, "upper", "idle")

-----------------------------------------------------------------------------
(* IRP_MN_REMOVE_DEVICE in Win0DoomPnp.                                    *)

(* kbdclass passes the removal of the stack down.                            *)
Remove(s) ==
    /\ driver = "loaded"
    /\ stack[s] = "added"
    /\ connecting[s] = "idle"
    /\ stack' = [stack EXCEPT ![s] = "remove"]
    /\ UNCHANGED <<driverVars, owned, above, connectVars, filterVars, callback>>

(* Mutant: the filter device is deleted before the removal is passed down. *)
RemoveLowerLate(s) ==
    /\ stack[s] = "remove"
    /\ stack' = [stack EXCEPT ![s] = "detach"]
    /\ owned' = owned \ {Filter(s)}
    /\ UNCHANGED <<driverVars, above, connectVars, filterVars, callback>>

(* IoCallDriver returns when the port driver has let go of the callback.     *)
RemoveLower(s) ==
    /\ stack[s] = "remove"
    /\ callback[s] = "idle"
    /\ stack' = [stack EXCEPT ![s] = "detach"]
    /\ lower' = [lower EXCEPT ![s] = NoService]
    /\ UNCHANGED <<driverVars, owned, above, connecting, connectData, filterVars, callback>>

(* IoDetachDevice and IoDeleteDevice; kbdclass then leaves as well.          *)
Detach(s) ==
    /\ stack[s] = "detach"
    /\ stack' = [stack EXCEPT ![s] = "delete"]
    /\ owned' = owned \ {Attachment(s)}
    /\ UNCHANGED <<driverVars, above, connectVars, filterVars, callback>>

Delete(s) ==
    /\ stack[s] = "delete"
    /\ stack' = [stack EXCEPT ![s] = "absent"]
    /\ owned' = owned \ {Filter(s)}
    /\ above' = [above EXCEPT ![s] = FALSE]
    /\ UNCHANGED <<driverVars, connectVars, filterVars, callback>>

-----------------------------------------------------------------------------
(* Win0DoomUnload.                                                         *)

Devices == {ControlDevice} \cup {Filter(s) : s \in Stacks}

(* The list of the driver's devices is read and the symbolic link deleted.   *)
Unload ==
    /\ driver = "loaded"
    /\ handles = 0
    /\ \A s \in Stacks : ~above[s] /\ stack[s] \in {"absent", "added"}
    /\ driver' = "unlinked"
    /\ remaining' = owned \cap Devices
    /\ owned' = owned \ {Link}
    /\ UNCHANGED <<g_ControlExtension, handles, stack, above, connectVars, filterVars, callback>>

(* Mutant: the pointer is left as it is. *)
ForgetControlNot ==
    /\ driver = "unlinked"
    /\ driver' = "deleting"
    /\ UNCHANGED <<g_ControlExtension, handles, owned, remaining, stack, above,
                   connectVars, filterVars, callback>>

ForgetControl ==
    /\ driver = "unlinked"
    /\ driver' = "deleting"
    /\ g_ControlExtension' = FALSE
    /\ UNCHANGED <<handles, owned, remaining, stack, above, connectVars, filterVars,
                   callback>>

(* The turn of the loop for device d, which frees what goes with it.  The    *)
(* next device was read before d is deleted, so the loop visits each device  *)
(* of the list once; newest first is any order of the filters, whose stacks  *)
(* PnP builds in any order, and the control device last.                     *)
Visit(d, freed) ==
    /\ driver = "deleting"
    /\ d \in remaining
    /\ remaining' = remaining \ {d}
    /\ owned' = owned \ freed
    /\ UNCHANGED <<driver, g_ControlExtension, handles, above, connectVars, filterVars,
                   callback>>

(* Mutant: the filter is detached and not deleted. *)
DetachFilter(s) ==
    /\ Visit(Filter(s), {Attachment(s)})
    /\ stack' = [stack EXCEPT ![s] = "absent"]

DeleteFilter(s) ==
    /\ Visit(Filter(s), {Attachment(s), Filter(s)})
    /\ stack' = [stack EXCEPT ![s] = "absent"]

DeleteControl ==
    /\ remaining = {ControlDevice}
    /\ Visit(ControlDevice, {Mapping, ControlDevice})
    /\ UNCHANGED stack

(* The loop has come to the end of the list; nothing else is looked at.      *)
Unloaded ==
    /\ driver = "deleting"
    /\ remaining = {}
    /\ driver' = "unloaded"
    /\ UNCHANGED <<g_ControlExtension, handles, owned, remaining, stack, above,
                   connectVars, filterVars, callback>>

-----------------------------------------------------------------------------
EntryNext ==
    \/ CreateControl \/ MapFrameBuffer \/ MapFails \/ CreateLink \/ LinkFails
    \/ EntryDone \/ Reload

UnloadNext ==
    \/ Unload \/ ForgetControl \/ (\E s \in Stacks : DeleteFilter(s))
    \/ DeleteControl \/ Unloaded

StackNext(s) ==
    \/ CreateFilter(s) \/ Attach(s) \/ AttachFails(s) \/ ClassAttaches(s)
    \/ Connect(s) \/ ConnectRefused(s) \/ SaveUpper(s) \/ Substitute(s) \/ ForwardConnect(s)
    \/ Enter(s) \/ Queue(s) \/ CallUpper(s)
    \/ Remove(s) \/ RemoveLower(s) \/ Detach(s) \/ Delete(s)

Next == EntryNext \/ UnloadNext \/ OpenHandle \/ CloseHandle \/ \E s \in Stacks : StackNext(s)

Spec == Init /\ [][Next]_vars

(* Code of the driver that has begun goes on.  The port driver's wait for a   *)
(* callback under way is not overtaken for ever by new ones.                 *)
Fairness ==
    \A s \in Stacks :
        /\ WF_vars(Queue(s) \/ CallUpper(s))
        /\ SF_vars(RemoveLower(s))
        /\ WF_vars(Detach(s) \/ Delete(s))

FairSpec == Spec /\ Fairness

-----------------------------------------------------------------------------
(* Properties.                                                             *)

TypeOK ==
    /\ driver \in {"unloaded", "created", "mapped", "linked", "loaded", "failed",
                   "unlinked", "deleting"}
    /\ owned \subseteq {ControlDevice, Mapping, Link} \cup {Filter(s) : s \in Stacks} \cup {Attachment(s) : s \in Stacks}
    /\ remaining \subseteq Devices
    /\ g_ControlExtension \in BOOLEAN
    /\ handles \in 0..MaxHandles
    /\ stack \in [Stacks -> {"absent", "created", "added", "remove", "detach", "delete"}]
    /\ above \in [Stacks -> BOOLEAN]
    /\ connecting \in [Stacks -> {"idle", "save", "substitute", "forward"}]
    /\ Connected \in [Stacks -> BOOLEAN]
    /\ UpperConnectData \in [Stacks -> {NoService, ClassService, OwnService}]
    /\ connectData \in [Stacks -> {NoService, ClassService, OwnService}]
    /\ lower \in [Stacks -> {NoService, OwnService}]
    /\ callback \in [Stacks -> {"idle", "queue", "upper"}]

(* A DriverEntry that fails, wherever it does, and an unload give back every *)
(* resource the driver ever took, although the loop of the unload visits only *)
(* the devices it found at its start and ends whatever it has made of them;   *)
(* and of a stack that is gone, or that AddDevice could not join, no device   *)
(* and no attachment stays.                                                  *)
NothingLeaks ==
    /\ driver \in {"failed", "unloaded"} => owned = {}
    /\ \A s \in Stacks : stack[s] = "absent" => {Filter(s), Attachment(s)} \cap owned = {}

(* While the global pointer is set, or a callback works with what it read     *)
(* from it, the control device and its framebuffer mapping exist.            *)
ExtensionIsAlive ==
    g_ControlExtension \/ (\E s \in Stacks : callback[s] = "queue") =>
        {ControlDevice, Mapping} \subseteq owned

(* A service callback runs only on a filter device that exists and is        *)
(* attached, all through the removal of its stack.                           *)
CallbackOnLiveFilter ==
    \A s \in Stacks : callback[s] # "idle" => {Filter(s), Attachment(s)} \subseteq owned

(* Whatever connect requests kbdclass repeats, the callback passes records   *)
(* to kbdclass: never to itself, which would not end, and never to nobody.   *)
UpperIsClass == \A s \in Stacks : callback[s] # "idle" => UpperConnectData[s] = ClassService

(* A removal that kbdclass has passed down comes to its end: it waits for the *)
(* callback under way, and that returns.                                     *)
RemovalEnds == \A s \in Stacks : stack[s] = "remove" ~> stack[s] = "absent"
===============================================================================
